------------------------------- MODULE MCBody -------------------------------
EXTENDS CodeRun

CONSTANTS q, x, y

---------------------------------------------------------------------------
(* Bodies that differ in their graphs: four blocks with jumps, branches and  *)
(* false edges, the start block going to block 1 first.                      *)
Stmt(o, d, s) == [op |-> o, dst |-> d, src |-> s]
Borrow(d, s) == Stmt("borrow", d, s)
Move(d, s) == Stmt("move", d, s)
Fresh_(d) == Stmt("fresh", d, NoVar)
Use(s) == Stmt("use", NoVar, s)
Nop == Stmt("nop", NoVar, NoVar)
Spec_(d) == [op |-> "spec", dst |-> NoVar, src |-> NoVar, did |-> d]

Term(k, ts, vs) ==
  [kind |-> k, targets |-> ts, virtual |-> vs, op |-> k, src |-> NoVar, dst |-> NoVar, callee |-> "f", operands |-> <<>>]
Goto(t) == Term("goto", <<t>>, {})
Return == Term("return", <<>>, {})
Call(s, d, ts) == [Term("call", ts, {}) EXCEPT !.src = s, !.dst = d]

Terms(bs) ==
  {Goto(t) : t \in bs} \cup {Return}
    \cup {Term("if", <<p[1], p[2]>>, {}) : p \in {r \in bs \X bs : r[1] < r[2]}}
    \cup {Term("false_edge", <<p[1]>>, {p[2]}) : p \in {r \in bs \X bs : r[1] # r[2]}}
Graphs == {g \in [0..3 -> Terms(1..3)] : g[0] \in {Goto(1), Term("if", <<1, 2>>, {}), Term("if", <<2, 1>>, {}),
                                                    Term("false_edge", <<1>>, {2})}}
Bare(g) == [c \in DOMAIN g |-> [stmts |-> <<>>, term |-> g[c]]]

(* Specification closures are assigned in all blocks that are no heads.      *)
WithSpecs(b, heads) ==
  [c \in DOMAIN b |-> [b[c] EXCEPT !.stmts = IF c \in heads THEN <<>> ELSE <<Spec_(c)>>]]

GraphBodies ==
  {WithSpecs(b, loop_heads(b)) :
     b \in {Bare(g) : g \in {h \in Graphs : IsMirBody(Bare(h)) /\ Reducible(Bare(h))}}}

---------------------------------------------------------------------------
(* Bodies that differ in what they do with references: a branch that meets   *)
(* again, a loop, and a call.                                                *)
Block(stmts, term) == [stmts |-> stmts, term |-> term]
If(f, t) == Term("if", <<f, t>>, {})
Switch(ts) == Term("switch", ts, {})
SwitchOn(v, ts) == [Switch(ts) EXCEPT !.src = v]

InBranch == {Nop, Move(y, x), Use(x), Fresh_(q), Use(q), Borrow(y, q)}
AtEnd == {<<Use(x), Use(q)>>, <<Nop, Use(q)>>, <<Fresh_(q), Use(y)>>, <<Use(y), Use(x)>>}
Branching ==
  {<<Block(<<Borrow(x, q), s[1]>>, fork), Block(<<s[2]>>, Goto(3)), Block(<<s[3]>>, Goto(3)), Block(s[4], Return)>> :
     s \in {Nop, Move(y, x), Borrow(y, x)} \X InBranch \X InBranch \X AtEnd, fork \in {If(1, 2)}}
    \cup {<<Block(<<s[1]>>, If(1, 2)), Block(<<Borrow(y, q)>>, SwitchOn(y, <<3>>)), Block(<<s[2]>>, Goto(3)), Block(s[3], Return)>> :
     s \in {Nop, Borrow(x, q)} \X InBranch \X AtEnd}
    \cup {<<Block(<<Borrow(x, q), Use(x)>>, fork), Block(<<s[1]>>, Goto(3)), Block(s[2], Goto(3)), Block(s[3], Return)>> :
     s \in InBranch \X {<<>>, <<Use(q)>>, <<Use(x)>>} \X AtEnd, fork \in {If(1, 2), Switch(<<1, 2>>)}}

InLoop == {Nop, Use(x), Use(y), Use(q), Fresh_(q), Move(x, y), Move(q, x), Borrow(y, x), Borrow(x, q)}
Looping ==
  {<<Block(<<s[1]>>, Goto(1)), Block(<<s[2]>>, If(3, 2)), Block(<<s[3], s[4]>>, Goto(1)), Block(<<s[5]>>, Return)>> :
     s \in {Fresh_(x), Borrow(x, q)} \X {Nop, Use(x), Borrow(x, q)} \X InLoop \X InLoop \X {Use(x), Use(q)}}

Calling ==
  {<<Block(<<Borrow(x, q), s[1]>>, Call(s[2], s[3], <<1>>)), Block(s[4], Call(s[2], NoVar, <<2>>)),
     Block(<<Nop>>, Return)>> :
     s \in {Nop, Borrow(y, x), Fresh_(q)} \X {x, q, NoVar} \X {x, y, q, NoVar} \X AtEnd}

(* Loans have numbers in the order of their borrows.                         *)
Numbered(stmt, n) == IF stmt.op = "borrow" THEN [loan |-> n] @@ stmt ELSE stmt
ToBody(bs) ==
  [c \in 0..(Len(bs) - 1) |->
    [bs[c + 1] EXCEPT !.stmts = [i \in DOMAIN @ |-> Numbered(@[i], 10 * c + i)]]]
LoanBodies ==
  {b \in {ToBody(bs) : bs \in Branching \cup Looping \cup Calling} : Accepted(b, loan_facts(b))}

---------------------------------------------------------------------------
(* One body for each other kind of terminator and statement, a loop over an  *)
(* iterator, and nested loops with closures before and after the inner loop. *)
Kinds == {"panic", "discriminant", "assert", "drop", "false_unwind", "unreachable", "resume", "terminate",
          "tail_call", "coroutine_drop", "yield", "inline_asm", "call"}
Ending(t) == ToBody(<<Block(<<Borrow(x, q)>>, Goto(1)), Block(<<Use(x)>>, t), Block(<<Use(q)>>, Return)>>)

(* A value of each kind, most of them in one form that is translated and in  *)
(* one that is not.                                                          *)
Place(projections) == [kind |-> "copy", projections |-> projections]
Constant(form, value, ty) ==
  [kind |-> "constant",
   constant |-> [form |-> form, value |-> value, ty |-> ty, callee |-> "unknown", points_to |-> "memory"]]
Operands ==
  {Place(<<"deref", "field">>), Place(<<"deref", "index">>), Constant("val", "scalar", "char"),
   Constant("ty", "leaf", "char"), Constant("ty", "leaf", "int"), Constant("val", "scalar", "ref"),
   Constant("unevaluated", "too_generic", "int"), Constant("val", "zero_sized", "fn_def"),
   [kind |-> "runtime_checks"]}
Values ==
  {[kind |-> "use", of |-> "", operands |-> <<o>>] : o \in Operands}
    \cup {[kind |-> v[1], of |-> v[2], operands |-> <<>>] :
            v \in {"ref"} \X {"fake"} \cup {"binary_op"} \X {"cmp", "add"} \cup {"unary_op"} \X {"ptr_metadata", "neg"}
                 \cup {"discriminant"} \X {"coroutine", "adt"} \cup {"aggregate"} \X {"tuple", "array"}
                 \cup {"cast"} \X {"int_to_int", "transmute"} \cup {"repeat"} \X {""}}
Assign(v) == [op |-> "assign", dst |-> x, src |-> NoVar, value |-> v]
Assigning(v) == Block(<<Assign(v)>>, Return)
Unsupported == Block(<<Stmt("set_discriminant", NoVar, NoVar)>>, Return)
KindBodies ==
  {Ending(IF k \in EndKinds THEN Term(k, <<>>, {2}) ELSE Term(k, <<2>>, {})) : k \in Kinds}
    \cup {Ending(Term("call", <<>>, {2})), Ending([Call(NoVar, NoVar, <<2>>) EXCEPT !.callee = "unknown"])}
    \cup {Ending([t EXCEPT !.operands = <<Place(<<p>>)>>]) :
            t \in {Call(NoVar, NoVar, <<2>>), Term("drop", <<2>>, {}), Term("assert", <<2>>, {})}, p \in {"field", "index"}}
    \cup {ToBody(<<Unsupported>>), ToBody(<<Block(<<>>, Goto(1)), Unsupported>>)}
    \cup {ToBody(<<Assigning(v)>>) : v \in Values}

NextLoop(stmts, did) ==
  ToBody(<<Block(<<>>, Goto(1)), Block(<<>>, Term("false_unwind", <<2>>, {})),
           Block(stmts, [Call(y, NoVar, <<3>>) EXCEPT !.callee = "next"]), Block(<<Spec_(did)>>, Switch(<<1, 4>>)),
           Block(<<>>, Return)>>)
NestedLoops(outer, inner, after) ==
  ToBody(<<Block(<<>>, Goto(1)), Block(outer, If(5, 2)), Block(<<>>, If(4, 3)), Block(inner, Goto(2)),
           Block(after, Goto(1)), Block(<<>>, Return)>>)
LoopBodies ==
  {NextLoop(<<Borrow(x, q), Borrow(y, x)>>, 30), NextLoop(<<Borrow(x, q), Move(y, x)>>, 30),
   NextLoop(<<Borrow(x, q), Borrow(y, x)>>, 99)}
    \cup {NestedLoops(o, i, a) : o \in {<<>>, <<Spec_(10)>>}, i \in {<<>>, <<Spec_(30)>>}, a \in {<<>>, <<Spec_(40)>>}}

AllBodies == GraphBodies \cup LoanBodies \cup KindBodies \cup LoopBodies

(* The loan of x dies on the exit from the loop if the loop was not entered, *)
(* and lives on in q if it was.                                              *)
Traversal ==
  {ToBody(<<Block(<<Borrow(x, q)>>, Goto(1)), Block(<<Nop>>, If(3, 2)),
            Block(<<Move(q, x), Borrow(x, q)>>, Goto(1)), Block(<<Use(q)>>, Return)>>)}
=============================================================================
