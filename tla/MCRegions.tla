------------------------------ MODULE MCRegions ------------------------------
(* Small bodies for RegionTranslation.  Regions: 0 'static, 1 a universal   *)
(* region 'a, 2 the function, 3 and 4 loans, 8 and 9 regions of values.     *)
(* Locals: x and q are shared references to numbers, &'5 u8 and &'7 u8, and *)
(* y is a mutable one to such a reference, &mut &'6 u8; x is an argument of *)
(* type &'a u8.  The outer region of y is left out.                         *)
EXTENDS RegionTranslation

MCPlaceholder == {0, 1, 2}
MCKnownSubset == {<<0, 1>>, <<0, 2>>, <<1, 2>>}
MCArgMapping  == {<<1, 5>>}

Straight == [l \in {"b0", "b1", "b2", "b3"} |->
               CASE l = "b0" -> <<"b1">> [] l = "b1" -> <<"b2">> [] l = "b2" -> <<"b3">> [] OTHER -> <<>>]
\* Two branches that meet again; the shorter one, and what is behind the
\* join, are translated before the longer one.
Forked   == [l \in {"b0", "b1", "b2", "b3", "b4", "c2", "j1", "j2"} |->
               CASE l = "b0" -> <<"b1">> [] l = "b1" -> <<"b2", "c2">> [] l = "b2" -> <<"b3">>
                 [] l = "b3" -> <<"b4">> [] l \in {"b4", "c2"} -> <<"j1">>
                 [] l = "j1" -> <<"j2">> [] OTHER -> <<>>]
Edges(T)   == UNION {{l} \X {T[l][i] : i \in DOMAIN T[l]} : l \in DOMAIN T}
StraightEdges == Edges(Straight)
ForkedEdges   == Edges(Forked)

Nop == [facts |-> {}, lhs |-> {}, strong |-> TRUE, ty |-> {}, loan |-> {},
        rvalue |-> "Use", region |-> {}, recovered |-> <<>>]

Skip == Nop
\* x2 = x1, where both are of type &u8, and *y = x1, x2 = *y.
Copy(r1, r2)      == [Nop EXCEPT !.facts = {<<r1, r2>>}, !.lhs = {r2}]
Write(r1, r2)     == [Copy(r1, r2) EXCEPT !.strong = FALSE]
\* y = &mut x1 relates the regions of the references pointed to both ways.
PointTo(r1, r2)   == [Copy(r1, r2) EXCEPT !.facts = {<<r1, r2>>, <<r2, r1>>}]
\* x2 = &p, *y = &p and x2 = &*q for a mutable q, with loan l; x2 = &**y, for
\* which Polonius issues no loan, and x2 = &*r for a raw pointer r, with value
\* region v.
Borrow(l, r2)     == [Copy(l, r2) EXCEPT !.loan = {l}, !.rvalue = "Shared", !.region = {l}]
Reborrow(r1, l, r2) == [Borrow(l, r2) EXCEPT !.facts = @ \cup {<<r1, l>>}]
ReborrowShared(r1, v, r2) == [Reborrow(r1, v, r2) EXCEPT !.loan = {}, !.ty = {v}]
FromRaw(v, r2)    == [Borrow(v, r2) EXCEPT !.loan = {}, !.ty = {v}]
WriteBorrow(l, r2) == [Borrow(l, r2) EXCEPT !.strong = FALSE]
\* x2 = S { x1 }, x2 = f(x1), x2 = f(x1, a) and *y = f(x1): value region v.
Aggregate(r1, v, r2) == [Copy(v, r2) EXCEPT !.facts = @ \cup {<<r1, v>>}, !.ty = {v},
                                           !.rvalue = "Aggregate"]
Call(r1, v, r2)   == [Copy(v, r2) EXCEPT !.facts = @ \cup {<<r1, v>>}, !.rvalue = "Call"]
CallJoin(r1, v, r2) == [Call(r1, v, r2) EXCEPT !.facts = @ \cup {<<1, v>>}]
CallWrite(r1, v, r2) == [Call(r1, v, r2) EXCEPT !.strong = FALSE]
\* x2 = f::<'a>(): nothing but the signature constrains region v of the result.
CallEarly(v, r2)  == [Copy(v, r2) EXCEPT !.rvalue = "Call", !.recovered = [r \in {v} |-> 1]]
\* x2 = STATIC: nothing constrains the region v of the value.
FromStatic(v, r2) == [Copy(v, r2) EXCEPT !.rvalue = "Constant"]

\* Any statement of the three locals.
Assignments ==
  {Skip, Copy(5, 7), Copy(7, 5), Copy(6, 5), PointTo(5, 6), PointTo(7, 6), Write(5, 6),
   Write(7, 6), Borrow(3, 5), Borrow(4, 7), ReborrowShared(6, 8, 5), WriteBorrow(3, 6),
   FromStatic(9, 7), FromRaw(9, 7), Aggregate(5, 8, 7), Call(5, 8, 7),
   CallJoin(7, 8, 5), CallWrite(5, 8, 6), CallEarly(9, 5)}
\* ... and of x and q as mutable references.
Reborrows == {Reborrow(7, 3, 5), Reborrow(5, 4, 7), Reborrow(6, 4, 7)}

ForkedBody(s0, s1, s2, s3, s4, t, u1, u2) ==
  [l \in DOMAIN Forked |->
     CASE l = "b0" -> s0 [] l = "b1" -> s1 [] l = "b2" -> s2 [] l = "b3" -> s3
       [] l = "b4" -> s4 [] l = "c2" -> t [] l = "j1" -> u1 [] l = "j2" -> u2]

\* Bodies that make q or y known before a branch, one of them again in it, and go
\* on with any statement and one that reads or writes through what was related;
\* the other branch, which is translated before, may relate q to y.
Branching ==
  {ForkedBody(Skip, s1, s2, s3, s4, t, Skip, Skip) :
     s1 \in {Copy(5, 7), Borrow(4, 7), PointTo(5, 6), Skip},
     s2 \in {PointTo(7, 6), FromRaw(9, 7), Borrow(3, 5), Skip},
     s3 \in Assignments \cup Reborrows,
     s4 \in {Skip, Write(7, 6), Copy(6, 5), CallWrite(5, 8, 6)},
     t  \in {Skip, PointTo(7, 6)}}

\* Bodies whose branches do the same or do not: they write through y or assign
\* x, y or q, and what is behind the join points y to q, reads and writes through
\* it.
Meeting ==
  {<<s, s>> : s \in {Write(5, 6), Copy(5, 7), Copy(7, 5), Copy(6, 5), PointTo(7, 6), Skip}}
    \cup {<<Copy(5, 7), Borrow(4, 7)>>, <<Borrow(4, 7), Copy(5, 7)>>, <<Skip, Write(5, 6)>>, <<Copy(7, 5), Skip>>}
Joining ==
  {ForkedBody(s0, s1, arms[1], Skip, Skip, arms[2], u1, u2) :
     s0 \in {Copy(5, 7), Borrow(4, 7), Skip},
     s1 \in {PointTo(7, 6), PointTo(5, 6), Copy(5, 7), Skip},
     arms \in Meeting,
     u1 \in {PointTo(7, 6), PointTo(5, 6), Write(5, 6), Copy(5, 7), Copy(6, 5), Skip},
     u2 \in {Write(5, 6), Write(7, 6), Copy(6, 5), Skip}}
ForkedBodies == Branching \cup Joining

Only(l0, l1, l2, l3) ==
  {[l \in DOMAIN Straight |->
      CASE l = "b0" -> l0 [] l = "b1" -> l1 [] l = "b2" -> l2 [] l = "b3" -> l3]}

\* q = x; x = &p; y = &mut q; *y = x.
ReassignedBodies == Only(Copy(5, 7), Borrow(3, 5), PointTo(7, 6), Write(5, 6))

\* x = &p; q = &p'; v = &mut x; y = &mut q; *y = *v; *v = *y, where v is another
\* local of the type of y, with region 8.
Long == [l \in {"b0", "b1", "b2", "b3", "b4", "b5"} |->
           CASE l = "b0" -> <<"b1">> [] l = "b1" -> <<"b2">> [] l = "b2" -> <<"b3">>
             [] l = "b3" -> <<"b4">> [] l = "b4" -> <<"b5">> [] OTHER -> <<>>]
LongEdges == Edges(Long)
SwappedBodies ==
  {[l \in DOMAIN Long |->
      CASE l = "b0" -> Borrow(3, 5) [] l = "b1" -> Borrow(4, 7)
        [] l = "b2" -> PointTo(5, 8) [] l = "b3" -> PointTo(7, 6)
        [] l = "b4" -> Write(8, 6) [] l = "b5" -> Write(6, 8)]}
=============================================================================
