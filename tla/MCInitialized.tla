--------------------------- MODULE MCInitialized ---------------------------
(***************************************************************************)
(* The definitely-initialised analysis on small bodies.                    *)
(***************************************************************************)
EXTENDS AnalysisResult, InitializedPlaces

\* x is a pair, p a box and an argument.
x  == <<"x">>
xf == <<"x", "f">>
xg == <<"x", "g">>
p  == <<"p">>
pd == <<"p", "deref">>

PlacesOfPairAndBox == {x, xf, xg, p, pd}
Arguments     == {p}

Init_xf   == Assign(<<>>, {xf})
Move_p_xg == Assign(<<p>>, {xg})
Fill      == Assign(<<xf, xg>>, {p})
Unbox     == Assign(<<pd>>, {x})
Rebox     == Assign(<<xf>>, {pd})
Dead_x    == StorageDead(x)

Blk(statements, terminator) == [statements |-> statements, terminator |-> terminator]

\* All bodies of three blocks with at most one statement from a choice in each.
Three(statements, exits) ==
  LET blocks == {Blk(s, t) : s \in {<<>>} \cup {<<st>> : st \in statements}, t \in exits}
  IN  [0 .. 2 -> blocks]

Return == Goto(<<>>)
Loops  == {Goto(<<1>>), SwitchInt(<<>>, <<1, 2>>), Return}
Calls  == {Goto(<<2>>), Call(<<p>>, {x}, <<1>>, <<2>>), Drop(x, 1, <<2>>),
           SwitchInt(<<xf>>, <<1, 1>>)}

\* A loop over two blocks and one of a block to itself, an unreachable block,
\* and unwinding out of the loop.
Nested ==
  (0 :> Blk(<<Init_xf>>, Goto(<<1>>))
   @@ 1 :> Blk(<<Move_p_xg>>, SwitchInt(<<xf>>, <<2, 3>>))
   @@ 2 :> Blk(<<Init_xf, Fill>>, Call(<<xf>>, {xf}, <<1>>, <<4>>))
   @@ 3 :> Blk(<<>>, SwitchInt(<<>>, <<3, 5>>))
   @@ 4 :> Blk(<<OtherStatement>>, Return)
   @@ 5 :> Blk(<<>>, Return)
   @@ 6 :> Blk(<<Init_xf>>, Drop(x, 5, <<>>)))

WithBody(terminator) ==
  (0 :> Blk(<<Init_xf>>, Goto(<<1>>)) @@ 1 :> Blk(<<Dead_x>>, terminator)
   @@ 2 :> Blk(<<>>, Return) @@ 3 :> Blk(<<>>, Goto(<<1>>)))

Unsupported == {WithBody(InlineAsm(<<2>>)), WithBody(AsyncDrop(p, 3, <<2>>, 2))}

PreciseBodies ==
  Three({Init_xf, Fill, Move_p_xg}, Loops) \cup Three({Init_xf}, {SwitchInt(<<xf>>, <<1, 1>>)})
AllBodies ==
  PreciseBodies \cup Three({Unbox, Rebox}, Calls) \cup {Nested} \cup Unsupported

AllStatements == UNION {UNION {ToSet(B[b].statements) : b \in DOMAIN B} : B \in Bodies}
AllTerminators == UNION {{B[b].terminator : b \in DOMAIN B} : B \in Bodies}

-----------------------------------------------------------------------------
(* Properties. *)

\* Where nothing unwinds and nothing behind a pointer is moved or assigned, the
\* result is as precise as its domain.  For the blocks that unwinding leads to
\* it is the top element, and a box is forgotten with its contents.
BestResultWithoutUnwinding == body \in PreciseBodies => BestResult
=============================================================================
