------------------------------ MODULE CodeRun -------------------------------
(* The translated code as the type system goes along its paths: which named  *)
(* lifetimes are open, and which references were borrowed for them.  A       *)
(* reference carries the loans it was made from; ending the lifetime of one  *)
(* (program_rules.v, type_endlft) makes it unusable, and what it borrowed is *)
(* back.                                                                     *)
EXTENDS BodyTranslation

(* Only bodies that the borrow checker accepted are translated.              *)
ASSUME ReferencesAssumption == \A b \in Bodies : IsReferenceBody(b) /\ AccessesAllowed(b, loan_facts(b))

VARIABLES at,       \* the block, or NoBlock
          pos,      \* the number of the statement in it to go next
          open,     \* the loans whose lifetimes are open
          carries,  \* of each variable, the open loans its reference depends on
          lent,     \* of each variable, the loans its reference is lent for
          ended,    \* the variables whose references depend on ended lifetimes
          stray     \* pairs of a variable and the loan it was lent for, whose
                    \* lifetime lost its name

runvars == <<at, pos, open, carries, lent, ended, stray>>
allvars == <<vars, runvars>>

NoBlock == -1

RunInit ==
  /\ at = NoBlock /\ pos = 1
  /\ open = {} /\ ended = {} /\ stray = {}
  /\ carries = [v \in Var |-> {}] /\ lent = [v \in Var |-> {}]

Prim == code[at].prims[pos]
AtPrim == at # NoBlock /\ pos <= Len(code[at].prims)
Advance == pos' = pos + 1 /\ UNCHANGED <<at, vars>>

BeginRun ==
  /\ status = "done" /\ at = NoBlock
  /\ at' = START_BLOCK
  /\ UNCHANGED <<vars, pos, open, carries, lent, ended, stray>>

(* type_endlft: nothing happens when the name is not there any more.         *)
RunEndLft ==
  /\ AtPrim /\ Prim.op = "end_lft"
  /\ ended' = ended \cup {v \in Var : Prim.loan \in carries[v] \cap open}
  /\ open' = open \ {Prim.loan}
  /\ Advance /\ UNCHANGED <<carries, lent, stray>>

(* A borrow starts a lifetime under the loan's name; if the name was still   *)
(* in use the old lifetime cannot be ended any more.                         *)
RunBorrow ==
  /\ AtPrim /\ Prim.op = "borrow"
  /\ open' = open \cup {Prim.loan}
  /\ stray' = {e \in stray \cup {<<v, Prim.loan>> : v \in {w \in Var : Prim.loan \in lent[w] \cap open}} : e[1] # Prim.dst}
  /\ carries' = [v \in Var |-> IF v = Prim.dst THEN {Prim.loan} \cup (carries[Prim.src] \ {Prim.loan})
                               ELSE carries[v] \ {Prim.loan}]
  /\ lent' = [v \in Var |-> IF v = Prim.dst THEN {}
                            ELSE (lent[v] \ {Prim.loan}) \cup (IF v = Prim.src THEN {Prim.loan} ELSE {})]
  /\ ended' = IF Prim.src \in ended THEN ended \cup {Prim.dst} ELSE ended \ {Prim.dst}
  /\ Advance

(* Other statements that define a variable: a move passes on what the        *)
(* reference depends on, anything else brings a reference from elsewhere.    *)
RunAssign ==
  /\ AtPrim /\ Prim.op \notin {"end_lft", "borrow"}
  /\ carries' = [v \in Var |-> IF v # Prim.dst THEN carries[v]
                               ELSE IF Prim.op = "move" THEN carries[Prim.src] ELSE {}]
  /\ lent' = [v \in Var |-> IF v = Prim.dst THEN {} ELSE lent[v]]
  /\ ended' = IF Prim.op = "move" /\ Prim.src \in ended THEN ended \cup {Prim.dst} ELSE ended \ {Prim.dst}
  /\ stray' = {e \in stray : e[1] # Prim.dst}
  /\ Advance /\ UNCHANGED open

RunJump ==
  /\ at # NoBlock /\ pos > Len(code[at].prims)
  /\ \E i \in DOMAIN code[at].jumps : at' = code[at].jumps[i].target
  /\ pos' = 1
  /\ UNCHANGED <<vars, open, carries, lent, ended, stray>>

RunSpecInit == Init /\ RunInit
RunNext ==
  \/ Next /\ UNCHANGED runvars
  \/ BeginRun \/ RunEndLft \/ RunBorrow \/ RunAssign \/ RunJump
RunSpec == RunSpecInit /\ [][RunNext]_allvars
RunFairSpec == RunSpec /\ WF_allvars(Translate /\ UNCHANGED runvars)

---------------------------------------------------------------------------
(* No reference is used on any path after a lifetime it depends on was ended *)
(* (basicblock.rs:33, polonius_info.rs:391): not when loans are ended for    *)
(* all the edges into a block at once, when a loan is ended both after a     *)
(* call and at the next block, nor when a loop issues a loan again.          *)
UsesHold == AtPrim => Prim.src \notin ended

(* The one exception are bodies in which a loan dies on an edge while the    *)
(* same loan, killed on another path, lives on as a zombie or the reverse:   *)
(* its ending is right on one path and wrong on the other.                   *)
TornLoan ==
  \E s \in Locations(body) : \E p \in get_loc_predecessors(body, s) : \E zombie \in BOOLEAN :
    get_loans_dying_between(body, facts, p, s, zombie) \cap live_start(facts, s, ~zombie) # {}
UsesHoldUntorn == AtPrim /\ Prim.src \in ended => TornLoan

(* What a reference was lent for is back before it is used again, but for    *)
(* loans that die where the translation does not look (terminator.rs:234):   *)
(* before the terminator of a block or on the way into one without           *)
(* statements.                                                               *)
Dying(p, s) ==
  get_loans_dying_between(body, facts, p, s, FALSE) \cup get_loans_dying_between(body, facts, p, s, TRUE)
EndedAtTerminator(p) ==
  IF IsTerminator(body, p) /\ EmitsEndings(At(body, p)) THEN get_loans_dying_at(body, facts, p, FALSE) ELSE {}
DiesUnseen(l) ==
  \E s \in Locations(body) : \E p \in get_loc_predecessors(body, s) :
    IsTerminator(body, s) /\ l \in Dying(p, s) \ EndedAtTerminator(p)
StillLent(v) == (lent[v] \cap open) \cup {e[2] : e \in {f \in stray : f[1] = v}}
LentBack == AtPrim /\ Prim.src # NoVar => \A l \in StillLent(Prim.src) : DiesUnseen(l)
=============================================================================
