------------------------------ MODULE BodyRun ------------------------------
(***************************************************************************)
(* A run of a body that an analysis has finished with.  What the analysis  *)
(* says of a location has to describe every state a run can have there.    *)
(* The runs are a parameter like the domain; the relation between the two  *)
(* is what the trait AbstractState asks of its implementations             *)
(* (abstract_interpretation/abstract_state.rs).                            *)
(***************************************************************************)
EXTENDS FixpointEngine

CONSTANTS
  Conc,                   \* the states of a run
  entry(_),               \* those a run of a body can begin with
  run_statement(_, _),    \* those a statement can lead to
  run_terminator(_, _),   \* the blocks a terminator can lead to, with them
  describes(_, _)         \* an abstract state describes one of a run

VARIABLES
  at,     \* the location of the run, if it has begun
  conc

run  == <<at, conc>>
vars == <<engine, run>>

Nowhere == <<"nowhere">>

ASSUME DomainAssumption ==
  /\ \A B \in Bodies : \A c \in entry(B) : c \in Conc /\ describes(new_initial(B), c)
  /\ \A s, t \in State, c \in Conc :
       describes(s, c) \/ describes(t, c) => describes(join(s, t), c)
  /\ \A st \in Statement, c \in Conc : \A d \in run_statement(st, c) :
       d \in Conc /\ \A s \in State :
         describes(s, c) => describes(apply_statement_effect(st, s), d)
  /\ \A t \in Terminator, c \in Conc : \A e \in run_terminator(t, c) :
       /\ e[1] \in successors(t) /\ e[2] \in Conc
       /\ \A s \in State : supported(t) /\ describes(s, c) =>
            LET effect == apply_terminator_effect(t, s)
            IN  (\E i \in DOMAIN effect : effect[i][1] = e[1])
                  => \E i \in DOMAIN effect :
                       effect[i][1] = e[1] /\ describes(effect[i][2], e[2])

-----------------------------------------------------------------------------
Init ==
  /\ EngineInit
  /\ at = Nowhere
  /\ conc \in entry(body)

Analyse == EngineNext /\ UNCHANGED run

Begin ==
  /\ Finished /\ at = Nowhere
  /\ at' = <<START_BLOCK, 0>>
  /\ UNCHANGED <<engine, conc>>

RunStatement ==
  /\ at # Nowhere
  /\ at[2] < BodyLength(at[1])
  /\ conc' \in run_statement(body[at[1]].statements[at[2] + 1], conc)
  /\ at' = <<at[1], at[2] + 1>>
  /\ UNCHANGED engine

RunTerminator ==
  /\ at # Nowhere
  /\ at[2] = BodyLength(at[1])
  /\ \E e \in run_terminator(body[at[1]].terminator, conc) :
       at' = <<e[1], 0>> /\ conc' = e[2]
  /\ UNCHANGED engine

Next == Analyse \/ Begin \/ RunStatement \/ RunTerminator

Spec == Init /\ [][Next]_vars

\* The engine is a loop that runs until its work set is empty.
FairSpec == Spec /\ WF_vars(Analyse)

-----------------------------------------------------------------------------
(* Properties. *)

\* Whatever run of the body gets to a location, its state there is one that
\* the result of run_fwd_analysis for that location describes.
Described == at # Nowhere => describes(state_before[at], conc)

\* t describes whatever s does.
Covers(s, t) == \A c \in Conc : describes(s, c) => describes(t, c)

\* The invariant of the loop: what has reached an edge is described by the
\* state of the block behind it, unless that block is still in the work set or
\* the one at hand.
EdgesCovered ==
  \A p \in DOMAIN state_after_block : \A b \in Successors(p) :
    \/ b \in work_set
    \/ pc # "pick" /\ b = bb
    \/ /\ <<b, 0>> \in DOMAIN state_before
       /\ Covers(state_after_block[p][b], state_before[<<b, 0>>])

\* The result has a state for every location and every edge: those who look
\* them up do not ask whether there is one.
Complete ==
  Finished => DOMAIN state_before = Location /\ DOMAIN state_after_block = Block

\* The analysis ends: every block whose input changed is analysed again, and
\* that comes to an end also for bodies with loops.
Terminates == <>(Finished \/ pc = "failed")
=============================================================================
