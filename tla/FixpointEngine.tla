--------------------------- MODULE FixpointEngine ---------------------------
(***************************************************************************)
(* The forward analyses of function bodies (rr_frontend/analysis/src/      *)
(* abstract_interpretation/fixpoint_engine.rs): run_fwd_analysis takes     *)
(* blocks from a work set, least first, joins the states its predecessors  *)
(* left, applies the statements and the terminator, and takes up again     *)
(* every successor whose incoming state changed.                           *)
(*                                                                         *)
(* The domain is a parameter, as in the code: the trait AbstractState and  *)
(* the required methods of FixpointEngine.  A body maps its blocks to      *)
(* their statements and terminator.                                        *)
(***************************************************************************)
EXTENDS Naturals, Sequences, FiniteSets

CONSTANTS
  Bodies,
  Statement, Terminator,
  START_BLOCK,
  successors(_),                  \* of a terminator
  State,
  join(_, _),
  new_bottom,
  new_initial(_),                 \* of a body
  apply_statement_effect(_, _),   \* of a statement on a state
  supported(_),                   \* the domain can handle a terminator
  apply_terminator_effect(_, _)   \* of a terminator on a state: a sequence
                                  \* of successors with their states

VARIABLES
  body,
  work_set,
  pc,                 \* "pick" a block, "join" its predecessors, apply its
                      \* "statements", "collect" the states behind it, or
                      \* "failed"
  bb,                 \* the block at hand
  preds,              \* its predecessors left to join
  current_state,
  statement_index,    \* of the statements applied so far
  next_states,        \* what the terminator left to collect
  new_map,            \* what was collected: states of successors
  state_before,       \* states of locations
  state_after_block   \* states of the edges out of a block

position == <<pc, bb, preds, current_state, statement_index, next_states, new_map>>
results  == <<state_before, state_after_block>>
engine   == <<body, work_set, position, results>>

Block         == DOMAIN body
BodyLength(b) == Len(body[b].statements)
Location      == UNION {{b} \X (0 .. BodyLength(b)) : b \in Block}
Successors(b) == successors(body[b].terminator)
predecessors(b) == {p \in Block : b \in Successors(p)}

IsBody(B) ==
  /\ DOMAIN B \subseteq Nat /\ IsFiniteSet(DOMAIN B) /\ START_BLOCK \in DOMAIN B
  /\ \A b \in DOMAIN B :
       /\ B[b].statements \in Seq(Statement)
       /\ B[b].terminator \in Terminator
       /\ successors(B[b].terminator) \subseteq DOMAIN B
       /\ START_BLOCK \notin successors(B[b].terminator)

ASSUME EngineAssumption ==
  /\ \A B \in Bodies : IsBody(B)
  /\ new_bottom \in State
  /\ \A B \in Bodies : new_initial(B) \in State
  /\ \A s, t \in State : join(s, t) \in State
  /\ \A st \in Statement, s \in State : apply_statement_effect(st, s) \in State
  /\ \A t \in Terminator, s \in State :
       supported(t) => apply_terminator_effect(t, s) \in Seq(successors(t) \X State)

Empty == [x \in {} |-> x]
Updated(f, x, v) == [y \in DOMAIN f \cup {x} |-> IF y = x THEN v ELSE f[y]]

-----------------------------------------------------------------------------
\* Mutant: the analysis begins with the start block only.
mut_start_only == {START_BLOCK}

initial_work_set == Block

EngineInit ==
  /\ body \in Bodies
  /\ work_set = initial_work_set
  /\ pc = "pick"
  /\ bb = START_BLOCK
  /\ preds = {}
  /\ current_state = new_bottom
  /\ statement_index = 0
  /\ next_states = <<>>
  /\ new_map = Empty
  /\ state_before = Empty
  /\ state_after_block = Empty

\* Mutant: the start block is a block like any other.
mut_no_initial(b) == new_bottom

state_before_block(b) == IF b = START_BLOCK THEN new_initial(body) ELSE new_bottom

TakeBlock ==
  /\ pc = "pick"
  /\ \E b \in work_set :
       /\ \A c \in work_set : b <= c
       /\ bb' = b
       /\ work_set' = work_set \ {b}
       /\ preds' = predecessors(b)
       /\ current_state' = state_before_block(b)
  /\ pc' = "join"
  /\ statement_index' = 0
  /\ UNCHANGED <<body, next_states, new_map, results>>

\* A predecessor that has no state yet has no effect on the join.
joined_with(p) ==
  IF p \in DOMAIN state_after_block
  THEN join(current_state, state_after_block[p][bb]) ELSE current_state

JoinPredecessor ==
  /\ pc = "join"
  /\ \E p \in preds :
       /\ preds' = preds \ {p}
       /\ current_state' = joined_with(p)
  /\ UNCHANGED <<body, work_set, pc, bb, statement_index, next_states, new_map, results>>

SetBefore ==
  state_before' = Updated(state_before, <<bb, statement_index>>, current_state)

ApplyStatement ==
  /\ pc = "join" /\ preds = {}
  /\ statement_index < BodyLength(bb)
  /\ SetBefore
  /\ current_state' =
       apply_statement_effect(body[bb].statements[statement_index + 1], current_state)
  /\ statement_index' = statement_index + 1
  /\ UNCHANGED <<body, work_set, pc, bb, preds, next_states, new_map, state_after_block>>

ApplyTerminator ==
  /\ pc = "join" /\ preds = {}
  /\ statement_index = BodyLength(bb)
  /\ SetBefore
  /\ new_map' = Empty
  /\ \/ /\ supported(body[bb].terminator)
        /\ next_states' = apply_terminator_effect(body[bb].terminator, current_state)
        /\ pc' = "collect"
     \/ /\ ~supported(body[bb].terminator)
        /\ pc' = "failed"
        /\ UNCHANGED next_states
  /\ UNCHANGED <<body, work_set, bb, preds, current_state, statement_index, state_after_block>>

\* States with the same destination are joined.
CollectState ==
  /\ pc = "collect" /\ next_states # <<>>
  /\ LET b == Head(next_states)[1]
         s == Head(next_states)[2]
     IN  new_map' = Updated(new_map, b, IF b \in DOMAIN new_map THEN join(new_map[b], s) ELSE s)
  /\ next_states' = Tail(next_states)
  /\ UNCHANGED <<body, work_set, pc, bb, preds, current_state, statement_index, results>>

\* Mutant: a block is taken up again whenever a predecessor was analysed.
mut_always(b) == TRUE

\* Mutant: a block is taken up for new edges only.
mut_new_edge(b) == bb \notin DOMAIN state_after_block

Changed(b) ==
  bb \in DOMAIN state_after_block => state_after_block[bb][b] # new_map[b]

InsertStates ==
  /\ pc = "collect" /\ next_states = <<>>
  /\ \/ /\ Successors(bb) \subseteq DOMAIN new_map
        /\ state_after_block' =
             Updated(state_after_block, bb, [b \in Successors(bb) |-> new_map[b]])
        /\ work_set' = work_set \cup {b \in Successors(bb) : Changed(b)}
        /\ pc' = "pick"
     \/ /\ ~(Successors(bb) \subseteq DOMAIN new_map)
        /\ pc' = "failed"
        /\ UNCHANGED <<work_set, state_after_block>>
  /\ UNCHANGED <<body, bb, preds, current_state, statement_index, next_states, new_map,
                 state_before>>

Finished == pc = "pick" /\ work_set = {}

EngineNext ==
  \/ TakeBlock \/ JoinPredecessor \/ ApplyStatement \/ ApplyTerminator
  \/ CollectState \/ InsertStates

-----------------------------------------------------------------------------
(* Properties. *)

\* The shape of the state.
EngineTypeOK ==
  /\ body \in Bodies
  /\ work_set \subseteq Block
  /\ pc \in {"pick", "join", "collect", "failed"}
  /\ bb \in Block
  /\ preds \subseteq predecessors(bb)
  /\ current_state \in State
  /\ statement_index \in 0 .. BodyLength(bb)
  /\ pc = "collect" => /\ next_states \in Seq(Successors(bb) \X State)
                       /\ DOMAIN new_map \subseteq Successors(bb)
                       /\ \A b \in DOMAIN new_map : new_map[b] \in State
  /\ DOMAIN state_before \subseteq Location
  /\ \A loc \in DOMAIN state_before : state_before[loc] \in State
  /\ DOMAIN state_after_block \subseteq Block
  /\ \A b \in DOMAIN state_after_block :
       state_after_block[b] \in [Successors(b) -> State]
=============================================================================
