--------------------------- MODULE AnalysisResult ---------------------------
(***************************************************************************)
(* What is made of the result of an analysis                               *)
(* (rr_frontend/translation/src/environment/mir_analyses/initialization.rs, *)
(* compute_definitely_initialized), and how good a result is.              *)
(***************************************************************************)
EXTENDS BodyRun, SequencesExt

\* Mutant: the first edge stands for all.
mut_first_edge(b) ==
  LET states == state_after_block[b]
  IN  IF DOMAIN states = {} THEN new_bottom ELSE states[Min(DOMAIN states)]

\* The state recorded as the one after a terminator: those of its edges joined,
\* the one to the least block first.
join_values(states) ==
  MapThenFoldSet(LAMBDA s, curr_state : join(curr_state, s), states[Min(DOMAIN states)],
                 LAMBDA c : states[c], Max, DOMAIN states \ {Min(DOMAIN states)})
joined_after_block(b) ==
  IF DOMAIN state_after_block[b] = {} THEN new_bottom ELSE join_values(state_after_block[b])

after_statement(loc) ==
  IF loc[2] < BodyLength(loc[1]) THEN state_before[<<loc[1], loc[2] + 1>>]
  ELSE joined_after_block(loc[1])

\* All locations a run gets to, with the states it can have there, found by
\* following every path.
Reached ==
  LET Steps(R) ==
        R \cup UNION {{<<<<r[1][1], r[1][2] + 1>>, d>> :
                          d \in run_statement(body[r[1][1]].statements[r[1][2] + 1], r[2])} :
                        r \in {q \in R : q[1][2] < BodyLength(q[1][1])}}
          \cup UNION {{<<<<e[1], 0>>, e[2]>> :
                          e \in run_terminator(body[r[1][1]].terminator, r[2])} :
                        r \in {q \in R : q[1][2] = BodyLength(q[1][1])}}
      Within[n \in Nat] ==
        IF n = 0 THEN {<<<<START_BLOCK, 0>>, c>> : c \in entry(body)} ELSE Steps(Within[n - 1])
  IN  Within[Cardinality(Location) * Cardinality(Conc)]

-----------------------------------------------------------------------------
(* Properties. *)

\* What is recorded for a point after a statement or terminator describes every
\* state of the run right behind it, whichever way a terminator goes.
DescribedAfter ==
  [][at # Nowhere => describes(after_statement(at), conc')]_run

EveryBlockReachable ==
  \A S \in SUBSET Block :
    START_BLOCK \in S /\ (\A b \in S : Successors(b) \subseteq S) => S = Block

\* There is no better result: a state of the domain that describes whatever a
\* run can have at a location describes all that the result describes.  A block
\* that no path leads to is analysed as well and can spoil its successors.
BestResult ==
  Finished /\ at = Nowhere /\ EveryBlockReachable =>
    LET reached == Reached
    IN  \A loc \in {r[1] : r \in reached} : \A s \in State :
          (\A r \in {q \in reached : q[1] = loc} : describes(s, r[2]))
            => Covers(state_before[loc], s)
=============================================================================
