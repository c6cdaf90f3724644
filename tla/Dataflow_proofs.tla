--------------------------- MODULE Dataflow_proofs ---------------------------
(***************************************************************************)
(* Proofs about the engine and the runs of the bodies it analyses, for     *)
(* every domain that meets EngineAssumption and DomainAssumption.  Then    *)
(* about the places that are definitely initialised: what the analysis     *)
(* says of them is right, of locals without pointers it loses nothing, and *)
(* as a domain they meet these assumptions, so that what is proved of      *)
(* every domain is true of this analysis.                                  *)
(***************************************************************************)
EXTENDS AnalysisResult, PlaceTracking, FixedPoints

CONSTANTS PlaceBodies, Terminators   \* of the analysis of places

Analysis == INSTANCE BodyRun WITH
  Bodies <- PlaceBodies,
  Statement <- Statements, Terminator <- Terminators, successors <- successors_of,
  State <- States, join <- join_places, new_bottom <- bottom_places,
  new_initial <- initial_places, apply_statement_effect <- statement_effect,
  supported <- is_supported, apply_terminator_effect <- terminator_effect,
  Conc <- Concrete, entry <- initial_cells, run_statement <- statement_run,
  run_terminator <- terminator_run, describes <- holds

\* What the maps of the engine do on insertion.
LEMMA UpdatedFacts ==
  ASSUME NEW f, NEW k, NEW v
  PROVE  /\ DOMAIN Updated(f, k, v) = DOMAIN f \cup {k}
         /\ Updated(f, k, v)[k] = v
         /\ \A y \in DOMAIN f : y # k => Updated(f, k, v)[y] = f[y]
BY DEF Updated

\* The blocks, lengths and edges of the body at hand.
LEMMA BodyFacts ==
  ASSUME body \in Bodies
  PROVE  /\ Block \subseteq Nat /\ START_BLOCK \in Block
         /\ \A b \in Block : /\ BodyLength(b) \in Nat
                             /\ body[b].statements \in Seq(Statement)
                             /\ body[b].terminator \in Terminator
                             /\ Successors(b) \subseteq Block
                             /\ \A i \in 1 .. BodyLength(b) : body[b].statements[i] \in Statement
                             /\ \A i \in 0 .. BodyLength(b) : <<b, i>> \in Location
<1>1. IsBody(body)
  BY EngineAssumption
<1>2. Block \subseteq Nat /\ START_BLOCK \in Block
  BY <1>1 DEF IsBody, Block
<1>3. ASSUME NEW b \in Block
      PROVE  /\ BodyLength(b) \in Nat
             /\ body[b].statements \in Seq(Statement)
             /\ body[b].terminator \in Terminator
             /\ Successors(b) \subseteq Block
             /\ \A i \in 1 .. BodyLength(b) : body[b].statements[i] \in Statement
             /\ \A i \in 0 .. BodyLength(b) : <<b, i>> \in Location
  <2>1. /\ body[b].statements \in Seq(Statement)
        /\ body[b].terminator \in Terminator
        /\ Successors(b) \subseteq Block
    BY <1>1 DEF IsBody, Block, Successors
  <2>2. /\ BodyLength(b) \in Nat
        /\ \A i \in 1 .. BodyLength(b) : body[b].statements[i] \in Statement
    BY <2>1 DEF BodyLength
  <2>3. \A i \in 0 .. BodyLength(b) : <<b, i>> \in Location
    BY DEF Location
  <2> QED BY <2>1, <2>2, <2>3
<1> QED BY <1>2, <1>3

-----------------------------------------------------------------------------
(* Types. *)

LEMMA TypesInit == EngineInit => EngineTypeOK
<1> SUFFICES ASSUME EngineInit PROVE EngineTypeOK
  OBVIOUS
<1>1. body \in Bodies /\ START_BLOCK \in Block
  BY BodyFacts DEF EngineInit
<1>2. BodyLength(START_BLOCK) \in Nat
  BY <1>1, BodyFacts
<1>3. new_bottom \in State
  BY EngineAssumption
<1> QED BY <1>1, <1>2, <1>3 DEF EngineInit, EngineTypeOK, Empty, initial_work_set

LEMMA TypesNext == EngineTypeOK /\ EngineNext => EngineTypeOK'
<1> SUFFICES ASSUME EngineTypeOK, EngineNext PROVE EngineTypeOK'
  OBVIOUS
<1>b. body \in Bodies
  BY DEF EngineTypeOK
<1>c. body' = body
  BY DEF EngineNext, TakeBlock, JoinPredecessor, ApplyStatement, ApplyTerminator,
         CollectState, InsertStates
<1>d. /\ Block' = Block /\ Location' = Location
      /\ \A b : BodyLength(b)' = BodyLength(b)
      /\ \A b : Successors(b)' = Successors(b)
      /\ \A b : predecessors(b)' = predecessors(b)
  BY <1>c DEF Block, Location, BodyLength, Successors, predecessors
<1>e. bb \in Block /\ BodyLength(bb) \in Nat /\ <<bb, statement_index>> \in Location
  BY <1>b, BodyFacts DEF EngineTypeOK
<1>f. SetBefore => /\ DOMAIN state_before' \subseteq Location
                   /\ \A loc \in DOMAIN state_before' : state_before'[loc] \in State
  BY <1>e DEF SetBefore, EngineTypeOK, Updated
<1>1. CASE TakeBlock
  <2>1. PICK b \in work_set : bb' = b
    BY <1>1 DEF TakeBlock
  <2>2. b \in Block /\ BodyLength(b) \in Nat
    BY <2>1, <1>b, BodyFacts DEF EngineTypeOK
  <2>3. state_before_block(b) \in State
    BY EngineAssumption, <1>b DEF state_before_block
  <2>4. /\ pc' = "join" /\ statement_index' = 0
        /\ state_before' = state_before /\ state_after_block' = state_after_block
    BY <1>1 DEF TakeBlock, results
  <2>5. /\ work_set' \subseteq work_set
        /\ preds' = predecessors(b) /\ current_state' = state_before_block(b)
    BY <1>1, <2>1 DEF TakeBlock
  <2> QED BY <2>1, <2>2, <2>3, <2>4, <2>5, <1>c, <1>d DEF EngineTypeOK
<1>2. CASE JoinPredecessor
  <2>1. PICK p \in preds : preds' = preds \ {p} /\ current_state' = joined_with(p)
    BY <1>2 DEF JoinPredecessor
  <2>2. joined_with(p) \in State
    <3>1. bb \in Successors(p)
      BY DEF EngineTypeOK, predecessors
    <3>2. p \in DOMAIN state_after_block => state_after_block[p][bb] \in State
      BY <3>1 DEF EngineTypeOK
    <3> QED BY <3>2, EngineAssumption DEF joined_with, EngineTypeOK
  <2>3. /\ work_set' = work_set /\ pc' = pc /\ bb' = bb /\ statement_index' = statement_index
        /\ next_states' = next_states /\ new_map' = new_map
        /\ state_before' = state_before /\ state_after_block' = state_after_block
    BY <1>2 DEF JoinPredecessor, results
  <2> QED BY <2>1, <2>2, <2>3, <1>c, <1>d DEF EngineTypeOK
<1>3. CASE ApplyStatement
  <2>1. /\ statement_index < BodyLength(bb) /\ SetBefore
        /\ current_state' =
             apply_statement_effect(body[bb].statements[statement_index + 1], current_state)
        /\ statement_index' = statement_index + 1
        /\ work_set' = work_set /\ pc' = pc /\ pc = "join" /\ bb' = bb /\ preds' = preds
        /\ state_after_block' = state_after_block
    BY <1>3 DEF ApplyStatement
  <2>2. body[bb].statements[statement_index + 1] \in Statement
    BY <2>1, <1>b, <1>e, BodyFacts DEF EngineTypeOK
  <2>3. current_state' \in State
    BY <2>1, <2>2, EngineAssumption DEF EngineTypeOK
  <2>4. statement_index' \in 0 .. BodyLength(bb)
    BY <2>1, <1>e DEF EngineTypeOK
  <2> QED BY <2>1, <2>3, <2>4, <1>c, <1>d, <1>f DEF EngineTypeOK
<1>4. CASE ApplyTerminator
  <2>1. /\ SetBefore /\ new_map' = Empty
        /\ work_set' = work_set /\ bb' = bb /\ preds' = preds
        /\ current_state' = current_state /\ statement_index' = statement_index
        /\ state_after_block' = state_after_block
    BY <1>4 DEF ApplyTerminator
  <2>2. \/ pc' = "failed"
        \/ /\ pc' = "collect" /\ supported(body[bb].terminator)
           /\ next_states' = apply_terminator_effect(body[bb].terminator, current_state)
    BY <1>4 DEF ApplyTerminator
  <2>3. body[bb].terminator \in Terminator /\ current_state \in State
    BY <1>b, <1>e, BodyFacts DEF EngineTypeOK
  <2>4. pc' = "collect" => next_states' \in Seq(Successors(bb) \X State)
    BY <2>2, <2>3, EngineAssumption DEF Successors
  <2>5. DOMAIN Empty = {}
    BY DEF Empty
  <2> QED BY <2>1, <2>2, <2>4, <2>5, <1>c, <1>d, <1>f DEF EngineTypeOK
<1>5. CASE CollectState
  <2> DEFINE b == Head(next_states)[1]
             s == Head(next_states)[2]
  <2>1. /\ pc = "collect" /\ next_states # <<>>
        /\ new_map' = Updated(new_map, b, IF b \in DOMAIN new_map THEN join(new_map[b], s) ELSE s)
        /\ next_states' = Tail(next_states)
        /\ work_set' = work_set /\ pc' = pc /\ bb' = bb /\ preds' = preds
        /\ current_state' = current_state /\ statement_index' = statement_index
        /\ state_before' = state_before /\ state_after_block' = state_after_block
    BY <1>5 DEF CollectState, results
  <2>2. next_states \in Seq(Successors(bb) \X State)
    BY <2>1 DEF EngineTypeOK
  <2>3. Head(next_states) \in Successors(bb) \X State
    BY <2>1, <2>2
  <2>4. b \in Successors(bb) /\ s \in State
    BY <2>3
  <2>5. (IF b \in DOMAIN new_map THEN join(new_map[b], s) ELSE s) \in State
    BY <2>1, <2>4, EngineAssumption DEF EngineTypeOK
  <2>6. /\ DOMAIN new_map' \subseteq Successors(bb)
        /\ \A c \in DOMAIN new_map' : new_map'[c] \in State
    <3> HIDE DEF b, s
    <3> QED BY <2>1, <2>4, <2>5 DEF EngineTypeOK, Updated
  <2>7. next_states' \in Seq(Successors(bb) \X State)
    BY <2>1, <2>2
  <2> QED BY <2>1, <2>6, <2>7, <1>c, <1>d DEF EngineTypeOK
<1>6. CASE InsertStates
  <2>1. /\ pc = "collect" /\ bb' = bb /\ preds' = preds /\ new_map' = new_map
        /\ current_state' = current_state /\ statement_index' = statement_index
        /\ state_before' = state_before
    BY <1>6 DEF InsertStates
  <2>2. CASE pc' = "failed" /\ UNCHANGED <<work_set, state_after_block>>
    BY <2>1, <2>2, <1>c, <1>d DEF EngineTypeOK
  <2>3. CASE /\ Successors(bb) \subseteq DOMAIN new_map
             /\ state_after_block' =
                  Updated(state_after_block, bb, [b \in Successors(bb) |-> new_map[b]])
             /\ work_set' = work_set \cup {b \in Successors(bb) : Changed(b)}
             /\ pc' = "pick"
    <3>1. [b \in Successors(bb) |-> new_map[b]] \in [Successors(bb) -> State]
      BY <2>1, <2>3 DEF EngineTypeOK
    <3>2. DOMAIN state_after_block' = DOMAIN state_after_block \cup {bb}
      BY <2>3, UpdatedFacts
    <3>3. \A b \in DOMAIN state_after_block' : state_after_block'[b] \in [Successors(b) -> State]
      BY <2>3, <3>1, <3>2 DEF EngineTypeOK, Updated
    <3>4. work_set' \subseteq Block
      BY <2>3, <1>b, <1>e, BodyFacts DEF EngineTypeOK
    <3> QED BY <2>1, <2>3, <3>2, <3>3, <3>4, <1>c, <1>d, <1>e DEF EngineTypeOK
  <2> QED BY <1>6, <2>2, <2>3 DEF InsertStates
<1> QED BY <1>1, <1>2, <1>3, <1>4, <1>5, <1>6 DEF EngineNext

-----------------------------------------------------------------------------
(* The inductive invariant. *)

\* The state of the location behind a statement is the effect of the statement
\* on the state before it, but where the block at hand has just been left off.
Chain ==
  \A b \in Block : \A i \in 1 .. BodyLength(b) :
    \/ <<b, i - 1>> \notin DOMAIN state_before \/ <<b, i>> \notin DOMAIN state_before
    \/ pc = "join" /\ b = bb /\ i = statement_index
    \/ state_before[<<b, i>>] =
         apply_statement_effect(body[b].statements[i], state_before[<<b, i - 1>>])

\* In the block at hand the locations up to the index have their states, and
\* the current state is the effect of the last statement.
Applied ==
  /\ pc = "join" /\ statement_index > 0 =>
       /\ preds = {}
       /\ current_state = apply_statement_effect(body[bb].statements[statement_index],
                                                 state_before[<<bb, statement_index - 1>>])
  /\ pc = "join" => \A i \in 0 .. (statement_index - 1) : <<bb, i>> \in DOMAIN state_before
  /\ pc = "collect" => \A i \in 0 .. BodyLength(bb) : <<bb, i>> \in DOMAIN state_before

\* What has been joined so far is described by the state at hand.
Joined ==
  pc = "join" /\ statement_index = 0 =>
    /\ \A p \in predecessors(bb) \ preds :
         p \in DOMAIN state_after_block => Covers(state_after_block[p][bb], current_state)
    /\ bb = START_BLOCK => \A c \in entry(body) : describes(current_state, c)

\* A pair of successor and run state has a state that describes it among those
\* collected or to be collected, if the terminator gave one to the successor.
Held(e) ==
  \/ e[1] \in DOMAIN new_map /\ describes(new_map[e[1]], e[2])
  \/ \E i \in DOMAIN next_states : next_states[i][1] = e[1] /\ describes(next_states[i][2], e[2])
  \/ e[1] \notin DOMAIN new_map /\ \A i \in DOMAIN next_states : next_states[i][1] # e[1]

Collected ==
  pc = "collect" =>
    /\ state_before[<<bb, BodyLength(bb)>>] = current_state
    /\ \A c \in Conc : \A e \in run_terminator(body[bb].terminator, c) :
         describes(current_state, c) => Held(e)

\* The states of the edges out of a block describe where its terminator leads
\* from what its last location describes.
EdgeStates ==
  \A b \in DOMAIN state_after_block :
    /\ \A i \in 0 .. BodyLength(b) : <<b, i>> \in DOMAIN state_before
    /\ \/ pc = "collect" /\ b = bb
       \/ \A c \in Conc : \A e \in run_terminator(body[b].terminator, c) :
            describes(state_before[<<b, BodyLength(b)>>], c)
              => describes(state_after_block[b][e[1]], e[2])

Covered(b, s) == <<b, 0>> \in DOMAIN state_before /\ Covers(s, state_before[<<b, 0>>])

\* The block at hand, before the state at its beginning is recorded.
Opening(b) == b = bb /\ (pc = "failed" \/ (pc = "join" /\ statement_index = 0))

EdgesInv ==
  \A p \in DOMAIN state_after_block : \A b \in Successors(p) :
    b \in work_set \/ Opening(b) \/ Covered(b, state_after_block[p][b])

EntryInv ==
  \/ START_BLOCK \in work_set \/ Opening(START_BLOCK)
  \/ /\ <<START_BLOCK, 0>> \in DOMAIN state_before
     /\ \A c \in entry(body) : describes(state_before[<<START_BLOCK, 0>>], c)

Visited ==
  \A b \in Block : b \in work_set \/ (pc # "pick" /\ b = bb) \/ b \in DOMAIN state_after_block

RunInv ==
  /\ at = Nowhere => conc \in entry(body)
  /\ at # Nowhere => /\ Finished /\ at \in Location /\ conc \in Conc
                     /\ describes(state_before[at], conc)

EngineInv ==
  /\ EngineTypeOK /\ EdgesInv /\ EntryInv /\ Visited
  /\ pc # "failed" => Chain /\ Applied /\ Joined /\ Collected /\ EdgeStates

Inv == EngineInv /\ RunInv

LEMMA InvInit == Init => Inv
<1> SUFFICES ASSUME Init PROVE Inv
  OBVIOUS
<1>1. EngineTypeOK
  BY TypesInit DEF Init
<1>2. DOMAIN state_before = {} /\ DOMAIN state_after_block = {}
  BY DEF Init, EngineInit, Empty
<1>3. pc = "pick" /\ work_set = Block /\ at = Nowhere /\ conc \in entry(body)
  BY DEF Init, EngineInit, initial_work_set
<1>4. START_BLOCK \in Block
  BY <1>1, BodyFacts DEF EngineTypeOK
<1>5. EdgesInv /\ EntryInv /\ Visited
  BY <1>2, <1>3, <1>4 DEF EdgesInv, EntryInv, Visited
<1>7. RunInv
  BY <1>3 DEF RunInv
<1>6. Chain /\ Applied /\ Joined /\ Collected /\ EdgeStates
  BY <1>2, <1>3 DEF Chain, Applied, Joined, Collected, EdgeStates
<1> QED BY <1>1, <1>5, <1>6, <1>7 DEF Inv, EngineInv

-----------------------------------------------------------------------------
(* The steps of the engine. *)

LEMMA SameBody ==
  ASSUME EngineNext
  PROVE  /\ body' = body /\ Block' = Block /\ Location' = Location
         /\ \A b : BodyLength(b)' = BodyLength(b)
         /\ \A b : Successors(b)' = Successors(b)
         /\ \A b : predecessors(b)' = predecessors(b)
<1>1. body' = body
  BY DEF EngineNext, TakeBlock, JoinPredecessor, ApplyStatement, ApplyTerminator,
         CollectState, InsertStates
<1> QED BY <1>1 DEF Block, Location, BodyLength, Successors, predecessors

\* What a block starts from describes whatever a run can begin with.
LEMMA StartDescribes ==
  ASSUME body \in Bodies, NEW c \in entry(body)
  PROVE  describes(state_before_block(START_BLOCK), c)
BY DomainAssumption DEF state_before_block

LEMMA TakeBlockInv == EngineInv /\ TakeBlock => EngineInv'
<1> SUFFICES ASSUME EngineInv, TakeBlock PROVE EngineInv'
  OBVIOUS
<1>t. EngineTypeOK /\ EngineTypeOK' /\ body \in Bodies
  BY TypesNext DEF EngineInv, EngineNext, EngineTypeOK
<1>s. /\ body' = body /\ Block' = Block
      /\ \A b : BodyLength(b)' = BodyLength(b)
      /\ \A b : Successors(b)' = Successors(b)
      /\ \A b : predecessors(b)' = predecessors(b)
  BY SameBody DEF EngineNext
<1>1. PICK b \in work_set : bb' = b /\ work_set' = work_set \ {b}
                            /\ preds' = predecessors(b) /\ current_state' = state_before_block(b)
  BY DEF TakeBlock
<1>2. /\ pc = "pick" /\ pc' = "join" /\ statement_index' = 0
      /\ state_before' = state_before /\ state_after_block' = state_after_block
  BY DEF TakeBlock, results
<1>3. Chain'
  BY <1>2, <1>s DEF EngineInv, Chain
<1>4. Applied' /\ Collected'
  BY <1>2 DEF Applied, Collected
<1>5. Joined'
  <2>1. predecessors(bb)' = predecessors(b)
    BY <1>1, <1>s
  <2>2. b = START_BLOCK => \A c \in entry(body) : describes(current_state', c)
    BY <1>1, <1>t, StartDescribes
  <2> QED BY <1>1, <1>2, <1>s, <2>1, <2>2 DEF Joined
<1>6. EdgeStates'
  BY <1>2, <1>s DEF EngineInv, EdgeStates
<1>7. EdgesInv'
  <2> SUFFICES ASSUME NEW p \in DOMAIN state_after_block, NEW d \in Successors(p)
               PROVE  d \in work_set' \/ Opening(d)' \/ Covered(d, state_after_block[p][d])'
    BY <1>2, <1>s DEF EdgesInv
  <2>1. d \in work_set \/ Covered(d, state_after_block[p][d])
    BY <1>2 DEF EngineInv, EdgesInv, Opening
  <2> QED BY <2>1, <1>1, <1>2 DEF Opening, Covered, Covers
<1>8. EntryInv'
  BY <1>1, <1>2, <1>s DEF EngineInv, EntryInv, Opening
<1>9. Visited'
  BY <1>1, <1>2, <1>s DEF EngineInv, Visited
<1> QED BY <1>t, <1>3, <1>4, <1>5, <1>6, <1>7, <1>8, <1>9 DEF EngineInv

LEMMA JoinPredecessorInv == EngineInv /\ JoinPredecessor => EngineInv'
<1> SUFFICES ASSUME EngineInv, JoinPredecessor PROVE EngineInv'
  OBVIOUS
<1>t. EngineTypeOK /\ EngineTypeOK' /\ body \in Bodies
  BY TypesNext DEF EngineInv, EngineNext, EngineTypeOK
<1>s. /\ body' = body /\ Block' = Block
      /\ \A b : BodyLength(b)' = BodyLength(b)
      /\ \A b : Successors(b)' = Successors(b)
      /\ \A b : predecessors(b)' = predecessors(b)
  BY SameBody DEF EngineNext
<1>1. PICK p \in preds : preds' = preds \ {p} /\ current_state' = joined_with(p)
  BY DEF JoinPredecessor
<1>2. /\ pc = "join" /\ pc' = "join" /\ bb' = bb /\ statement_index' = statement_index
      /\ work_set' = work_set
      /\ state_before' = state_before /\ state_after_block' = state_after_block
  BY DEF JoinPredecessor, results
<1>3. statement_index = 0
  BY <1>1, <1>2, <1>t DEF EngineInv, Applied, EngineTypeOK
<1>4. Chain'
  BY <1>2, <1>s DEF EngineInv, Chain
<1>5. Applied' /\ Collected'
  BY <1>2, <1>3 DEF Applied, Collected
<1>6. Joined'
  <2>1. \A c \in Conc : describes(current_state, c) => describes(current_state', c)
    <3>1. p \in DOMAIN state_after_block => state_after_block[p][bb] \in State
      BY <1>t DEF EngineTypeOK, predecessors
    <3> QED BY <1>1, <3>1, <1>t, DomainAssumption DEF joined_with, EngineTypeOK
  <2>2. p \in DOMAIN state_after_block => Covers(state_after_block[p][bb], current_state')
    <3>1. p \in DOMAIN state_after_block => state_after_block[p][bb] \in State
      BY <1>t DEF EngineTypeOK, predecessors
    <3> QED BY <1>1, <3>1, <1>t, DomainAssumption DEF joined_with, Covers, EngineTypeOK
  <2>3. \A c \in entry(body) : c \in Conc
    BY <1>t, DomainAssumption
  <2>4. Joined
    BY <1>2 DEF EngineInv
  <2> QED BY <1>1, <1>2, <1>3, <1>s, <2>1, <2>2, <2>3, <2>4 DEF Joined, Covers
<1>7. EdgeStates'
  BY <1>2, <1>s DEF EngineInv, EdgeStates
<1>8. EdgesInv'
  BY <1>2, <1>s DEF EngineInv, EdgesInv, Opening, Covered, Covers
<1>9. EntryInv' /\ Visited'
  BY <1>2, <1>s DEF EngineInv, EntryInv, Visited, Opening
<1> QED BY <1>t, <1>4, <1>5, <1>6, <1>7, <1>8, <1>9 DEF EngineInv

\* Recording the state of a location leaves those of the others alone.
LEMMA RecordFacts ==
  ASSUME SetBefore
  PROVE  /\ DOMAIN state_before' = DOMAIN state_before \cup {<<bb, statement_index>>}
         /\ state_before'[<<bb, statement_index>>] = current_state
         /\ \A b, i : ~(b = bb /\ i = statement_index) =>
              /\ <<b, i>> \in DOMAIN state_before' <=> <<b, i>> \in DOMAIN state_before
              /\ state_before'[<<b, i>>] = state_before[<<b, i>>]
                   \/ <<b, i>> \notin DOMAIN state_before
BY DEF SetBefore, Updated

\* The parts of the invariant about edges, when a state is recorded in the block
\* at hand and its edges stay as they were.
LEMMA RecordCovers ==
  ASSUME EngineInv, EngineTypeOK, body \in Bodies, SetBefore,
         pc = "join", preds = {}, body' = body, bb' = bb, work_set' = work_set,
         state_after_block' = state_after_block,
         pc' = "join" => statement_index' > 0
  PROVE  EdgesInv' /\ EntryInv'
<1>1. statement_index \in Nat
  BY BodyFacts DEF EngineTypeOK
<1>2. Joined /\ Applied
  BY DEF EngineInv
<1>3. statement_index = 0 =>
        /\ \A p \in DOMAIN state_after_block :
             bb \in Successors(p) => Covers(state_after_block[p][bb], current_state)
        /\ bb = START_BLOCK => \A c \in entry(body) : describes(current_state, c)
  BY <1>2 DEF Joined, predecessors, EngineTypeOK
<1>4. \A b : \A s : Covered(b, s) /\ ~(b = bb /\ statement_index = 0) =>
        /\ <<b, 0>> \in DOMAIN state_before'
        /\ Covers(s, state_before'[<<b, 0>>])
  BY RecordFacts DEF Covered
<1>5. EdgesInv'
  <2> SUFFICES ASSUME NEW p \in DOMAIN state_after_block, NEW d \in Successors(p)
               PROVE  d \in work_set' \/ Opening(d)'
                        \/ (/\ <<d, 0>> \in DOMAIN state_before'
                            /\ Covers(state_after_block[p][d], state_before'[<<d, 0>>]))
    BY DEF EdgesInv, Covered, Covers, Successors
  <2>1. d \in work_set \/ Opening(d) \/ Covered(d, state_after_block[p][d])
    BY DEF EngineInv, EdgesInv
  <2>2. CASE d = bb /\ statement_index = 0
    BY <2>2, <1>3, RecordFacts
  <2>3. CASE ~(d = bb /\ statement_index = 0)
    <3>1. d \in work_set \/ Covered(d, state_after_block[p][d])
      BY <2>1, <2>3 DEF Opening
    <3> QED BY <3>1, <2>3, <1>4
  <2> QED BY <2>2, <2>3
<1>6. EntryInv'
  <2>1. CASE START_BLOCK = bb /\ statement_index = 0
    BY <2>1, <1>3, RecordFacts DEF EntryInv
  <2>2. CASE ~(START_BLOCK = bb /\ statement_index = 0)
    BY <2>2, RecordFacts DEF EngineInv, EntryInv, Opening
  <2> QED BY <2>1, <2>2
<1> QED BY <1>5, <1>6

LEMMA ApplyStatementInv == EngineInv /\ ApplyStatement => EngineInv'
<1> SUFFICES ASSUME EngineInv, ApplyStatement PROVE EngineInv'
  OBVIOUS
<1>t. EngineTypeOK /\ EngineTypeOK' /\ body \in Bodies
  BY TypesNext DEF EngineInv, EngineNext, EngineTypeOK
<1>s. /\ body' = body /\ Block' = Block
      /\ \A b : BodyLength(b)' = BodyLength(b)
      /\ \A b : Successors(b)' = Successors(b)
      /\ \A b : predecessors(b)' = predecessors(b)
  BY SameBody DEF EngineNext
<1>1. /\ pc = "join" /\ pc' = "join" /\ bb' = bb /\ preds = {} /\ preds' = {}
      /\ statement_index < BodyLength(bb) /\ SetBefore
      /\ current_state' =
           apply_statement_effect(body[bb].statements[statement_index + 1], current_state)
      /\ statement_index' = statement_index + 1
      /\ work_set' = work_set /\ state_after_block' = state_after_block
  BY DEF ApplyStatement
<1>2. statement_index \in Nat /\ BodyLength(bb) \in Nat /\ bb \in Block
  BY <1>t, BodyFacts DEF EngineTypeOK
<1>3. Chain'
  <2> SUFFICES ASSUME NEW b \in Block, NEW i \in 1 .. BodyLength(b),
                      <<b, i - 1>> \in DOMAIN state_before', <<b, i>> \in DOMAIN state_before',
                      ~(b = bb /\ i = statement_index + 1)
               PROVE  state_before'[<<b, i>>] =
                        apply_statement_effect(body[b].statements[i], state_before'[<<b, i - 1>>])
    BY <1>1, <1>s DEF Chain
  <2>1. CASE b = bb /\ i = statement_index
    <3>1. current_state = apply_statement_effect(body[b].statements[i],
                                                 state_before[<<b, i - 1>>])
      BY <2>1, <1>1 DEF EngineInv, Applied
    <3>2. <<b, i - 1>> \in DOMAIN state_before
      BY <2>1, <1>1 DEF EngineInv, Applied
    <3> QED BY <2>1, <3>1, <3>2, <1>1, <1>2, RecordFacts
  <2>2. CASE ~(b = bb /\ i = statement_index)
    <3>1. ~(b = bb /\ i - 1 = statement_index)
      BY <1>2
    <3>2. /\ <<b, i - 1>> \in DOMAIN state_before /\ <<b, i>> \in DOMAIN state_before
          /\ state_before'[<<b, i>>] = state_before[<<b, i>>]
          /\ state_before'[<<b, i - 1>>] = state_before[<<b, i - 1>>]
      BY <2>2, <3>1, <1>1, RecordFacts
    <3> QED BY <3>2, <2>2, <1>1 DEF EngineInv, Chain
  <2> QED BY <2>1, <2>2
<1>4. Applied'
  <2>1. state_before'[<<bb, statement_index>>] = current_state
    BY <1>1, RecordFacts
  <2>2. \A i \in 0 .. statement_index : <<bb, i>> \in DOMAIN state_before'
    <3>1. \A i \in 0 .. (statement_index - 1) : <<bb, i>> \in DOMAIN state_before
      BY <1>1 DEF EngineInv, Applied
    <3> QED BY <3>1, <1>1, <1>2, RecordFacts
  <2> QED BY <1>1, <1>2, <1>s, <2>1, <2>2 DEF Applied
<1>5. Joined' /\ Collected'
  BY <1>1, <1>2 DEF Joined, Collected
<1>6. EdgeStates'
  <2>1. \A b \in DOMAIN state_after_block : ~(b = bb /\ BodyLength(b) = statement_index)
    BY <1>1, <1>2
  <2>2. \A b \in DOMAIN state_after_block :
          /\ BodyLength(b) \in Nat
          /\ \A i \in 0 .. BodyLength(b) : <<b, i>> \in DOMAIN state_before'
          /\ state_before'[<<b, BodyLength(b)>>] = state_before[<<b, BodyLength(b)>>]
    <3> SUFFICES ASSUME NEW b \in DOMAIN state_after_block
                 PROVE  /\ BodyLength(b) \in Nat
                        /\ \A i \in 0 .. BodyLength(b) : <<b, i>> \in DOMAIN state_before'
                        /\ state_before'[<<b, BodyLength(b)>>] = state_before[<<b, BodyLength(b)>>]
      OBVIOUS
    <3>1. BodyLength(b) \in Nat
      BY <1>t, BodyFacts DEF EngineTypeOK
    <3>2. \A i \in 0 .. BodyLength(b) : <<b, i>> \in DOMAIN state_before
      BY <1>1 DEF EngineInv, EdgeStates
    <3> QED BY <3>1, <3>2, <2>1, <1>1, RecordFacts
  <2> QED BY <2>2, <1>1, <1>s DEF EngineInv, EdgeStates
<1>7. EdgesInv' /\ EntryInv'
  BY <1>1, <1>2, <1>s, <1>t, RecordCovers
<1>8. Visited'
  BY <1>1, <1>s DEF EngineInv, Visited
<1> QED BY <1>t, <1>3, <1>4, <1>5, <1>6, <1>7, <1>8 DEF EngineInv

LEMMA ApplyTerminatorInv == EngineInv /\ ApplyTerminator => EngineInv'
<1> SUFFICES ASSUME EngineInv, ApplyTerminator PROVE EngineInv'
  OBVIOUS
<1>t. EngineTypeOK /\ EngineTypeOK' /\ body \in Bodies
  BY TypesNext DEF EngineInv, EngineNext, EngineTypeOK
<1>s. /\ body' = body /\ Block' = Block
      /\ \A b : BodyLength(b)' = BodyLength(b)
      /\ \A b : Successors(b)' = Successors(b)
      /\ \A b : predecessors(b)' = predecessors(b)
  BY SameBody DEF EngineNext
<1>1. /\ pc = "join" /\ pc' # "join" /\ pc' # "pick" /\ bb' = bb /\ preds = {}
      /\ statement_index = BodyLength(bb) /\ SetBefore /\ new_map' = Empty
      /\ current_state' = current_state /\ statement_index' = statement_index
      /\ work_set' = work_set /\ state_after_block' = state_after_block
  BY DEF ApplyTerminator
<1>2. statement_index \in Nat /\ BodyLength(bb) \in Nat /\ bb \in Block
      /\ body[bb].terminator \in Terminator /\ current_state \in State
  BY <1>t, BodyFacts DEF EngineTypeOK
<1>3. EdgesInv' /\ EntryInv'
  BY <1>1, <1>2, <1>s, <1>t, RecordCovers
<1>4. Visited'
  BY <1>1, <1>s DEF EngineInv, Visited
<1>5. ASSUME pc' # "failed"
      PROVE  Chain' /\ Applied' /\ Joined' /\ Collected' /\ EdgeStates'
  <2>1. /\ pc' = "collect" /\ supported(body[bb].terminator)
        /\ next_states' = apply_terminator_effect(body[bb].terminator, current_state)
    BY <1>5 DEF ApplyTerminator
  <2>2. Chain'
    <3> SUFFICES ASSUME NEW b \in Block, NEW i \in 1 .. BodyLength(b),
                        <<b, i - 1>> \in DOMAIN state_before', <<b, i>> \in DOMAIN state_before'
                 PROVE  state_before'[<<b, i>>] =
                          apply_statement_effect(body[b].statements[i], state_before'[<<b, i - 1>>])
      BY <1>s, <2>1 DEF Chain
    <3>1. BodyLength(b) \in Nat
      BY <1>t, BodyFacts
    <3>2. ~(b = bb /\ i - 1 = statement_index)
      BY <1>1, <1>2, <3>1
    <3>3. CASE b = bb /\ i = statement_index
      <4>1. current_state = apply_statement_effect(body[b].statements[i],
                                                   state_before[<<b, i - 1>>])
        BY <3>3, <1>1 DEF EngineInv, Applied
      <4>2. <<b, i - 1>> \in DOMAIN state_before
        BY <3>3, <1>1 DEF EngineInv, Applied
      <4> QED BY <3>2, <3>3, <4>1, <4>2, <1>1, RecordFacts
    <3>4. CASE ~(b = bb /\ i = statement_index)
      <4>1. /\ <<b, i - 1>> \in DOMAIN state_before /\ <<b, i>> \in DOMAIN state_before
            /\ state_before'[<<b, i>>] = state_before[<<b, i>>]
            /\ state_before'[<<b, i - 1>>] = state_before[<<b, i - 1>>]
        BY <3>2, <3>4, <1>1, RecordFacts
      <4> QED BY <3>4, <4>1, <1>1 DEF EngineInv, Chain
    <3> QED BY <3>3, <3>4
  <2>3. \A i \in 0 .. BodyLength(bb) : <<bb, i>> \in DOMAIN state_before'
    <3>1. \A i \in 0 .. (statement_index - 1) : <<bb, i>> \in DOMAIN state_before
      BY <1>1 DEF EngineInv, Applied
    <3> QED BY <3>1, <1>1, <1>2, RecordFacts
  <2>4. Applied' /\ Joined'
    BY <1>1, <1>s, <2>1, <2>3 DEF Applied, Joined
  <2>5. Collected'
    <3>1. state_before'[<<bb, BodyLength(bb)>>] = current_state
      BY <1>1, RecordFacts
    <3>2. ASSUME NEW c \in Conc, NEW e \in run_terminator(body[bb].terminator, c),
                 describes(current_state, c)
          PROVE  Held(e)'
      <4>1. (\E i \in DOMAIN next_states' : next_states'[i][1] = e[1])
              => \E i \in DOMAIN next_states' :
                   next_states'[i][1] = e[1] /\ describes(next_states'[i][2], e[2])
        BY <3>2, <2>1, <1>2, DomainAssumption
      <4>2. DOMAIN new_map' = {}
        BY <1>1 DEF Empty
      <4> QED BY <4>1, <4>2 DEF Held
    <3> QED BY <1>1, <1>s, <3>1, <3>2 DEF Collected
  <2>6. EdgeStates'
    <3> SUFFICES ASSUME NEW b \in DOMAIN state_after_block
                 PROVE  /\ \A i \in 0 .. BodyLength(b) : <<b, i>> \in DOMAIN state_before'
                        /\ b # bb => state_before'[<<b, BodyLength(b)>>]
                                       = state_before[<<b, BodyLength(b)>>]
      BY <1>1, <1>s, <2>1 DEF EngineInv, EdgeStates
    <3>1. BodyLength(b) \in Nat
      BY <1>t, BodyFacts DEF EngineTypeOK
    <3>2. \A i \in 0 .. BodyLength(b) : <<b, i>> \in DOMAIN state_before
      BY <1>1 DEF EngineInv, EdgeStates
    <3> QED BY <3>1, <3>2, <1>1, RecordFacts
  <2> QED BY <2>2, <2>4, <2>5, <2>6
<1> QED BY <1>t, <1>3, <1>4, <1>5 DEF EngineInv

LEMMA CollectStateInv == EngineInv /\ CollectState => EngineInv'
<1> SUFFICES ASSUME EngineInv, CollectState PROVE EngineInv'
  OBVIOUS
<1>t. EngineTypeOK /\ EngineTypeOK' /\ body \in Bodies
  BY TypesNext DEF EngineInv, EngineNext, EngineTypeOK
<1>s. /\ body' = body /\ Block' = Block
      /\ \A b : BodyLength(b)' = BodyLength(b)
      /\ \A b : Successors(b)' = Successors(b)
      /\ \A b : predecessors(b)' = predecessors(b)
  BY SameBody DEF EngineNext
<1> DEFINE b == Head(next_states)[1]
           s == Head(next_states)[2]
<1>1. /\ pc = "collect" /\ pc' = "collect" /\ bb' = bb
      /\ next_states # <<>> /\ next_states' = Tail(next_states)
      /\ new_map' = Updated(new_map, b, IF b \in DOMAIN new_map THEN join(new_map[b], s) ELSE s)
      /\ current_state' = current_state
      /\ work_set' = work_set /\ state_before' = state_before
      /\ state_after_block' = state_after_block
  BY DEF CollectState, results
<1>2. /\ next_states \in Seq(Successors(bb) \X State)
      /\ b \in Successors(bb) /\ s \in State
      /\ \A d \in DOMAIN new_map : new_map[d] \in State
  <2>1. next_states \in Seq(Successors(bb) \X State)
    BY <1>1, <1>t DEF EngineTypeOK
  <2>2. Head(next_states) \in Successors(bb) \X State
    BY <2>1, <1>1
  <2> QED BY <2>1, <2>2, <1>1, <1>t DEF EngineTypeOK
<1>3. Chain' /\ Applied' /\ Joined' /\ EdgeStates'
  BY <1>1, <1>s DEF EngineInv, Chain, Applied, Joined, EdgeStates
<1>4. EdgesInv' /\ EntryInv' /\ Visited'
  BY <1>1, <1>s DEF EngineInv, EdgesInv, EntryInv, Visited, Opening, Covered, Covers
<1>5. ASSUME NEW c \in Conc, NEW e \in run_terminator(body[bb].terminator, c), Held(e)
      PROVE  Held(e)'
  <2>1. e[2] \in Conc
    BY <1>t, BodyFacts, DomainAssumption DEF EngineTypeOK
  <2>2. /\ \A i \in DOMAIN next_states' :
             i + 1 \in DOMAIN next_states /\ next_states'[i] = next_states[i + 1]
        /\ \A i \in DOMAIN next_states :
             i = 1 \/ (i - 1 \in DOMAIN next_states' /\ next_states'[i - 1] = next_states[i])
        /\ 1 \in DOMAIN next_states /\ next_states[1] = Head(next_states)
    BY <1>1, <1>2
  <2>3. CASE e[1] = b
    <3>1. b \in DOMAIN new_map'
      BY <1>1 DEF Updated
    <3>2. CASE \E i \in DOMAIN next_states :
                 i # 1 /\ next_states[i][1] = e[1] /\ describes(next_states[i][2], e[2])
      BY <2>2, <3>2 DEF Held
    <3>3. CASE describes(s, e[2]) \/ (b \in DOMAIN new_map /\ describes(new_map[b], e[2]))
      <4>1. describes(IF b \in DOMAIN new_map THEN join(new_map[b], s) ELSE s, e[2])
        BY <1>2, <2>1, <3>3, DomainAssumption
      <4>2. new_map'[b] = IF b \in DOMAIN new_map THEN join(new_map[b], s) ELSE s
        BY <1>1 DEF Updated
      <4> HIDE DEF b, s
      <4> QED BY <2>3, <3>1, <4>1, <4>2 DEF Held
    <3> QED BY <2>2, <2>3, <3>2, <3>3, <1>5 DEF Held
  <2>4. CASE e[1] # b
    <3>1. /\ e[1] \in DOMAIN new_map' <=> e[1] \in DOMAIN new_map
          /\ e[1] \in DOMAIN new_map => new_map'[e[1]] = new_map[e[1]]
      BY <1>1, <2>4 DEF Updated
    <3>2. CASE e[1] \in DOMAIN new_map /\ describes(new_map[e[1]], e[2])
      BY <3>1, <3>2 DEF Held
    <3>3. CASE \E i \in DOMAIN next_states :
                 next_states[i][1] = e[1] /\ describes(next_states[i][2], e[2])
      BY <2>2, <2>4, <3>3 DEF Held
    <3>4. CASE e[1] \notin DOMAIN new_map /\ \A i \in DOMAIN next_states : next_states[i][1] # e[1]
      BY <2>2, <3>1, <3>4 DEF Held
    <3> QED BY <3>2, <3>3, <3>4, <1>5 DEF Held
  <2> QED BY <2>3, <2>4
<1>6. Collected'
  <2>1. Collected
    BY <1>1 DEF EngineInv
  <2> HIDE DEF b, s
  <2> QED BY <1>1, <1>s, <1>5, <2>1 DEF Collected
<1> QED BY <1>t, <1>3, <1>4, <1>6 DEF EngineInv

LEMMA InsertStatesInv == EngineInv /\ InsertStates => EngineInv'
<1> SUFFICES ASSUME EngineInv, InsertStates PROVE EngineInv'
  OBVIOUS
<1>t. EngineTypeOK /\ EngineTypeOK' /\ body \in Bodies
  BY TypesNext DEF EngineInv, EngineNext, EngineTypeOK
<1>s. /\ body' = body /\ Block' = Block
      /\ \A b : BodyLength(b)' = BodyLength(b)
      /\ \A b : Successors(b)' = Successors(b)
      /\ \A b : predecessors(b)' = predecessors(b)
  BY SameBody DEF EngineNext
<1>1. /\ pc = "collect" /\ bb' = bb /\ next_states = <<>> /\ state_before' = state_before
  BY DEF InsertStates
<1>2. CASE pc' = "failed" /\ UNCHANGED <<work_set, state_after_block>>
  BY <1>1, <1>2, <1>s, <1>t
     DEF EngineInv, EdgesInv, EntryInv, Visited, Opening, Covered, Covers
<1>3. CASE /\ Successors(bb) \subseteq DOMAIN new_map
           /\ state_after_block' =
                Updated(state_after_block, bb, [b \in Successors(bb) |-> new_map[b]])
           /\ work_set' = work_set \cup {b \in Successors(bb) : Changed(b)}
           /\ pc' = "pick"
  <2>1. /\ DOMAIN state_after_block' = DOMAIN state_after_block \cup {bb}
        /\ state_after_block'[bb] = [b \in Successors(bb) |-> new_map[b]]
        /\ \A p \in DOMAIN state_after_block :
             p # bb => state_after_block'[p] = state_after_block[p]
    BY <1>3 DEF Updated
  <2>2. Chain' /\ Applied' /\ Joined' /\ Collected'
    BY <1>1, <1>3, <1>s DEF EngineInv, Chain, Applied, Joined, Collected
  <2>3. EdgeStates'
    <3> SUFFICES ASSUME NEW b \in DOMAIN state_after_block'
                 PROVE  /\ \A i \in 0 .. BodyLength(b) : <<b, i>> \in DOMAIN state_before
                        /\ \A c \in Conc : \A e \in run_terminator(body[b].terminator, c) :
                             describes(state_before[<<b, BodyLength(b)>>], c)
                               => describes(state_after_block'[b][e[1]], e[2])
      BY <1>1, <1>s DEF EdgeStates
    <3>1. CASE b # bb
      BY <3>1, <2>1, <1>1 DEF EngineInv, EdgeStates
    <3>2. CASE b = bb
      <4>1. \A i \in 0 .. BodyLength(b) : <<b, i>> \in DOMAIN state_before
        BY <3>2, <1>1 DEF EngineInv, Applied
      <4>2. ASSUME NEW c \in Conc, NEW e \in run_terminator(body[b].terminator, c),
                   describes(state_before[<<b, BodyLength(b)>>], c)
            PROVE  describes(state_after_block'[b][e[1]], e[2])
        <5>1. Held(e)
          BY <3>2, <4>2, <1>1 DEF EngineInv, Collected
        <5>2. e[1] \in Successors(bb)
          BY <3>2, <1>t, BodyFacts, DomainAssumption DEF EngineTypeOK, Successors
        <5>3. DOMAIN next_states = {}
          BY <1>1
        <5> QED BY <3>2, <5>1, <5>2, <5>3, <1>3, <2>1 DEF Held
      <4> QED BY <4>1, <4>2
    <3> QED BY <3>1, <3>2
  <2>4. EdgesInv'
    <3> SUFFICES ASSUME NEW p \in DOMAIN state_after_block', NEW d \in Successors(p)
                 PROVE  d \in work_set' \/ Covered(d, state_after_block'[p][d])
      BY <1>1, <1>s DEF EdgesInv, Covered, Covers
    <3>1. CASE p = bb /\ Changed(d)
      BY <3>1, <1>3
    <3>2. CASE p # bb \/ ~Changed(d)
      <4>1. p \in DOMAIN state_after_block /\ state_after_block'[p][d] = state_after_block[p][d]
        BY <3>2, <2>1 DEF Changed
      <4>2. d \in work_set \/ Covered(d, state_after_block[p][d])
        BY <4>1, <1>1 DEF EngineInv, EdgesInv, Opening
      <4> QED BY <4>1, <4>2, <1>3
    <3> QED BY <3>1, <3>2
  <2>5. EntryInv' /\ Visited'
    BY <1>1, <1>3, <1>s, <2>1 DEF EngineInv, EntryInv, Visited, Opening
  <2> QED BY <1>t, <2>2, <2>3, <2>4, <2>5 DEF EngineInv
<1> QED BY <1>2, <1>3 DEF InsertStates

LEMMA EngineStep == EngineInv /\ EngineNext => EngineInv'
BY TakeBlockInv, JoinPredecessorInv, ApplyStatementInv, ApplyTerminatorInv,
   CollectStateInv, InsertStatesInv DEF EngineNext

-----------------------------------------------------------------------------
(* The steps of a run, and the theorems. *)

\* Once the work set is empty the edges fit together: what leaves a block is
\* described where it arrives.
LEMMA FinishedFacts ==
  ASSUME EngineInv, Finished
  PROVE  /\ \A b \in Block :
              /\ b \in DOMAIN state_after_block
              /\ \A i \in 0 .. BodyLength(b) : <<b, i>> \in DOMAIN state_before
         /\ \A b \in Block : \A d \in Successors(b) :
              Covers(state_after_block[b][d], state_before[<<d, 0>>])
         /\ \A c \in entry(body) : describes(state_before[<<START_BLOCK, 0>>], c)
<1>1. pc = "pick" /\ work_set = {}
  BY DEF Finished
<1>2. \A b \in Block : b \in DOMAIN state_after_block
  BY <1>1 DEF EngineInv, Visited
<1>3. \A b \in Block : \A i \in 0 .. BodyLength(b) : <<b, i>> \in DOMAIN state_before
  BY <1>1, <1>2 DEF EngineInv, EdgeStates
<1>4. \A b \in Block : \A d \in Successors(b) :
        Covers(state_after_block[b][d], state_before[<<d, 0>>])
  BY <1>1, <1>2 DEF EngineInv, EdgesInv, Opening, Covered
<1>5. \A c \in entry(body) : describes(state_before[<<START_BLOCK, 0>>], c)
  BY <1>1 DEF EngineInv, EntryInv, Opening
<1> QED BY <1>2, <1>3, <1>4, <1>5

\* The engine's invariant is about its variables only.
LEMMA EngineStutters == EngineInv /\ UNCHANGED engine => EngineInv'
<1> SUFFICES ASSUME EngineInv, UNCHANGED engine PROVE EngineInv'
  OBVIOUS
<1>1. /\ body' = body /\ work_set' = work_set /\ pc' = pc /\ bb' = bb /\ preds' = preds
      /\ current_state' = current_state /\ statement_index' = statement_index
      /\ next_states' = next_states /\ new_map' = new_map
      /\ state_before' = state_before /\ state_after_block' = state_after_block
  BY DEF engine, position, results
<1>2. EngineTypeOK'
  BY <1>1 DEF EngineInv, EngineTypeOK, Block, BodyLength, Location, Successors, predecessors
<1>3. EdgesInv' /\ EntryInv' /\ Visited'
  BY <1>1 DEF EngineInv, EdgesInv, EntryInv, Visited, Covered, Covers, Opening, Block, BodyLength,
     Successors, predecessors
<1>4. ASSUME pc # "failed" PROVE Chain' /\ EdgeStates'
  <2>1. Chain /\ EdgeStates
    BY <1>4 DEF EngineInv
  <2> QED BY <1>1, <2>1 DEF Chain, EdgeStates, Block, BodyLength
<1>5. ASSUME pc # "failed" PROVE Applied' /\ Joined' /\ Collected'
  <2>1. Applied /\ Joined /\ Collected
    BY <1>5 DEF EngineInv
  <2>2. Applied' /\ Joined'
    BY <1>1, <2>1 DEF Applied, Joined, Covers, Block, BodyLength, Successors, predecessors
  <2>3. Collected'
    BY <1>1, <2>1 DEF Collected, Held, BodyLength
  <2> QED BY <2>2, <2>3
<1> QED BY <1>1, <1>2, <1>3, <1>4, <1>5 DEF EngineInv

LEMMA BeginInv == Inv /\ Begin => Inv'
<1> SUFFICES ASSUME Inv, Begin PROVE Inv'
  OBVIOUS
<1>1. /\ Finished /\ UNCHANGED engine /\ conc' = conc /\ conc \in entry(body)
      /\ at' = <<START_BLOCK, 0>>
  BY DEF Begin, Inv, RunInv
<1>2. EngineInv /\ body \in Bodies
  BY DEF Inv, EngineInv, EngineTypeOK
<1>3. START_BLOCK \in Block /\ <<START_BLOCK, 0>> \in Location
  BY <1>2, BodyFacts
<1>4. conc \in Conc /\ describes(state_before[<<START_BLOCK, 0>>], conc)
  BY <1>1, <1>2, FinishedFacts, DomainAssumption
<1>5. EngineInv'
  BY <1>1, <1>2, EngineStutters
<1>6. RunInv'
  BY <1>1, <1>3, <1>4 DEF RunInv, Finished, engine, position, results, Location, Block, BodyLength,
     Nowhere
<1> QED BY <1>5, <1>6 DEF Inv

LEMMA RunStatementInv == Inv /\ RunStatement => Inv'
<1> SUFFICES ASSUME Inv, RunStatement PROVE Inv'
  OBVIOUS
<1> DEFINE b == at[1]
           i == at[2] + 1
<1>1. /\ Finished /\ UNCHANGED engine /\ at \in Location /\ conc \in Conc
      /\ describes(state_before[at], conc)
      /\ at[2] < BodyLength(b) /\ at' = <<b, i>>
      /\ conc' \in run_statement(body[b].statements[i], conc)
  BY DEF RunStatement, Inv, RunInv
<1>2. EngineInv /\ EngineTypeOK /\ body \in Bodies
  BY DEF Inv, EngineInv, EngineTypeOK
<1>3. /\ b \in Block /\ at[2] \in 0 .. BodyLength(b) /\ at = <<b, at[2]>>
  BY <1>1 DEF Location
<1>4. /\ BodyLength(b) \in Nat /\ i \in 1 .. BodyLength(b) /\ at = <<b, i - 1>>
      /\ body[b].statements[i] \in Statement /\ <<b, i>> \in Location
  BY <1>1, <1>2, <1>3, BodyFacts
<1>5. <<b, i>> \in DOMAIN state_before /\ <<b, i - 1>> \in DOMAIN state_before
  BY <1>1, <1>2, <1>3, <1>4, FinishedFacts
<1>6. state_before[<<b, i>>] = apply_statement_effect(body[b].statements[i], state_before[at])
  <2>1. Chain /\ pc = "pick"
    BY <1>1, <1>2 DEF Finished, EngineInv
  <2> HIDE DEF b, i
  <2> QED BY <2>1, <1>3, <1>4, <1>5 DEF Chain
<1>7. state_before[at] \in State
  BY <1>2, <1>4, <1>5 DEF EngineTypeOK
<1>8. conc' \in Conc /\ describes(state_before[<<b, i>>], conc')
  BY <1>1, <1>4, <1>6, <1>7, DomainAssumption
<1>9. EngineInv'
  BY <1>1, <1>2, EngineStutters
<1>10. at # Nowhere /\ at' # Nowhere
  BY <1>1, <1>3 DEF Nowhere
<1>11. RunInv'
  <2> HIDE DEF b, i
  <2> QED BY <1>1, <1>4, <1>8, <1>10 DEF RunInv, Finished, engine, position, results,
     Location, Block, BodyLength
<1> QED BY <1>9, <1>11 DEF Inv

LEMMA RunTerminatorInv == Inv /\ RunTerminator => Inv'
<1> SUFFICES ASSUME Inv, RunTerminator PROVE Inv'
  OBVIOUS
<1> DEFINE b == at[1]
<1>1. /\ Finished /\ UNCHANGED engine /\ at \in Location /\ conc \in Conc
      /\ describes(state_before[at], conc) /\ at[2] = BodyLength(b) /\ at # Nowhere
  BY DEF RunTerminator, Inv, RunInv
<1>2. PICK e \in run_terminator(body[b].terminator, conc) : at' = <<e[1], 0>> /\ conc' = e[2]
  BY DEF RunTerminator
<1>3. EngineInv /\ EngineTypeOK /\ body \in Bodies
  BY DEF Inv, EngineInv, EngineTypeOK
<1>4. b \in Block /\ at = <<b, BodyLength(b)>>
  BY <1>1 DEF Location
<1>5. body[b].terminator \in Terminator
  BY <1>3, <1>4, BodyFacts
<1>6. e[1] \in Successors(b) /\ e[1] \in Block /\ e[2] \in Conc
  BY <1>1, <1>2, <1>3, <1>4, <1>5, BodyFacts, DomainAssumption DEF Successors
<1>7. describes(state_after_block[b][e[1]], e[2])
  BY <1>1, <1>2, <1>3, <1>4, FinishedFacts DEF EngineInv, EdgeStates, Finished
<1>8. describes(state_before[<<e[1], 0>>], e[2])
  BY <1>1, <1>3, <1>4, <1>6, <1>7, FinishedFacts DEF Covers
<1>9. <<e[1], 0>> \in Location
  BY <1>3, <1>6, BodyFacts
<1>10. EngineInv'
  BY <1>1, <1>3, EngineStutters
<1>11. RunInv'
  <2>1. at' # Nowhere
    BY <1>2 DEF Nowhere
  <2> QED BY <1>1, <1>2, <1>6, <1>8, <1>9, <2>1 DEF RunInv, Finished, engine, position, results,
     Location, Block, BodyLength
<1> QED BY <1>10, <1>11 DEF Inv

LEMMA InvNext == Inv /\ [Next]_vars => Inv'
<1> SUFFICES ASSUME Inv, [Next]_vars PROVE Inv'
  OBVIOUS
<1>1. CASE Analyse
  <2>1. EngineInv /\ EngineNext /\ UNCHANGED run
    BY <1>1 DEF Analyse, Inv
  <2>2. ~Finished
    BY <2>1 DEF EngineNext, Finished, TakeBlock, JoinPredecessor, ApplyStatement, ApplyTerminator,
       CollectState, InsertStates
  <2>3. body' = body
    BY <2>1, SameBody
  <2>4. RunInv'
    BY <2>1, <2>2, <2>3 DEF Inv, RunInv, run
  <2> QED BY <2>1, <2>4, EngineStep DEF Inv
<1>2. CASE Begin \/ RunStatement \/ RunTerminator
  BY <1>2, BeginInv, RunStatementInv, RunTerminatorInv
<1>3. CASE UNCHANGED vars
  BY <1>3 DEF vars, run, engine, position, results, Inv, RunInv, EngineInv, EngineTypeOK, EdgesInv,
     EntryInv, Visited, Chain, Applied, Joined, Collected, Held, EdgeStates, Covered, Covers,
     Opening, Block, BodyLength, Location, Successors, predecessors, Finished
<1> QED BY <1>1, <1>2, <1>3 DEF Next

LEMMA Invariance == Spec => []Inv
BY InvInit, InvNext, PTL DEF Spec

\* The state of the engine has its shape in every step of every analysis.
THEOREM EngineTypeCorrect == Spec => []EngineTypeOK
<1>1. Inv => EngineTypeOK
  BY DEF Inv, EngineInv
<1> QED BY <1>1, Invariance, PTL

\* The loop of run_fwd_analysis keeps its invariant: an edge whose target is not
\* to be analysed again is covered by the state of its target.
THEOREM EdgesAlwaysCovered == Spec => []EdgesCovered
<1>1. Inv => EdgesCovered
  BY DEF Inv, EngineInv, EdgesInv, EdgesCovered, Opening, Covered
<1> QED BY <1>1, Invariance, PTL

\* When the engine has ended without an error, nobody who looks up the state of
\* a location or of an edge finds none.
THEOREM ResultComplete == Spec => []Complete
<1>1. Inv => Complete
  <2> SUFFICES ASSUME Inv, Finished
               PROVE  DOMAIN state_before = Location /\ DOMAIN state_after_block = Block
    BY DEF Complete
  <2>1. EngineInv /\ EngineTypeOK
    BY DEF Inv, EngineInv
  <2>2. Block \subseteq DOMAIN state_after_block /\ Location \subseteq DOMAIN state_before
    BY <2>1, FinishedFacts DEF Location
  <2> QED BY <2>1, <2>2 DEF EngineTypeOK
<1> QED BY <1>1, Invariance, PTL

\* Soundness of the analyses: for every domain whose join and effects are those
\* the trait AbstractState asks for, and every body, what the result says of a
\* location is true of every run that gets there.
THEOREM Soundness == Spec => []Described
<1>1. Inv => Described
  BY DEF Inv, RunInv, Described
<1> QED BY <1>1, Invariance, PTL

LEMMA MinIn ==
  ASSUME NEW D, D \subseteq Nat, D # {}
  PROVE  Min(D) \in D
BY LeastNumber DEF Min

\* States joined one after the other describe whatever one of them describes.
LEMMA JoinedDescribe ==
  ASSUME NEW states, NEW D, D = DOMAIN states, D \subseteq Nat, IsFiniteSet(D), D # {},
         \A c \in D : states[c] \in State,
         NEW d \in Conc, NEW e \in D, describes(states[e], d)
  PROVE  describes(join_values(states), d)
<1> DEFINE first == Min(D)
           R == D \ {first}
           Sat(f) == f = [S \in SUBSET R |->
                            IF S = {} THEN states[first] ELSE join(f[S \ {Max(S)}], states[Max(S)])]
           iter == CHOOSE f : Sat(f)
           step == [c \in R |-> [v \in State |-> join(v, states[c])]]
           pick == [S \in SUBSET R |-> Max(S)]
<1>1. join_values(states) = iter[R]
  BY DEF join_values, MapThenFoldSet
<1>2. first \in D /\ states[first] \in State
  BY MinIn
<1>3. R \subseteq Nat /\ IsFiniteSet(R) /\ R \subseteq D
  BY FS_Subset
<1> HIDE DEF first, R
<1>4. \A S \in SUBSET R : S # {} => Max(S) \in S
  BY <1>3, MaxIn
<1>5. step \in [R -> [State -> State]]
  BY <1>3, EngineAssumption
<1>6. \E g : Sat(g)
  <2>1. \A S \in SUBSET R : S # {} => pick[S] \in S
    BY <1>4
  <2>2. PICK g \in [SUBSET R -> State] : Folded(R, pick, step, states[first], g)
    <3> HIDE DEF step, pick
    <3> QED BY <1>2, <1>3, <1>5, <2>1, SetFold
  <2>3. ASSUME NEW S \in SUBSET R
        PROVE  g[S] = IF S = {} THEN states[first] ELSE join(g[S \ {Max(S)}], states[Max(S)])
    <3>1. g[S] = IF S = {} THEN states[first] ELSE step[pick[S]][g[S \ {pick[S]}]]
      <4> HIDE DEF step, pick
      <4> QED BY <2>2 DEF Folded
    <3>2. S # {} => Max(S) \in R /\ g[S \ {Max(S)}] \in State
      BY <1>4
    <3> QED BY <3>1, <3>2
  <2>4. Sat(g)
    <3>1. g = [S \in SUBSET R |-> g[S]]
      OBVIOUS
    <3> QED BY <2>3, <3>1
  <2> HIDE DEF Sat
  <2> QED BY <2>4
<1>7. Sat(iter)
  <2> HIDE DEF Sat
  <2> QED BY <1>6
<1> HIDE DEF iter
<1>8. /\ iter[{}] = states[first]
      /\ \A S \in SUBSET R : S # {} => iter[S] = join(iter[S \ {Max(S)}], states[Max(S)])
  BY <1>7
<1> HIDE DEF Sat, step, pick
<1> DEFINE Good(S) == /\ iter[S] \in State
                      /\ e = first \/ e \in S => describes(iter[S], d)
           W == {S \in SUBSET R : Good(S)}
<1>9. {} \in W
  BY <1>2, <1>8
<1>10. ASSUME NEW S \in SUBSET R, S # {}, \A x \in S : S \ {x} \in W PROVE S \in W
  <2>1. Max(S) \in S /\ states[Max(S)] \in State
    BY <1>3, <1>4, <1>10
  <2>2. iter[S \ {Max(S)}] \in State
        /\ (e = first \/ e \in S \ {Max(S)} => describes(iter[S \ {Max(S)}], d))
    BY <1>10, <2>1
  <2>3. iter[S] = join(iter[S \ {Max(S)}], states[Max(S)])
    BY <1>8, <1>10
  <2>4. iter[S] \in State
    BY <2>1, <2>2, <2>3, EngineAssumption
  <2>5. e = first \/ e \in S => describes(iter[S \ {Max(S)}], d) \/ describes(states[Max(S)], d)
    BY <2>1, <2>2
  <2>6. e = first \/ e \in S => describes(iter[S], d)
    BY <2>1, <2>2, <2>3, <2>5, DomainAssumption
  <2> QED BY <2>4, <2>6
<1>11. \A S \in SUBSET R : S \in W
  <2> HIDE DEF W
  <2> QED BY <1>3, <1>9, <1>10, SubsetInduction
<1>12. e = first \/ e \in R
  BY DEF R
<1> QED BY <1>1, <1>11, <1>12

\* What is recorded for a point after a statement or terminator describes every
\* state of the run right behind it, whichever way a terminator goes, though a
\* call that returns and one that unwinds leave different states.
THEOREM SoundAfter == Spec => DescribedAfter
<1>1. ASSUME Inv, Next, at # Nowhere, run' # run PROVE describes(after_statement(at), conc')
  <2>1. /\ Finished /\ at \in Location /\ conc \in Conc /\ describes(state_before[at], conc)
        /\ EngineInv /\ EngineTypeOK /\ body \in Bodies
    BY <1>1 DEF Inv, RunInv, EngineInv, EngineTypeOK
  <2> DEFINE b == at[1]
  <2>2. b \in Block /\ at[2] \in 0 .. BodyLength(b) /\ at = <<b, at[2]>> /\ BodyLength(b) \in Nat
    BY <2>1, BodyFacts DEF Location
  <2>3. CASE RunStatement
    <3> DEFINE i == at[2] + 1
    <3>1. at[2] < BodyLength(b) /\ conc' \in run_statement(body[b].statements[i], conc)
      BY <2>3 DEF RunStatement
    <3>2. /\ i \in 1 .. BodyLength(b) /\ at = <<b, i - 1>> /\ body[b].statements[i] \in Statement
      <4>1. i \in 1 .. BodyLength(b) /\ i - 1 = at[2]
        BY <2>2, <3>1
      <4> HIDE DEF i
      <4>2. body[b].statements[i] \in Statement
        BY <2>1, <2>2, <4>1, BodyFacts
      <4> HIDE DEF b
      <4> QED BY <2>2, <4>1, <4>2
    <3>3. <<b, i>> \in DOMAIN state_before /\ <<b, i - 1>> \in DOMAIN state_before
      BY <2>1, <2>2, <3>2, FinishedFacts
    <3>4. state_before[<<b, i>>] = apply_statement_effect(body[b].statements[i], state_before[at])
      <4>1. Chain /\ pc = "pick"
        BY <2>1 DEF Finished, EngineInv
      <4> HIDE DEF b, i
      <4> QED BY <4>1, <2>2, <3>2, <3>3 DEF Chain
    <3>5. state_before[at] \in State
      BY <2>1, <3>2, <3>3 DEF EngineTypeOK
    <3>6. describes(state_before[<<b, i>>], conc')
      BY <2>1, <3>1, <3>2, <3>4, <3>5, DomainAssumption
    <3> QED BY <3>1, <3>6 DEF after_statement
  <2>4. CASE RunTerminator
    <3>1. PICK e \in run_terminator(body[b].terminator, conc) :
            at[2] = BodyLength(b) /\ conc' = e[2]
      BY <2>4 DEF RunTerminator
    <3>2. e[1] \in Successors(b) /\ e[2] \in Conc
      BY <2>1, <2>2, <3>1, BodyFacts, DomainAssumption DEF Successors
    <3>3. describes(state_after_block[b][e[1]], e[2])
      BY <2>1, <2>2, <3>1, FinishedFacts DEF EngineInv, EdgeStates, Finished
    <3>4. PICK states : states = state_after_block[b]
      OBVIOUS
    <3>5. b \in DOMAIN state_after_block
      BY <2>1, <2>2, FinishedFacts
    <3>6. DOMAIN states = Successors(b) /\ \A c \in Successors(b) : states[c] \in State
      BY <2>1, <3>4, <3>5 DEF EngineTypeOK
    <3>7. DOMAIN states \subseteq Nat /\ IsFiniteSet(DOMAIN states)
      <4>1. Successors(b) \subseteq Block /\ Block \subseteq Nat /\ IsFiniteSet(Block)
        BY <2>1, <2>2, BodyFacts, EngineAssumption DEF IsBody, Block
      <4> QED BY <3>6, <4>1, FS_Subset
    <3>8. PICK c \in DOMAIN states : c = e[1]
      BY <3>2, <3>6
    <3>9. PICK d \in Conc : d = conc'
      BY <3>1, <3>2
    <3>10. describes(states[c], d)
      BY <3>1, <3>3, <3>4, <3>8, <3>9
    <3>11. describes(join_values(states), d)
      <4>1. \A n \in DOMAIN states : states[n] \in State
        BY <3>6
      <4> QED BY <3>7, <3>10, <4>1, JoinedDescribe
    <3>12. joined_after_block(b) = join_values(states)
      BY <3>4, <3>8 DEF joined_after_block
    <3>13. after_statement(at) = joined_after_block(b)
      BY <2>2, <3>1 DEF after_statement
    <3> QED BY <3>9, <3>11, <3>12, <3>13
  <2>5. ~Analyse /\ ~Begin
    BY <1>1 DEF Analyse, Begin
  <2> QED BY <1>1, <2>3, <2>4, <2>5 DEF Next
<1>2. Inv /\ [Next]_vars => [at # Nowhere => describes(after_statement(at), conc')]_run
  BY <1>1 DEF vars
<1> QED BY <1>2, Invariance, PTL DEF Spec, DescribedAfter

---------------------------------------------------------------------------
(* Places and their prefixes.                                                *)
Cut(p, n) == SubSeq(p, 1, n)

LEMMA PlaceShape ==
  ASSUME NEW p \in Place
  PROVE  /\ p \in Seq(STRING) /\ Len(p) \in Nat /\ Len(p) >= 1
         /\ \A n \in 1..Len(p) : /\ Cut(p, n) \in Place /\ Len(Cut(p, n)) = n
                                 /\ \A i \in 1..n : Cut(p, n)[i] = p[i]
<1>1. p \in Seq(STRING) /\ p # <<>>
  BY PlaceAssumption
<1>2. Len(p) \in Nat /\ Len(p) >= 1
  BY <1>1
<1>3. ASSUME NEW n \in 1..Len(p)
      PROVE  /\ Cut(p, n) \in Place /\ Len(Cut(p, n)) = n
             /\ \A i \in 1..n : Cut(p, n)[i] = p[i]
  <2>1. Cut(p, n) \in Place
    BY PlaceAssumption DEF Cut
  <2> QED BY <1>1, <1>2, <2>1 DEF Cut
<1> QED
  BY <1>1, <1>2, <1>3

LEMMA PlacesEqual ==
  ASSUME NEW p \in Place, NEW q \in Place, Len(p) = Len(q), \A i \in 1..Len(p) : p[i] = q[i]
  PROVE  p = q
  BY PlaceShape

(* A prefix is a place that agrees with the other as far as it goes.         *)
LEMMA PrefixAgrees ==
  ASSUME NEW p \in Place, NEW q \in Place
  PROVE  is_prefix(q, p) <=> Len(p) <= Len(q) /\ \A i \in 1..Len(p) : p[i] = q[i]
<1>1. Len(p) \in 1..Len(p) /\ SubSeq(p, 1, Len(p)) = Cut(p, Len(p)) /\ Cut(p, Len(p)) = p
  BY PlaceShape, PlacesEqual DEF Cut
<1>2. ASSUME Len(p) <= Len(q)
      PROVE  (SubSeq(p, 1, Len(p)) = SubSeq(q, 1, Len(p))) <=> \A i \in 1..Len(p) : p[i] = q[i]
  <2>1. Len(p) \in 1..Len(q)
    BY <1>2, PlaceShape
  <2>2. Cut(q, Len(p)) \in Place /\ Len(Cut(q, Len(p))) = Len(p)
        /\ \A i \in 1..Len(p) : Cut(q, Len(p))[i] = q[i]
    BY <2>1, PlaceShape
  <2>3. (p = Cut(q, Len(p))) <=> \A i \in 1..Len(p) : p[i] = q[i]
    BY <2>2, PlacesEqual
  <2> QED BY <1>1, <2>3 DEF Cut
<1> QED
  BY <1>2 DEF is_prefix, IsPrefix

LEMMA PrefixReflexive == \A p \in Place : is_prefix(p, p)
  BY PrefixAgrees, PlaceShape

LEMMA PrefixTransitive ==
  ASSUME NEW p \in Place, NEW q \in Place, NEW r \in Place, is_prefix(q, p), is_prefix(r, q)
  PROVE  is_prefix(r, p)
<1>1. Len(p) <= Len(q) /\ \A i \in 1..Len(p) : p[i] = q[i]
  BY PrefixAgrees
<1>2. Len(q) <= Len(r) /\ \A i \in 1..Len(q) : q[i] = r[i]
  BY PrefixAgrees
<1>3. Len(p) \in Nat /\ Len(q) \in Nat /\ Len(r) \in Nat
  BY PlaceShape
<1>4. Len(p) <= Len(r) /\ \A i \in 1..Len(p) : p[i] = r[i]
  BY <1>1, <1>2, <1>3
<1> QED
  BY <1>4, PrefixAgrees

LEMMA PrefixAntisymmetric ==
  ASSUME NEW p \in Place, NEW q \in Place, is_prefix(q, p), is_prefix(p, q)
  PROVE  p = q
<1>1. Len(p) <= Len(q) /\ Len(q) <= Len(p) /\ \A i \in 1..Len(p) : p[i] = q[i]
  BY PrefixAgrees
<1>2. Len(p) = Len(q)
  BY <1>1, PlaceShape
<1> QED
  BY <1>1, <1>2, PlacesEqual

(* Two prefixes of a place are comparable.                                   *)
LEMMA PrefixesComparable ==
  ASSUME NEW p \in Place, NEW q \in Place, NEW r \in Place, is_prefix(r, p), is_prefix(r, q)
  PROVE  is_prefix(p, q) \/ is_prefix(q, p)
<1>1. Len(p) <= Len(r) /\ \A i \in 1..Len(p) : p[i] = r[i]
  BY PrefixAgrees
<1>2. Len(q) <= Len(r) /\ \A i \in 1..Len(q) : q[i] = r[i]
  BY PrefixAgrees
<1>3. Len(p) \in Nat /\ Len(q) \in Nat
  BY PlaceShape
<1>4. CASE Len(p) <= Len(q)
  <2>1. \A i \in 1..Len(p) : p[i] = q[i]
    BY <1>1, <1>2, <1>3, <1>4
  <2> QED BY <1>4, <2>1, PrefixAgrees
<1>5. CASE Len(q) <= Len(p)
  <2>1. \A i \in 1..Len(q) : q[i] = p[i]
    BY <1>1, <1>2, <1>3, <1>5
  <2> QED BY <1>5, <2>1, PrefixAgrees
<1> QED
  BY <1>3, <1>4, <1>5

(* The prefix of each length.                                                *)
LEMMA CutPrefix ==
  ASSUME NEW p \in Place, NEW n \in 1..Len(p)
  PROVE  Cut(p, n) \in Place /\ Len(Cut(p, n)) = n /\ is_prefix(p, Cut(p, n))
<1>1. Cut(p, n) \in Place /\ Len(Cut(p, n)) = n /\ n <= Len(p) /\ \A i \in 1..n : Cut(p, n)[i] = p[i]
  BY PlaceShape
<1> QED
  BY <1>1, PrefixAgrees

LEMMA PrefixIsCut ==
  ASSUME NEW p \in Place, NEW q \in Place, is_prefix(q, p)
  PROVE  Len(p) \in 1..Len(q) /\ p = Cut(q, Len(p))
<1>1. Len(p) <= Len(q) /\ \A i \in 1..Len(p) : p[i] = q[i]
  BY PrefixAgrees
<1>2. Len(p) \in 1..Len(q)
  BY <1>1, PlaceShape
<1>3. Cut(q, Len(p)) \in Place /\ Len(Cut(q, Len(p))) = Len(p)
      /\ \A i \in 1..Len(p) : Cut(q, Len(p))[i] = q[i]
  BY <1>2, PlaceShape
<1> QED
  BY <1>1, <1>2, <1>3, PlacesEqual

LEMMA CutAll == \A p \in Place : Cut(p, Len(p)) = p
  BY PrefixIsCut, PrefixReflexive

LEMMA CutCut ==
  ASSUME NEW p \in Place, NEW n \in 1..Len(p), NEW m \in 1..n
  PROVE  Cut(Cut(p, n), m) = Cut(p, m) /\ is_prefix(Cut(p, n), Cut(p, m))
<1>1. Len(p) \in Nat /\ m \in 1..Len(p)
  BY PlaceShape
<1>2. /\ Cut(p, n) \in Place /\ Len(Cut(p, n)) = n /\ \A i \in 1..n : Cut(p, n)[i] = p[i]
      /\ Cut(p, m) \in Place /\ Len(Cut(p, m)) = m /\ \A i \in 1..m : Cut(p, m)[i] = p[i]
  BY <1>1, PlaceShape
<1>3. is_prefix(Cut(p, n), Cut(p, m))
  BY <1>2, PrefixAgrees
<1>4. Cut(p, m) = Cut(Cut(p, n), m)
  BY <1>2, <1>3, PrefixIsCut
<1> QED
  BY <1>3, <1>4

(* One step below a place, and the parent one step above.                    *)
LEMMA ParentIsCut ==
  ASSUME NEW p \in Place, NEW n \in 1..(Len(p) - 1)
  PROVE  Parent(Cut(p, n + 1)) = Cut(p, n)
<1>1. Len(p) \in Nat /\ n + 1 \in 1..Len(p) /\ n \in 1..(n + 1)
  BY PlaceShape
<1>2. Len(Cut(p, n + 1)) = n + 1
  BY <1>1, PlaceShape
<1>3. Parent(Cut(p, n + 1)) = Cut(Cut(p, n + 1), n)
  BY <1>2 DEF Parent, Front, Cut
<1> QED
  BY <1>1, <1>3, CutCut

(* Places one step below p that differ, differ in their last step.           *)
LEMMA ChildByLast ==
  ASSUME NEW p \in Place, NEW q \in Place, Len(q) = Len(p) + 1, is_prefix(q, p)
  PROVE  Parent(q) = p /\ q = Append(p, Last(q))
<1>1. Len(p) \in Nat /\ Len(q) \in Nat /\ Len(p) \in 1..(Len(q) - 1) /\ Len(q) \in 1..Len(q)
  BY PlaceShape
<1>2. Parent(Cut(q, Len(p) + 1)) = Cut(q, Len(p))
  BY <1>1, ParentIsCut
<1>3. Parent(q) = p
  BY <1>1, <1>2, PrefixIsCut, CutAll
<1>4. \A i \in 1..Len(p) : p[i] = q[i]
  BY PrefixAgrees
<1>5. p \in Seq(STRING) /\ q \in Seq(STRING)
  BY PlaceShape
<1>6. q = Append(p, q[Len(q)])
  BY <1>1, <1>4, <1>5
<1> QED
  BY <1>3, <1>6 DEF Last

(* What is next on the way down to a place below p.                          *)
LEMMA NextDown ==
  ASSUME NEW p \in Place, NEW q \in Place, is_prefix(q, p), p # q
  PROVE  LET r == Cut(q, Len(p) + 1)
         IN  /\ r \in Place /\ Len(r) = Len(p) + 1 /\ is_prefix(q, r) /\ is_prefix(r, p)
             /\ Parent(r) = p /\ r = Append(p, Last(r))
<1> DEFINE r == Cut(q, Len(p) + 1)
<1>1. Len(p) <= Len(q) /\ Len(p) \in Nat /\ Len(q) \in Nat /\ Len(p) >= 1
      /\ \A i \in 1..Len(p) : p[i] = q[i]
  BY PrefixAgrees, PlaceShape
<1>2. Len(p) # Len(q)
  BY <1>1, PlacesEqual
<1>3. Len(p) + 1 \in 1..Len(q) /\ Len(p) \in 1..(Len(p) + 1)
  BY <1>1, <1>2
<1>4. r \in Place /\ Len(r) = Len(p) + 1 /\ is_prefix(q, r)
  BY <1>3, CutPrefix
<1>5. is_prefix(r, p)
  <2>1. p = Cut(q, Len(p))
    BY PrefixIsCut
  <2>2. is_prefix(Cut(q, Len(p) + 1), Cut(q, Len(p)))
    BY <1>3, CutCut
  <2> QED BY <2>1, <2>2
<1> HIDE DEF r
<1>6. Parent(r) = p /\ r = Append(p, Last(r))
  BY <1>4, <1>5, ChildByLast
<1> QED
  BY <1>4, <1>5, <1>6 DEF r

(* The step down leads to a field where there are fields.                    *)
LEMMA FieldDown ==
  ASSUME NEW p \in Place, NEW q \in Place, is_prefix(q, p), p # q, fields(p) # {}
  PROVE  Cut(q, Len(p) + 1) \in fields(p)
<1> DEFINE r == Cut(q, Len(p) + 1)
<1>1. r \in Place /\ Len(r) = Len(p) + 1 /\ Parent(r) = p /\ r = Append(p, Last(r))
  BY NextDown
<1> HIDE DEF r
<1>2. Append(p, "deref") \notin Place
  BY PlaceAssumption
<1>3. r \in fields(p)
  BY <1>1, <1>2 DEF fields
<1> QED
  BY <1>3 DEF r

LEMMA FieldShape ==
  ASSUME NEW p \in Place, NEW q \in fields(p)
  PROVE  q \in Place /\ Len(q) = Len(p) + 1 /\ Parent(q) = p /\ is_prefix(q, p) /\ p # q
<1>1. q \in Place /\ Len(q) = Len(p) + 1 /\ Parent(q) = p
  BY DEF fields
<1>2. Len(p) \in Nat /\ Len(q) \in Nat /\ Len(p) \in 1..Len(q)
  BY <1>1, PlaceShape
<1>3. p = Cut(q, Len(p))
  BY <1>1 DEF Parent, Front, Cut
<1>4. is_prefix(q, p)
  BY <1>1, <1>2, <1>3, CutPrefix
<1> QED
  BY <1>1, <1>2, <1>4

---------------------------------------------------------------------------
(* The cells of places.                                                      *)
Comparable(p, q) == is_prefix(p, q) \/ is_prefix(q, p)

LEMMA CellsOf ==
  ASSUME NEW p \in Place, NEW c
  PROVE  c \in cells(p) <=> c \in Cell /\ c \in Place /\ is_prefix(c, p)
  BY DEF cells, Cell

LEMMA CellsShrink ==
  ASSUME NEW p \in Place, NEW q \in Place, is_prefix(q, p)
  PROVE  cells(q) \subseteq cells(p)
  BY CellsOf, PrefixTransitive

LEMMA CellsDisjoint ==
  ASSUME NEW p \in Place, NEW q \in Place, ~Comparable(p, q)
  PROVE  cells(p) \cap cells(q) = {}
  BY CellsOf, PrefixesComparable DEF Comparable

LEMMA CellsOfSet ==
  ASSUME NEW S, NEW c
  PROVE  c \in cells_of(S) <=> \E p \in S : c \in cells(p)
  BY DEF cells_of

---------------------------------------------------------------------------
(* Expanding q towards p: what is left is below q, and beside p.             *)
LEMMA OthersShape ==
  ASSUME NEW p \in Place, NEW n \in 1..(Len(p) - 1), NEW r \in others(Cut(p, n + 1))
  PROVE  /\ r \in Place /\ Len(r) = n + 1 /\ is_prefix(r, Cut(p, n)) /\ r # Cut(p, n + 1)
         /\ r \in fields(Cut(p, n)) /\ Cut(p, n + 1) \in fields(Cut(p, n))
<1>1. Len(p) \in Nat /\ n \in 1..Len(p) /\ n + 1 \in 1..Len(p)
  BY PlaceShape
<1>2. Parent(Cut(p, n + 1)) = Cut(p, n) /\ Cut(p, n) \in Place /\ Len(Cut(p, n)) = n
  BY <1>1, ParentIsCut, CutPrefix
<1>3. Cut(p, n + 1) \in fields(Cut(p, n)) /\ r \in fields(Cut(p, n)) /\ r # Cut(p, n + 1)
  BY <1>2 DEF others
<1> QED
  BY <1>2, <1>3, FieldShape

LEMMA ExpandLevel ==
  ASSUME NEW p \in Place, NEW q \in Place, is_prefix(p, q), NEW r
  PROVE  r \in expand(q, p) <=> \E n \in Len(q)..(Len(p) - 1) : r \in others(Cut(p, n + 1))
<1>1. Len(p) \in Nat /\ Len(q) \in Nat
  BY PlaceShape
<1>2. ASSUME NEW m \in (Len(q) + 1)..Len(p)
      PROVE  m - 1 \in Len(q)..(Len(p) - 1) /\ m = (m - 1) + 1
  BY <1>1
<1>3. ASSUME NEW m \in Len(q)..(Len(p) - 1)
      PROVE  m + 1 \in (Len(q) + 1)..Len(p)
  BY <1>1
<1>4. r \in expand(q, p) <=> \E m \in (Len(q) + 1)..Len(p) : r \in others(Cut(p, m))
  BY DEF expand, Cut
<1> QED
  BY <1>2, <1>3, <1>4

LEMMA ExpandShape ==
  ASSUME NEW p \in Place, NEW q \in Place, is_prefix(p, q), NEW r \in expand(q, p)
  PROVE  r \in Place /\ is_prefix(r, q) /\ ~Comparable(r, p)
<1>1. PICK n \in Len(q)..(Len(p) - 1) : r \in others(Cut(p, n + 1))
  BY ExpandLevel
<1>2. /\ Len(p) \in Nat /\ Len(q) \in Nat /\ Len(q) >= 1 /\ n \in 1..(Len(p) - 1)
      /\ n \in 1..Len(p) /\ n + 1 \in 1..Len(p) /\ Len(q) \in 1..n /\ n + 1 \in Nat
  BY PlaceShape
<1>3. /\ r \in Place /\ Len(r) = n + 1 /\ is_prefix(r, Cut(p, n)) /\ r # Cut(p, n + 1)
  BY <1>1, <1>2, OthersShape
<1>4. q = Cut(p, Len(q)) /\ is_prefix(Cut(p, n), q) /\ Cut(p, n) \in Place
  BY <1>2, PrefixIsCut, CutCut, CutPrefix
<1>5. is_prefix(r, q)
  BY <1>3, <1>4, PrefixTransitive
<1>6. ~is_prefix(p, r)
  BY <1>3, PrefixIsCut
<1>7. ~is_prefix(r, p)
  <2>1. is_prefix(r, p) => Len(p) <= Len(r)
    BY <1>3, PrefixAgrees
  <2>2. ASSUME is_prefix(r, p) PROVE r = p
    <3>1. Len(p) = n + 1
      BY <1>2, <1>3, <2>1, <2>2
    <3> QED BY <1>3, <2>2, <3>1, PlacesEqual, PrefixAgrees
  <2>3. ASSUME is_prefix(r, p) PROVE FALSE
    BY <1>3, <1>6, <2>2, <2>3
  <2> QED BY <2>3
<1> QED
  BY <1>3, <1>5, <1>6, <1>7 DEF Comparable

(* The steps of expand are beside each other.                                *)
LEMMA ExpandBeside ==
  ASSUME NEW p \in Place, NEW q \in Place, is_prefix(p, q),
         NEW r \in expand(q, p), NEW s \in expand(q, p), is_prefix(s, r)
  PROVE  r = s
<1>1. PICK n \in Len(q)..(Len(p) - 1) : r \in others(Cut(p, n + 1))
  BY ExpandLevel
<1>2. PICK m \in Len(q)..(Len(p) - 1) : s \in others(Cut(p, m + 1))
  BY ExpandLevel
<1>3. /\ Len(p) \in Nat /\ Len(q) \in Nat /\ Len(q) >= 1 /\ n \in 1..(Len(p) - 1)
      /\ m \in 1..(Len(p) - 1) /\ m \in 1..Len(p)
  BY PlaceShape
<1>4. r \in Place /\ Len(r) = n + 1 /\ r # Cut(p, n + 1)
  BY <1>1, <1>3, OthersShape
<1>5. s \in Place /\ Len(s) = m + 1 /\ is_prefix(s, Cut(p, m))
  BY <1>2, <1>3, OthersShape
<1>6. Len(r) <= Len(s)
  BY <1>4, <1>5, PrefixAgrees
<1>7. CASE n = m
  BY <1>4, <1>5, <1>7, PlacesEqual, PrefixAgrees
<1>8. CASE n # m
  <2>1. n + 1 \in 1..m
    BY <1>3, <1>4, <1>5, <1>6, <1>8
  <2>2. is_prefix(Cut(p, m), Cut(p, n + 1)) /\ Cut(p, m) \in Place /\ Cut(p, n + 1) \in Place
        /\ Len(Cut(p, n + 1)) = n + 1
    <3>1. n + 1 \in 1..Len(p)
      BY <1>3
    <3> QED BY <1>3, <2>1, <3>1, CutCut, CutPrefix
  <2>3. is_prefix(s, Cut(p, n + 1))
    BY <1>5, <2>2, PrefixTransitive
  <2>4. r = Cut(s, n + 1) /\ Cut(p, n + 1) = Cut(s, n + 1)
    BY <1>4, <1>5, <2>2, <2>3, PrefixIsCut
  <2> QED BY <1>4, <2>4
<1> QED
  BY <1>7, <1>8

(* A cell of a local without pointers.                                       *)
Plain == {c \in Cell : \A p \in Place : is_prefix(p, <<c[1]>>) => Last(p) # "deref"}

(* Of those below q none is lost but the ones below p.                       *)
LEMMA ExpandKeeps ==
  ASSUME NEW p \in Place, NEW q \in Place, is_prefix(p, q),
         NEW c \in Plain, c \in cells(q), c \notin cells(p)
  PROVE  \E r \in expand(q, p) : c \in cells(r)
<1>1. c \in Place /\ c \in Cell /\ is_prefix(c, q) /\ ~is_prefix(c, p)
  BY CellsOf DEF Plain
<1>2. /\ Len(p) \in Nat /\ Len(q) \in Nat /\ Len(c) \in Nat /\ Len(q) >= 1 /\ Len(p) >= 1
      /\ Len(q) <= Len(p) /\ Len(q) <= Len(c)
      /\ \A i \in 1..Len(q) : q[i] = p[i] /\ q[i] = c[i]
  BY <1>1, PlaceShape, PrefixAgrees
<1> DEFINE D == {i \in 1..Len(p) : i > Len(c) \/ c[i] # p[i]}
<1>3. D \subseteq Nat /\ D # {}
  <2>1. ~(Len(p) <= Len(c) /\ \A i \in 1..Len(p) : p[i] = c[i])
    BY <1>1, PrefixAgrees
  <2> QED BY <1>2, <2>1
<1>4. PICK m \in D : \A i \in D : m <= i
  <2> HIDE DEF D
  <2> QED BY <1>3, LeastNumber
<1> DEFINE n == m - 1
<1>5. n \in Len(q)..(Len(p) - 1) /\ m = n + 1 /\ n \in 1..Len(p) /\ m \in 1..Len(p)
  BY <1>2, <1>4
<1>6. n <= Len(c) /\ \A i \in 1..n : c[i] = p[i]
  <2>1. ASSUME NEW i \in 1..n PROVE i \notin D
    BY <1>4, <1>5
  <2>2. \A i \in 1..n : i <= Len(c) /\ c[i] = p[i]
    BY <1>2, <1>5, <2>1
  <2>3. n \in 1..n
    BY <1>2, <1>5
  <2> QED BY <2>2, <2>3
<1> HIDE DEF n
<1> DEFINE b == Cut(p, n)
           d == Cut(p, n + 1)
<1>7. b \in Place /\ Len(b) = n /\ d \in Place /\ Len(d) = n + 1 /\ is_prefix(p, d)
      /\ \A i \in 1..n : b[i] = p[i]
  BY <1>5, CutPrefix, PlaceShape
<1>8. Parent(d) = b
  <2>1. n \in 1..(Len(p) - 1)
    BY <1>2, <1>5
  <2> QED BY <2>1, ParentIsCut
<1>9. is_prefix(c, b)
  BY <1>1, <1>6, <1>7, PrefixAgrees
<1>10. ASSUME NEW e \in Place, is_prefix(e, b) PROVE Last(e) # "deref"
  <2>1. <<c[1]>> = Cut(c, 1) /\ 1 \in 1..n /\ 1 \in 1..Len(c) /\ n \in Nat
    BY <1>1, <1>2, <1>5, PlaceShape DEF Cut
  <2>2. Cut(c, 1) \in Place /\ Len(Cut(c, 1)) = 1 /\ is_prefix(b, Cut(c, 1))
    <3>1. b = Cut(c, n) /\ n \in 1..Len(c)
      BY <1>1, <1>7, <1>9, PrefixIsCut
    <3> QED BY <1>1, <2>1, <3>1, CutPrefix, CutCut
  <2>3. is_prefix(e, <<c[1]>>)
    BY <1>7, <1>10, <2>1, <2>2, PrefixTransitive
  <2> QED BY <1>10, <2>3 DEF Plain
<1>11. d \in fields(b)
  <2>1. is_prefix(d, b)
    <3>1. n \in 1..(n + 1) /\ n + 1 \in 1..Len(p)
      BY <1>2, <1>5
    <3> QED BY <3>1, CutCut
  <2>2. Last(d) # "deref"
    BY <1>7, <1>10, <2>1
  <2> QED BY <1>7, <1>8, <2>2 DEF fields
<1>12. c # b
  BY <1>1, <1>11 DEF Cell
<1> DEFINE r == Cut(c, Len(b) + 1)
<1>13. r \in fields(b) /\ r \in Place /\ Len(r) = n + 1 /\ is_prefix(c, r)
  <2>1. r \in fields(b)
    BY <1>1, <1>7, <1>9, <1>11, <1>12, FieldDown
  <2>2. r \in Place /\ Len(r) = Len(b) + 1 /\ is_prefix(c, r)
    BY <1>1, <1>7, <1>9, <1>12, NextDown
  <2> QED BY <1>7, <2>1, <2>2
<1>14. r # d
  <2>1. m <= Len(c) /\ c[m] # p[m]
    <3>1. Len(r) <= Len(c)
      BY <1>1, <1>13, PrefixAgrees
    <3> QED BY <1>4, <1>5, <1>13, <3>1
  <2>2. m \in 1..Len(r) /\ m \in 1..Len(d)
    BY <1>5, <1>7, <1>13
  <2>3. r[m] = c[m]
    BY <1>1, <1>13, <2>2, PrefixAgrees
  <2>4. d[m] = p[m]
    BY <1>7, <2>2, PrefixAgrees
  <2> QED BY <2>1, <2>3, <2>4
<1>15. r \in others(d)
  BY <1>8, <1>11, <1>13, <1>14 DEF others
<1>16. r \in expand(q, p)
  <2> HIDE DEF r
  <2> QED BY <1>5, <1>15, ExpandLevel
<1>17. c \in cells(r)
  BY <1>1, <1>13, CellsOf
<1> QED
  BY <1>16, <1>17

---------------------------------------------------------------------------
(* A place is uninitialised: T is what is left of the places S without those *)
(* in R.                                                                     *)
Without(S, R, T) ==
  /\ T \subseteq Place
  /\ cells_of(T) \subseteq cells_of(S) \ cells_of(R)
  /\ Plain \cap (cells_of(S) \ cells_of(R)) \subseteq cells_of(T)
  /\ check_invariant(S) => check_invariant(T)

LEMMA UninitialisedShape ==
  ASSUME NEW S, S \subseteq Place, NEW p \in Place, NEW r
  PROVE  r \in set_place_uninitialised(S, p) <=>
           \/ r \in S /\ ~Comparable(r, p)
           \/ \E q \in S : is_prefix(p, q) /\ r \in expand(q, p)
  BY DEF set_place_uninitialised, Comparable

LEMMA UninitialiseOne ==
  ASSUME NEW S, S \subseteq Place, NEW p \in Place
  PROVE  Without(S, {p}, set_place_uninitialised(S, p))
<1> DEFINE T == set_place_uninitialised(S, p)
<1>1. \A r : r \in T <=> \/ r \in S /\ ~Comparable(r, p)
                         \/ \E q \in S : is_prefix(p, q) /\ r \in expand(q, p)
  BY UninitialisedShape
<1> HIDE DEF T
<1>2. \A r \in T : r \in Place /\ ~Comparable(r, p) /\ \E q \in S : is_prefix(r, q)
  BY <1>1, ExpandShape, PrefixReflexive
<1>3. cells_of({p}) = cells(p)
  BY DEF cells_of
<1>4. cells_of(T) \subseteq cells_of(S) \ cells_of({p})
  <2> SUFFICES ASSUME NEW r \in T, NEW c \in cells(r)
               PROVE  c \in cells_of(S) /\ c \notin cells(p)
    BY <1>3, CellsOfSet
  <2>1. PICK q \in S : is_prefix(r, q)
    BY <1>2
  <2>2. c \in cells(q)
    BY <1>2, <2>1, CellsShrink
  <2>3. c \notin cells(p)
    BY <1>2, CellsDisjoint
  <2> QED BY <2>2, <2>3, CellsOfSet
<1>5. Plain \cap (cells_of(S) \ cells_of({p})) \subseteq cells_of(T)
  <2> SUFFICES ASSUME NEW c \in Plain, c \in cells_of(S), c \notin cells(p)
               PROVE  c \in cells_of(T)
    BY <1>3
  <2>1. PICK q \in S : c \in cells(q)
    BY CellsOfSet
  <2>2. CASE is_prefix(p, q)
    <3>1. PICK r \in expand(q, p) : c \in cells(r)
      BY <2>1, <2>2, ExpandKeeps
    <3>2. r \in T
      BY <1>1, <2>2
    <3> QED BY <3>1, <3>2, CellsOfSet
  <2>3. CASE ~is_prefix(p, q)
    <3>1. ~is_prefix(q, p)
      BY <2>1, CellsShrink
    <3>2. q \in T
      BY <1>1, <2>3, <3>1 DEF Comparable
    <3> QED BY <2>1, <3>2, CellsOfSet
  <2> QED BY <2>2, <2>3
<1>6. ASSUME check_invariant(S) PROVE check_invariant(T)
  <2>1. \A a, b \in S : is_prefix(a, b) => a = b
    BY <1>6 DEF check_invariant
  <2> SUFFICES ASSUME NEW r \in T, NEW s \in T, is_prefix(s, r) PROVE r = s
    BY DEF check_invariant
  <2>2. r \in Place /\ s \in Place
    BY <1>2
  <2>3. PICK q \in S : is_prefix(r, q) /\ (r = q \/ (is_prefix(p, q) /\ r \in expand(q, p)))
    BY <1>1, ExpandShape, PrefixReflexive
  <2>4. PICK t \in S : is_prefix(s, t) /\ (s = t \/ (is_prefix(p, t) /\ s \in expand(t, p)))
    BY <1>1, ExpandShape, PrefixReflexive
  <2>5. q \in Place /\ t \in Place /\ is_prefix(s, q)
    BY <2>2, <2>3, PrefixTransitive
  <2>6. q = t
    BY <2>1, <2>2, <2>4, <2>5, PrefixesComparable
  <2>7. CASE r = q /\ s = t
    BY <2>6, <2>7
  <2>8. CASE is_prefix(p, q) /\ r \in expand(q, p) /\ s \in expand(t, p)
    BY <2>5, <2>6, <2>8, ExpandBeside
  <2>9. CASE r = q /\ is_prefix(p, q)
    BY <1>2, <2>9 DEF Comparable
  <2>10. CASE s = t /\ is_prefix(p, t)
    BY <1>2, <2>10 DEF Comparable
  <2> QED BY <2>3, <2>4, <2>6, <2>7, <2>8, <2>9, <2>10
<1> QED
  BY <1>2, <1>4, <1>5, <1>6 DEF Without, T

LEMMA WithoutMore ==
  ASSUME NEW S, NEW Q, NEW T, Without(S, Q, T), NEW p \in Place
  PROVE  Without(S, Q \cup {p}, set_place_uninitialised(T, p))
<1>1. Without(T, {p}, set_place_uninitialised(T, p))
  BY UninitialiseOne DEF Without
<1>2. cells_of(Q \cup {p}) = cells_of(Q) \cup cells_of({p})
  BY DEF cells_of
<1> QED
  BY <1>1, <1>2 DEF Without

LEMMA UninitialiseAll ==
  ASSUME NEW S, S \subseteq Place, NEW ps \in Seq(Place)
  PROVE  Without(S, ToSet(ps), uninitialise_all(S, ps))
<1> DEFINE D == DOMAIN ps
           Sat(f) == f = [I \in SUBSET D |->
                            IF I = {} THEN S ELSE set_place_uninitialised(f[I \ {Max(I)}], ps[Max(I)])]
           iter == CHOOSE f : Sat(f)
           V == SUBSET Place
           step == [i \in D |-> [T \in V |-> set_place_uninitialised(T, ps[i])]]
           pick == [I \in SUBSET D |-> Max(I)]
<1>1. uninitialise_all(S, ps) = iter[D]
  BY DEF uninitialise_all, FoldLeft, MapThenFoldSet
<1>2. D = 1..Len(ps) /\ D \subseteq Nat /\ IsFiniteSet(D) /\ \A i \in D : ps[i] \in Place
  BY FS_Interval
<1>3. \A I \in SUBSET D : I # {} => Max(I) \in I
  BY <1>2, MaxIn
<1> HIDE DEF D
<1>4. step \in [D -> [V -> V]]
  BY <1>2, UninitialiseOne DEF Without
<1>5. \E g : Sat(g)
  <2>1. \A I \in SUBSET D : I # {} => pick[I] \in I
    BY <1>3
  <2>2. PICK g \in [SUBSET D -> V] : Folded(D, pick, step, S, g)
    <3>1. S \in V
      OBVIOUS
    <3> HIDE DEF step, pick, V
    <3> QED BY <1>2, <1>4, <2>1, <3>1, SetFold
  <2>3. ASSUME NEW I \in SUBSET D
        PROVE  g[I] = IF I = {} THEN S ELSE set_place_uninitialised(g[I \ {Max(I)}], ps[Max(I)])
    <3>1. g[I] = IF I = {} THEN S ELSE step[pick[I]][g[I \ {pick[I]}]]
      <4> HIDE DEF step, pick
      <4> QED BY <2>2 DEF Folded
    <3>2. I # {} => Max(I) \in D /\ g[I \ {Max(I)}] \in V
      BY <1>3
    <3> QED BY <3>1, <3>2
  <2>4. Sat(g)
    BY <2>3
  <2> HIDE DEF Sat
  <2> QED BY <2>4
<1>6. Sat(iter)
  <2> HIDE DEF Sat
  <2> QED BY <1>5
<1> DEFINE W == {I \in SUBSET D : Without(S, {ps[i] : i \in I}, iter[I])}
<1>7. {} \in W
  <2> HIDE DEF iter
  <2>1. iter[{}] = S
    BY <1>6
  <2>2. cells_of({}) = {} /\ {ps[i] : i \in {}} = {}
    BY DEF cells_of
  <2> QED BY <2>1, <2>2 DEF Without
<1>8. ASSUME NEW I \in SUBSET D, I # {}, \A x \in I : I \ {x} \in W PROVE I \in W
  <2> HIDE DEF iter
  <2>1. iter[I] = set_place_uninitialised(iter[I \ {Max(I)}], ps[Max(I)])
    BY <1>6, <1>8
  <2>2. Max(I) \in I /\ ps[Max(I)] \in Place
    BY <1>2, <1>3, <1>8
  <2>3. Without(S, {ps[i] : i \in I \ {Max(I)}}, iter[I \ {Max(I)}])
    BY <1>8, <2>2
  <2>4. {ps[i] : i \in I} = {ps[i] : i \in I \ {Max(I)}} \cup {ps[Max(I)]}
    BY <2>2
  <2>5. Without(S, {ps[i] : i \in I}, iter[I])
    BY <2>1, <2>2, <2>3, <2>4, WithoutMore
  <2> QED BY <2>5
<1>9. \A I \in SUBSET D : I \in W
  <2>1. IsFiniteSet(D)
    BY <1>2
  <2> HIDE DEF W
  <2> QED BY <1>7, <1>8, <2>1, SubsetInduction
<1>10. Without(S, {ps[i] : i \in D}, iter[D])
  <2> HIDE DEF iter
  <2> QED BY <1>9
<1>11. ToSet(ps) = {ps[i] : i \in D}
  BY DEF ToSet, D
<1> HIDE DEF iter
<1> QED
  BY <1>1, <1>10, <1>11

---------------------------------------------------------------------------
(* A place is initialised: T is what the places S are collapsed into, and    *)
(* has all their cells and none that D does not have.                        *)
Collapsed(S, D, T) ==
  /\ T \subseteq Place
  /\ cells_of(S) \subseteq cells_of(T)
  /\ cells_of(T) \subseteq D
  /\ check_invariant(S) => check_invariant(T)

LEMMA CollapseOne ==
  ASSUME NEW S, S \subseteq Place, NEW p \in Place, NEW n \in 1..(Len(p) - 1),
         NEW D, cells_of(S) \subseteq D, on_the_way(p) \subseteq D
  PROVE  Collapsed(S, D, collapse_one(S, p, n))
<1> DEFINE part  == Cut(p, n + 1)
           parts == others(part) \cup {part}
           b     == Cut(p, n)
           T     == (S \ parts) \cup {b}
<1>1. Len(p) \in Nat /\ n \in 1..Len(p) /\ n + 1 \in 1..Len(p) /\ n \in 1..(n + 1)
  BY PlaceShape
<1>2. /\ part \in Place /\ Len(part) = n + 1 /\ b \in Place /\ Len(b) = n
      /\ is_prefix(part, b) /\ Parent(part) = b /\ Front(part) = b /\ is_prefix(p, b)
  BY <1>1, CutPrefix, CutCut, ParentIsCut DEF Parent
<1>3. collapse_one(S, p, n) = IF parts \subseteq S THEN T ELSE S
  BY <1>2 DEF collapse_one, Cut
<1>4. parts = IF part \in fields(b) THEN fields(b) ELSE {part}
  BY <1>2 DEF others
<1> HIDE DEF part, parts
<1>5. ASSUME NEW r \in parts PROVE r \in Place /\ is_prefix(r, b) /\ r # b
  BY <1>2, <1>4, FieldShape
(* Whatever is below b is below one of its parts, b aside.                   *)
<1>6. ASSUME NEW q \in Place, is_prefix(q, b), q # b
      PROVE  \E r \in parts : is_prefix(q, r)
  <2> DEFINE r == Cut(q, Len(b) + 1)
  <2>1. r \in Place /\ Len(r) = Len(b) + 1 /\ is_prefix(q, r) /\ is_prefix(r, b)
        /\ Parent(r) = b /\ r = Append(b, Last(r))
    BY <1>2, <1>6, NextDown
  <2>2. CASE part \in fields(b)
    <3>1. r \in fields(b)
      BY <1>2, <1>6, <2>2, FieldDown
    <3> QED BY <1>4, <2>1, <2>2, <3>1
  <2>3. CASE part \notin fields(b)
    <3>1. Last(part) = "deref" /\ part = Append(b, "deref")
      BY <1>2, <2>3, ChildByLast DEF fields
    <3>2. fields(b) = {}
      BY <1>2, <3>1, PlaceAssumption
    <3>3. Last(r) = "deref"
      BY <1>2, <2>1, <3>2 DEF fields
    <3>4. r = part
      BY <2>1, <3>1, <3>3
    <3> QED BY <1>4, <2>1, <2>3, <3>4
  <2> QED BY <2>2, <2>3
<1>7. CASE parts \subseteq S
  <2>1. T \subseteq Place
    BY <1>2
  <2>2. cells_of(S) \subseteq cells_of(T)
    <3> SUFFICES ASSUME NEW r \in S, NEW c \in cells(r) PROVE c \in cells_of(T)
      BY CellsOfSet
    <3>1. CASE r \in parts
      <4>1. c \in cells(b)
        BY <1>2, <1>5, <3>1, CellsShrink
      <4> QED BY <4>1, CellsOfSet
    <3>2. CASE r \notin parts
      BY <3>2, CellsOfSet
    <3> QED BY <3>1, <3>2
  <2>3. cells_of(T) \subseteq D
    <3> SUFFICES ASSUME NEW c \in cells(b) PROVE c \in D
      BY CellsOfSet
    <3>1. c \in Cell /\ c \in Place /\ is_prefix(c, b)
      BY <1>2, CellsOf
    <3>2. CASE c = b
      <4>1. b \in on_the_way(p)
        <5>1. b \in {SubSeq(p, 1, i) : i \in 1 .. (Len(p) - 1)}
          BY DEF Cut
        <5> QED BY <3>1, <3>2, <5>1 DEF on_the_way
      <4> QED BY <3>2, <4>1
    <3>3. CASE c # b
      <4>1. PICK r \in parts : is_prefix(c, r)
        BY <1>6, <3>1, <3>3
      <4>2. c \in cells(r) /\ r \in S
        BY <1>5, <1>7, <3>1, <4>1, CellsOf
      <4> QED BY <4>2, CellsOfSet
    <3> QED BY <3>2, <3>3
  <2>4. ASSUME check_invariant(S) PROVE check_invariant(T)
    <3>1. \A r, s \in S : is_prefix(r, s) => r = s
      BY <2>4 DEF check_invariant
    <3>2. ASSUME NEW r \in S \ parts PROVE ~is_prefix(r, b) /\ ~is_prefix(b, r)
      <4>1. part \in S /\ r \in Place
        BY <1>4, <1>7, <1>2
      <4>2. ASSUME is_prefix(b, r) PROVE FALSE
        <5>1. is_prefix(part, r)
          BY <1>2, <4>1, <4>2, PrefixTransitive
        <5>2. r = part
          BY <3>1, <4>1, <5>1
        <5> QED BY <1>4, <5>2
      <4>3. ASSUME is_prefix(r, b) PROVE FALSE
        <5>1. r # b
          BY <1>2, <4>1, <4>2, PrefixReflexive
        <5>2. PICK s \in parts : is_prefix(r, s)
          BY <1>6, <4>1, <4>3, <5>1
        <5>3. r = s
          BY <1>7, <3>1, <5>2
        <5> QED BY <5>2, <5>3
      <4> QED BY <4>2, <4>3
    <3> QED BY <3>1, <3>2 DEF check_invariant
  <2> QED BY <1>3, <1>7, <2>1, <2>2, <2>3, <2>4 DEF Collapsed
<1>8. CASE ~(parts \subseteq S)
  BY <1>3, <1>8 DEF Collapsed
<1> QED
  BY <1>7, <1>8

LEMMA CollapseAll ==
  ASSUME NEW S, S \subseteq Place, NEW p \in Place,
         NEW C, cells_of(S) \subseteq C, on_the_way(p) \subseteq C
  PROVE  Collapsed(S, C, collapse(S, p))
<1> DEFINE ns == [i \in 1 .. (Len(p) - 1) |-> Len(p) - i]
           D  == DOMAIN ns
           Sat(f) == f = [I \in SUBSET D |->
                            IF I = {} THEN S ELSE collapse_one(f[I \ {Max(I)}], p, ns[Max(I)])]
           iter == CHOOSE f : Sat(f)
           V == {T \in SUBSET Place : Collapsed(S, C, T)}
           step == [i \in D |-> [T \in V |-> collapse_one(T, p, ns[i])]]
           pick == [I \in SUBSET D |-> Max(I)]
<1>1. collapse(S, p) = iter[D]
  BY DEF collapse, FoldLeft, MapThenFoldSet
<1>2. D \subseteq Nat /\ IsFiniteSet(D) /\ \A i \in D : ns[i] \in 1..(Len(p) - 1)
  <2>1. D = 1..(Len(p) - 1) /\ Len(p) \in Nat
    BY PlaceShape
  <2>2. IsFiniteSet(1..(Len(p) - 1))
    BY <2>1, FS_Interval
  <2>3. \A i \in 1..(Len(p) - 1) : ns[i] = Len(p) - i
    OBVIOUS
  <2> HIDE DEF ns
  <2> QED BY <2>1, <2>2, <2>3
<1>3. \A I \in SUBSET D : I # {} => Max(I) \in I
  BY <1>2, MaxIn
<1> HIDE DEF D, ns
<1>4. \A i \in D : \A T \in V : collapse_one(T, p, ns[i]) \in V
  <2> TAKE i \in D
  <2> TAKE T \in V
  <2>1. ns[i] \in 1..(Len(p) - 1) /\ T \subseteq Place /\ Collapsed(S, C, T) /\ cells_of(T) \subseteq C
    BY <1>2 DEF Collapsed
  <2> DEFINE U == collapse_one(T, p, ns[i])
             m == ns[i]
  <2>2. m \in 1..(Len(p) - 1)
    BY <2>1
  <2> HIDE DEF m
  <2>3. Collapsed(T, C, collapse_one(T, p, m))
    BY <2>1, <2>2, CollapseOne
  <2>4. Collapsed(S, C, collapse_one(T, p, m))
    BY <2>1, <2>3 DEF Collapsed
  <2> QED BY <2>3, <2>4 DEF Collapsed, m
<1>5. step \in [D -> [V -> V]]
  BY <1>4
<1>6. S \in V
  BY DEF Collapsed
<1>7. \E g \in [SUBSET D -> V] : Sat(g)
  <2>1. \A I \in SUBSET D : I # {} => pick[I] \in I
    BY <1>3
  <2>2. PICK g \in [SUBSET D -> V] : Folded(D, pick, step, S, g)
    <3>1. IsFiniteSet(D)
      BY <1>2
    <3> HIDE DEF step, pick, V
    <3> QED BY <1>5, <1>6, <2>1, <3>1, SetFold
  <2>3. ASSUME NEW I \in SUBSET D
        PROVE  g[I] = IF I = {} THEN S ELSE collapse_one(g[I \ {Max(I)}], p, ns[Max(I)])
    <3>1. g[I] = IF I = {} THEN S ELSE step[pick[I]][g[I \ {pick[I]}]]
      <4> HIDE DEF step, pick, V
      <4> QED BY <2>2 DEF Folded
    <3>2. I # {} => Max(I) \in D /\ g[I \ {Max(I)}] \in V
      BY <1>3
    <3> HIDE DEF V
    <3> QED BY <3>1, <3>2
  <2>4. Sat(g)
    <3> HIDE DEF V
    <3> QED BY <2>3
  <2> HIDE DEF Sat, V
  <2> QED BY <2>4
<1>8. Sat(iter)
  <2> HIDE DEF Sat, V
  <2> QED BY <1>7
<1>9. ASSUME NEW I \in SUBSET D, I # {}
      PROVE  Max(I) \in I /\ (iter[I \ {Max(I)}] \in V => iter[I] \in V)
  <2> HIDE DEF iter, V
  <2>1. iter[I] = collapse_one(iter[I \ {Max(I)}], p, ns[Max(I)])
    BY <1>8, <1>9
  <2>2. Max(I) \in I /\ Max(I) \in D
    BY <1>3, <1>9
  <2> QED BY <1>4, <2>1, <2>2
<1>10. iter[{}] = S
  <2> HIDE DEF iter, V
  <2> QED BY <1>8
<1>11. iter[D] \in V
  <2>1. IsFiniteSet(D) /\ iter[{}] \in V
    BY <1>2, <1>6, <1>10
  <2>2. \A I \in SUBSET D : I # {} =>
          pick[I] \in I /\ (iter[I \ {pick[I]}] \in V => iter[I] \in V)
    <3> HIDE DEF iter, V
    <3> QED BY <1>9
  <2> HIDE DEF iter, V, pick
  <2> QED BY <2>1, <2>2, FoldStays
<1> HIDE DEF iter
<1> QED
  BY <1>1, <1>11

(* What an assignment to p makes of S.                                       *)
LEMMA InitialiseOne ==
  ASSUME NEW S, S \subseteq Place, NEW p \in Place,
         NEW C, cells_of(S) \subseteq C, on_the_way(p) \subseteq C
  PROVE  LET T == set_place_initialised(S, p)
         IN  /\ T \subseteq Place
             /\ cells_of(S) \cup cells(p) \subseteq cells_of(T)
             /\ cells_of(T) \subseteq C \cup cells(p)
             /\ check_invariant(S) => check_invariant(T)
<1>1. CASE \E q \in S : is_prefix(p, q)
  <2>1. PICK q \in S : is_prefix(p, q)
    BY <1>1
  <2>2. cells(p) \subseteq cells_of(S)
    BY <2>1, CellsShrink, CellsOfSet
  <2> QED BY <1>1, <2>2 DEF set_place_initialised
<1>2. CASE \A q \in S : ~is_prefix(p, q)
  <2> DEFINE U == {q \in S : ~is_prefix(q, p)} \cup {p}
             D == C \cup cells(p)
  <2>1. set_place_initialised(S, p) = collapse(U, p)
    BY <1>2 DEF set_place_initialised
  <2>2. U \subseteq Place /\ cells_of(U) \subseteq D
    BY CellsOfSet
  <2>3. cells_of(S) \cup cells(p) \subseteq cells_of(U)
    <3>1. cells(p) \subseteq cells_of(U)
      BY CellsOfSet
    <3>2. ASSUME NEW q \in S PROVE cells(q) \subseteq cells_of(U)
      <4>1. CASE is_prefix(q, p)
        BY <3>1, <4>1, CellsShrink
      <4>2. CASE ~is_prefix(q, p)
        BY <4>2, CellsOfSet
      <4> QED BY <4>1, <4>2
    <3> QED BY <3>1, <3>2, CellsOfSet
  <2>4. check_invariant(S) => check_invariant(U)
    BY <1>2 DEF check_invariant
  <2> HIDE DEF U
  <2>5. Collapsed(U, D, collapse(U, p))
    <3>1. on_the_way(p) \subseteq D
      OBVIOUS
    <3> HIDE DEF D
    <3> QED BY <2>2, <3>1, CollapseAll
  <2> QED BY <2>1, <2>3, <2>4, <2>5 DEF Collapsed
<1> QED
  BY <1>1, <1>2

---------------------------------------------------------------------------
(* Where paths meet.                                                         *)
LEMMA JoinSound ==
  ASSUME NEW S, S \subseteq Place, NEW T, T \subseteq Place
  PROVE  /\ join_places(S, T) \subseteq Place
         /\ cells_of(join_places(S, T)) = cells_of(S) \cap cells_of(T)
         /\ check_invariant(S) /\ check_invariant(T) => check_invariant(join_places(S, T))
<1> DEFINE J == join_places(S, T)
<1>1. \A r : r \in J <=> \/ r \in S /\ \E q \in T : is_prefix(r, q)
                         \/ r \in T /\ \E q \in S : is_prefix(r, q)
  BY DEF join_places
<1> HIDE DEF J
<1>2. \A r \in J : r \in Place /\ (\E q \in S : is_prefix(r, q)) /\ (\E q \in T : is_prefix(r, q))
  BY <1>1, PrefixReflexive
<1>3. ASSUME NEW c \in cells_of(J) PROVE c \in cells_of(S) \cap cells_of(T)
  <2>1. PICK r \in J : c \in cells(r)
    BY <1>3, CellsOfSet
  <2>2. PICK q \in S : is_prefix(r, q)
    BY <1>2
  <2>3. PICK s \in T : is_prefix(r, s)
    BY <1>2
  <2>4. c \in cells(q) /\ c \in cells(s)
    BY <1>2, <2>1, <2>2, <2>3, CellsShrink
  <2> QED BY <2>4, CellsOfSet
<1>4. ASSUME NEW c \in cells_of(S) \cap cells_of(T) PROVE c \in cells_of(J)
  <2>1. PICK q \in S : c \in cells(q)
    BY <1>4, CellsOfSet
  <2>2. PICK s \in T : c \in cells(s)
    BY <1>4, CellsOfSet
  <2>3. is_prefix(q, s) \/ is_prefix(s, q)
    BY <2>1, <2>2, CellsOf, PrefixesComparable
  <2>4. q \in J \/ s \in J
    BY <1>1, <2>3
  <2> QED BY <2>1, <2>2, <2>4, CellsOfSet
<1>5. ASSUME check_invariant(S), check_invariant(T) PROVE check_invariant(J)
  <2>1. /\ \A a, b \in S : is_prefix(a, b) => a = b
        /\ \A a, b \in T : is_prefix(a, b) => a = b
    BY <1>5 DEF check_invariant
  <2> SUFFICES ASSUME NEW r \in J, NEW s \in J, is_prefix(s, r) PROVE r = s
    BY DEF check_invariant
  <2>2. r \in Place /\ s \in Place
    BY <1>2
  <2>3. CASE s \in S
    <3>1. PICK q \in S : is_prefix(r, q)
      BY <1>2
    <3>2. s = q
      BY <2>1, <2>2, <2>3, <3>1, PrefixTransitive
    <3> QED BY <2>2, <3>1, <3>2, PrefixAntisymmetric
  <2>4. CASE s \in T
    <3>1. PICK q \in T : is_prefix(r, q)
      BY <1>2
    <3>2. s = q
      BY <2>1, <2>2, <2>4, <3>1, PrefixTransitive
    <3> QED BY <2>2, <3>1, <3>2, PrefixAntisymmetric
  <2> QED BY <1>1, <2>3, <2>4
<1> QED
  BY <1>2, <1>3, <1>4, <1>5 DEF J

---------------------------------------------------------------------------
(* The state S of the analysis where a path has initialised the cells C: no  *)
(* more than it did, all it did without pointers, and no place twice.        *)
Tracks(S, C) ==
  /\ S \subseteq Place /\ check_invariant(S)
  /\ holds(S, C)
  /\ C \cap Plain \subseteq cells_of(S)

LEMMA TracksMoved ==
  ASSUME NEW S, NEW C, Tracks(S, C), NEW ps \in Seq(Place)
  PROVE  Tracks(uninitialise_all(S, ps), Moved(C, ps))
<1>1. Without(S, ToSet(ps), uninitialise_all(S, ps))
  BY UninitialiseAll DEF Tracks
<1> QED
  BY <1>1 DEF Without, Tracks, Moved, holds

LEMMA TracksInitialised ==
  ASSUME NEW S, NEW C, Tracks(S, C), NEW target, target \subseteq Place,
         \A p, q \in target : p = q, Accessible(C, target)
  PROVE  Tracks(initialise_any(S, target), Initialised(C, target))
<1>1. CASE target = {}
  <2>1. cells_of(target) = {}
    BY <1>1 DEF cells_of
  <2> QED BY <1>1, <2>1 DEF initialise_any, Initialised
<1>2. CASE target # {}
  <2> DEFINE p == CHOOSE q \in target : TRUE
             T == set_place_initialised(S, p)
  <2>1. p \in Place /\ target = {p}
    BY <1>2
  <2>2. initialise_any(S, target) = T
    BY <1>2 DEF initialise_any
  <2> HIDE DEF p
  <2>3. on_the_way(p) \subseteq C /\ cells_of(target) = cells(p)
    BY <2>1 DEF Accessible, cells_of
  <2>4. /\ T \subseteq Place
        /\ cells_of(S) \cup cells(p) \subseteq cells_of(T)
        /\ cells_of(T) \subseteq C \cup cells(p)
        /\ check_invariant(S) => check_invariant(T)
    <3>1. S \subseteq Place /\ cells_of(S) \subseteq C
      BY DEF Tracks, holds
    <3> QED BY <2>1, <2>3, <3>1, InitialiseOne
  <2> HIDE DEF T
  <2> QED BY <2>2, <2>3, <2>4 DEF Tracks, holds, Initialised
<1> QED
  BY <1>1, <1>2

LEMMA TracksJoined ==
  ASSUME NEW S, NEW C, Tracks(S, C), NEW T, NEW D, Tracks(T, D)
  PROVE  Tracks(join_places(S, T), C \cap D)
<1>1. /\ join_places(S, T) \subseteq Place
      /\ cells_of(join_places(S, T)) = cells_of(S) \cap cells_of(T)
      /\ check_invariant(join_places(S, T))
  BY JoinSound DEF Tracks
<1> QED
  BY <1>1 DEF Tracks, holds

LEMMA TracksStart == Tracks(Args, cells_of(Args))
<1>1. Args \subseteq Place
  BY PlaceAssumption DEF Locals
<1>2. ASSUME NEW p \in Args, NEW q \in Args, is_prefix(q, p) PROVE p = q
  <2>1. Len(p) = Len(q) /\ p \in Place /\ q \in Place
    BY PlaceAssumption DEF Locals
  <2> QED BY <1>2, <2>1, PlacesEqual, PrefixAgrees
<1> QED
  BY <1>1, <1>2 DEF Tracks, holds, check_invariant

(* The inductive invariant.                                                  *)
TrackingInv ==
  /\ Tracks(def_init_places, initialised)
  /\ elsewhere = [places |-> elsewhere.places, cells |-> elsewhere.cells]
  /\ Tracks(elsewhere.places, elsewhere.cells)

(* On every path of a body the analysis and the run agree in this way.       *)
THEOREM TrackingInvariant == TrackSpec => []TrackingInv
<1>1. TrackInit => TrackingInv
  BY TracksStart DEF TrackInit, Start, TrackingInv, initial_places
<1>2. ASSUME TrackingInv, [TrackNext]_trackvars PROVE TrackingInv'
  <2> USE <1>2
  <2>1. CASE apply_statement
    <3>1. PICK st \in Statements :
            /\ def_init_places' = statement_effect(st, def_init_places)
            /\ initialised' \in statement_run(st, initialised)
            /\ UNCHANGED elsewhere
      BY <2>1 DEF apply_statement
    <3>2. st.moved \in Seq(Place) /\ st.target \subseteq Place /\ \A p, q \in st.target : p = q
      BY StatementsAssumption
    <3> DEFINE S == uninitialise_all(def_init_places, st.moved)
               C == Moved(initialised, st.moved)
    <3>3. Tracks(S, C)
      BY <3>2, TracksMoved DEF TrackingInv
    <3>4. Accessible(C, st.target) /\ initialised' = Initialised(C, st.target)
      BY <3>1 DEF statement_run
    <3>5. def_init_places' = initialise_any(S, st.target)
      BY <3>1 DEF statement_effect
    <3> HIDE DEF S, C
    <3>6. Tracks(initialise_any(S, st.target), Initialised(C, st.target))
      BY <3>2, <3>3, <3>4, TracksInitialised
    <3> QED BY <3>1, <3>4, <3>5, <3>6 DEF TrackingInv
  <2>2. CASE Fork
    BY <2>2 DEF Fork, Here, TrackingInv
  <2>3. CASE Meet
    BY <2>3, TracksJoined DEF Meet, TrackingInv
  <2>4. CASE UNCHANGED trackvars
    BY <2>4 DEF trackvars, TrackingInv
  <2> QED BY <2>1, <2>2, <2>3, <2>4 DEF TrackNext
<1> QED
  BY <1>1, <1>2, PTL DEF TrackSpec

(* A place the analysis calls definitely initialised is.                     *)
THEOREM TrackingSound == TrackSpec => []Sound
<1>1. TrackingInv => Sound
  BY DEF TrackingInv, Tracks, Sound
<1> QED
  BY <1>1, TrackingInvariant, PTL

(* Of locals without pointers the analysis loses nothing.                    *)
THEOREM TrackingExact == TrackSpec => []Exact
<1>1. TrackingInv => Exact
  BY DEF TrackingInv, Tracks, Exact, Plain
<1> QED
  BY <1>1, TrackingInvariant, PTL

---------------------------------------------------------------------------
(* The domain meets the contract of the engine.                              *)
LEMMA StatesMoved ==
  ASSUME NEW S \in States, NEW ps \in Seq(Place)
  PROVE  /\ uninitialise_all(S, ps) \in States
         /\ \A C : holds(S, C) => holds(uninitialise_all(S, ps), Moved(C, ps))
<1>1. Without(S, ToSet(ps), uninitialise_all(S, ps))
  BY UninitialiseAll DEF States
<1> QED
  BY <1>1 DEF Without, States, holds, Moved

AtMostOne(target) == target \subseteq Place /\ \A p, q \in target : p = q

LEMMA StatesInitialised ==
  ASSUME NEW S \in States, NEW target, AtMostOne(target)
  PROVE  /\ initialise_any(S, target) \in States
         /\ \A C : holds(S, C) /\ Accessible(C, target)
                     => holds(initialise_any(S, target), Initialised(C, target))
<1>1. CASE target = {}
  BY <1>1 DEF initialise_any, Initialised, holds
<1>2. CASE target # {}
  <2> DEFINE p == CHOOSE q \in target : TRUE
  <2>1. p \in Place /\ target = {p}
    BY <1>2 DEF AtMostOne
  <2>2. initialise_any(S, target) = set_place_initialised(S, p)
    BY <1>2 DEF initialise_any
  <2> HIDE DEF p
  <2>3. S \subseteq Place /\ check_invariant(S)
    BY DEF States
  <2>4. cells_of(S) \subseteq Cell /\ on_the_way(p) \subseteq Cell
    BY <2>3, CellsOfSet DEF on_the_way, cells
  <2>5. set_place_initialised(S, p) \in States
    BY <2>1, <2>3, <2>4, InitialiseOne DEF States
  <2>6. ASSUME NEW C, holds(S, C), Accessible(C, target)
        PROVE  holds(set_place_initialised(S, p), Initialised(C, target))
    <3>1. cells_of(S) \subseteq C /\ on_the_way(p) \subseteq C /\ cells_of(target) = cells(p)
      BY <2>1, <2>6 DEF holds, Accessible, cells_of
    <3>2. cells_of(set_place_initialised(S, p)) \subseteq C \cup cells(p)
      BY <2>1, <2>3, <3>1, InitialiseOne
    <3> QED BY <3>1, <3>2 DEF holds, Initialised
  <2> QED BY <2>2, <2>5, <2>6
<1> QED
  BY <1>1, <1>2

LEMMA StatesEffect ==
  ASSUME NEW S \in States, NEW ps \in Seq(Place), NEW target, AtMostOne(target)
  PROVE  LET T == initialise_any(uninitialise_all(S, ps), target)
         IN  /\ T \in States
             /\ \A C : holds(S, C) /\ Accessible(Moved(C, ps), target)
                         => holds(T, Initialised(Moved(C, ps), target))
<1> DEFINE U == uninitialise_all(S, ps)
<1>1. U \in States /\ \A C : holds(S, C) => holds(U, Moved(C, ps))
  BY StatesMoved
<1> HIDE DEF U
<1>2. /\ initialise_any(U, target) \in States
      /\ \A C : holds(U, C) /\ Accessible(C, target)
                  => holds(initialise_any(U, target), Initialised(C, target))
  BY <1>1, StatesInitialised
<1>3. initialise_any(U, target) \in States /\
      \A C : holds(S, C) /\ Accessible(Moved(C, ps), target)
               => holds(initialise_any(U, target), Initialised(Moved(C, ps), target))
  BY <1>1, <1>2
<1> QED
  BY <1>3 DEF U

LEMMA LocalsIncomparable ==
  ASSUME NEW S, S \subseteq Locals
  PROVE  S \in States
<1>1. ASSUME NEW p \in S, NEW q \in S, is_prefix(q, p) PROVE p = q
  <2>1. Len(p) = Len(q) /\ p \in Place /\ q \in Place
    BY DEF Locals
  <2> QED BY <1>1, <2>1, PlacesEqual, PrefixAgrees
<1>2. S \subseteq Place
  BY DEF Locals
<1> QED
  BY <1>1, <1>2 DEF States, check_invariant

LEMMA CellsAreCells == \A S : cells_of(S) \subseteq Cell
  BY CellsOfSet DEF cells

LEMMA RunsOnCells ==
  ASSUME NEW C \in Concrete, NEW ps, NEW target
  PROVE  Moved(C, ps) \in Concrete /\ Initialised(Moved(C, ps), target) \in Concrete
  BY CellsAreCells DEF Concrete, Moved, Initialised

(* Terminators as the analysis is given them: at most one place is assigned, *)
(* and none by what a coroutine is dropped with.                             *)
TerminatorShape(t) ==
  /\ t.moved \in Seq(Place) /\ AtMostOne(t.dest)
  /\ t.to \in Seq(Nat) /\ t.cleanup \in Seq(Nat)
  /\ t.drop # {} => t.dest = {}

LEMMA EffectOf ==
  ASSUME NEW t, TerminatorShape(t), NEW S
  PROVE  LET effect == terminator_effect(t, S)
             after  == initialise_any(uninitialise_all(S, t.moved), t.dest)
             N == Len(t.to)
             M == Len(t.cleanup)
         IN  /\ N \in Nat /\ M \in Nat
             /\ effect = [i \in 1..(N + M) |-> IF i <= N THEN <<t.to[i], after>>
                                               ELSE <<t.cleanup[i - N], top_places>>]
             /\ ToSet(t.to) = {t.to[i] : i \in 1..N}
             /\ ToSet(t.cleanup) = {t.cleanup[i] : i \in 1..M}
<1> DEFINE after == initialise_any(uninitialise_all(S, t.moved), t.dest)
           N == Len(t.to)
           M == Len(t.cleanup)
           f == [i \in DOMAIN t.to |-> <<t.to[i], after>>]
           g == [i \in DOMAIN t.cleanup |-> <<t.cleanup[i], top_places>>]
<1>1. t.to \in Seq(Nat) /\ t.cleanup \in Seq(Nat)
  BY DEF TerminatorShape
<1>2. N \in Nat /\ M \in Nat /\ DOMAIN t.to = 1..N /\ DOMAIN t.cleanup = 1..M
  BY <1>1
<1>3. terminator_effect(t, S) = f \o g
  BY DEF terminator_effect
<1> HIDE DEF after, N, M
<1>4. f \in Seq(Nat \X {after}) /\ g \in Seq(Nat \X {top_places}) /\ Len(f) = N /\ Len(g) = M
  <2>1. \A i \in 1..N : t.to[i] \in Nat
    BY <1>1, <1>2 DEF N
  <2>2. \A i \in 1..M : t.cleanup[i] \in Nat
    BY <1>1, <1>2 DEF M
  <2>3. f = [i \in 1..N |-> <<t.to[i], after>>] /\ g = [i \in 1..M |-> <<t.cleanup[i], top_places>>]
    BY <1>2
  <2> QED BY <1>2, <2>1, <2>2, <2>3
<1>5. /\ \A i \in 1..N : f[i] = <<t.to[i], after>>
      /\ \A i \in 1..M : g[i] = <<t.cleanup[i], top_places>>
  BY <1>2
<1> HIDE DEF f, g
<1>6. f \o g = [i \in 1..(N + M) |-> IF i <= N THEN f[i] ELSE g[i - N]]
  <2> DEFINE V == Nat \X {after, top_places}
  <2>1. f \in Seq(V) /\ g \in Seq(V)
    BY <1>4
  <2> HIDE DEF V
  <2>2. f \o g = [i \in 1..(Len(f) + Len(g)) |-> IF i <= Len(f) THEN f[i] ELSE g[i - Len(f)]]
    BY <2>1, JoinedAt
  <2> QED BY <1>4, <2>2
<1>7. f \o g = [i \in 1..(N + M) |-> IF i <= N THEN <<t.to[i], after>>
                                     ELSE <<t.cleanup[i - N], top_places>>]
  <2>1. \A i \in 1..(N + M) : IF i <= N THEN i \in 1..N ELSE i - N \in 1..M
    BY <1>2
  <2> QED BY <1>5, <1>6, <2>1
<1>8. ToSet(t.to) = {t.to[i] : i \in 1..N} /\ ToSet(t.cleanup) = {t.cleanup[i] : i \in 1..M}
  BY <1>2 DEF ToSet
<1> QED
  BY <1>2, <1>3, <1>7, <1>8 DEF after, N, M

LEMMA TerminatorStates ==
  ASSUME NEW t, TerminatorShape(t), NEW S \in States
  PROVE  terminator_effect(t, S) \in Seq(successors_of(t) \X States)
<1> DEFINE after == initialise_any(uninitialise_all(S, t.moved), t.dest)
           N == Len(t.to)
           M == Len(t.cleanup)
           effect == terminator_effect(t, S)
<1>1. /\ N \in Nat /\ M \in Nat
      /\ effect = [i \in 1..(N + M) |-> IF i <= N THEN <<t.to[i], after>>
                                        ELSE <<t.cleanup[i - N], top_places>>]
      /\ ToSet(t.to) = {t.to[i] : i \in 1..N}
      /\ ToSet(t.cleanup) = {t.cleanup[i] : i \in 1..M}
  BY EffectOf
<1>2. after \in States
  BY StatesEffect DEF TerminatorShape
<1>3. top_places \in States
  BY DEF States, top_places, check_invariant
<1> HIDE DEF after, N, M, effect
<1>4. \A i \in 1..N : t.to[i] \in successors_of(t)
  BY <1>1 DEF successors_of
<1>5. \A i \in 1..M : t.cleanup[i] \in successors_of(t)
  BY <1>1 DEF successors_of
<1>6. \A i \in 1..(N + M) : effect[i] \in successors_of(t) \X States
  <2>1. \A i \in 1..(N + M) : IF i <= N THEN i \in 1..N ELSE i - N \in 1..M
    BY <1>1
  <2> QED BY <1>1, <1>2, <1>3, <1>4, <1>5, <2>1
<1>7. N + M \in Nat /\ DOMAIN effect = 1..(N + M) /\ effect = [i \in 1..(N + M) |-> effect[i]]
  BY <1>1
<1>8. effect \in Seq(successors_of(t) \X States)
  BY <1>6, <1>7
<1> QED
  BY <1>8 DEF effect

LEMMA TerminatorRuns ==
  ASSUME NEW t, TerminatorShape(t), NEW C \in Concrete, NEW e \in terminator_run(t, C)
  PROVE  /\ e[1] \in successors_of(t) /\ e[2] \in Concrete
         /\ \A S \in States : holds(S, C) =>
              LET effect == terminator_effect(t, S)
              IN  (\E i \in DOMAIN effect : effect[i][1] = e[1])
                    => \E i \in DOMAIN effect : effect[i][1] = e[1] /\ holds(effect[i][2], e[2])
<1> DEFINE Mv == Moved(C, t.moved)
<1>1. \/ /\ e[1] \in ToSet(t.to) /\ Accessible(Mv, t.dest) /\ e[2] = Initialised(Mv, t.dest)
      \/ e[1] \in ToSet(t.cleanup) /\ e[2] = Mv
      \/ e[1] \in t.drop /\ e[2] = Mv
  <2>1. \/ /\ Accessible(Mv, t.dest)
           /\ \E b \in ToSet(t.to) : e = <<b, Initialised(Mv, t.dest)>>
        \/ \E b \in ToSet(t.cleanup) \cup t.drop : e = <<b, Mv>>
    BY DEF terminator_run
  <2> HIDE DEF Mv
  <2> QED BY <2>1
<1>2. e[1] \in successors_of(t)
  BY <1>1 DEF successors_of
<1>3. e[2] \in Concrete
  BY <1>1, RunsOnCells
<1>4. ASSUME NEW S \in States, holds(S, C),
             NEW k \in DOMAIN terminator_effect(t, S), terminator_effect(t, S)[k][1] = e[1]
      PROVE  \E i \in DOMAIN terminator_effect(t, S) :
               /\ terminator_effect(t, S)[i][1] = e[1]
               /\ holds(terminator_effect(t, S)[i][2], e[2])
  <2> DEFINE after == initialise_any(uninitialise_all(S, t.moved), t.dest)
             N == Len(t.to)
             M == Len(t.cleanup)
             effect == terminator_effect(t, S)
  <2>1. /\ N \in Nat /\ M \in Nat
        /\ effect = [i \in 1..(N + M) |-> IF i <= N THEN <<t.to[i], after>>
                                          ELSE <<t.cleanup[i - N], top_places>>]
        /\ ToSet(t.to) = {t.to[i] : i \in 1..N}
        /\ ToSet(t.cleanup) = {t.cleanup[i] : i \in 1..M}
    BY EffectOf
  <2>2. Accessible(Mv, t.dest) => holds(after, Initialised(Mv, t.dest))
    BY <1>4, StatesEffect DEF TerminatorShape
  <2>3. \A D : holds(top_places, D)
    BY DEF holds, top_places, cells_of
  <2>4. k \in DOMAIN effect /\ effect[k][1] = e[1]
    BY <1>4
  <2>5. t.drop # {} => Accessible(Mv, t.dest) /\ Initialised(Mv, t.dest) = Mv
    BY DEF TerminatorShape, Accessible, Initialised, cells_of
  <2> HIDE DEF after, N, M, effect, Mv
  <2>6. /\ \A i \in 1..N : i \in DOMAIN effect /\ effect[i] = <<t.to[i], after>>
        /\ \A i \in 1..M : i + N \in DOMAIN effect /\ effect[i + N] = <<t.cleanup[i], top_places>>
    <3>1. DOMAIN effect = 1..(N + M)
      BY <2>1
    <3>2. \A i \in 1..N : i \in 1..(N + M) /\ i <= N
      BY <2>1
    <3>3. \A i \in 1..M : i + N \in 1..(N + M) /\ ~(i + N <= N) /\ (i + N) - N = i
      BY <2>1
    <3> QED BY <2>1, <3>1, <3>2, <3>3
  <2>7. \E i \in DOMAIN effect : effect[i][1] = e[1] /\ holds(effect[i][2], e[2])
    <3>1. CASE e[1] \in ToSet(t.cleanup)
      <4>1. PICK j \in 1..M : t.cleanup[j] = e[1]
        BY <2>1, <3>1
      <4>2. j + N \in DOMAIN effect /\ effect[j + N][1] = e[1] /\ effect[j + N][2] = top_places
        BY <2>6, <4>1
      <4> QED BY <2>3, <4>2
    <3>2. CASE e[1] \in ToSet(t.to) /\ Accessible(Mv, t.dest) /\ e[2] = Initialised(Mv, t.dest)
      <4>1. PICK j \in 1..N : t.to[j] = e[1]
        BY <2>1, <3>2
      <4>2. j \in DOMAIN effect /\ effect[j][1] = e[1] /\ effect[j][2] = after
        BY <2>6, <4>1
      <4> QED BY <2>2, <3>2, <4>2
    <3>3. CASE e[1] \in t.drop /\ e[2] = Mv
      <4>1. holds(after, e[2])
        BY <2>2, <2>5, <3>3
      <4>2. effect[k][2] = after \/ effect[k][2] = top_places
        BY <2>1, <2>4
      <4> QED BY <2>3, <2>4, <4>1, <4>2
    <3> QED BY <1>1, <3>1, <3>2, <3>3
  <2> QED BY <2>7 DEF effect
<1> QED
  BY <1>2, <1>3, <1>4

(* The domain is one the engine can be run with.                             *)
THEOREM DomainMeetsEngine ==
  ASSUME \A B \in PlaceBodies : Analysis!IsBody(B), \A t \in Terminators : TerminatorShape(t)
  PROVE  Analysis!EngineAssumption
<1>1. bottom_places \in States /\ \A B \in PlaceBodies : initial_places(B) \in States
  BY LocalsIncomparable, PlaceAssumption DEF bottom_places, initial_places
<1>2. \A S, T \in States : join_places(S, T) \in States
  BY JoinSound DEF States
<1>3. \A st \in Statements, S \in States : statement_effect(st, S) \in States
  BY StatementsAssumption, StatesEffect DEF statement_effect, AtMostOne
<1>4. \A t \in Terminators, S \in States :
        terminator_effect(t, S) \in Seq(successors_of(t) \X States)
  BY TerminatorStates
<1> QED
  BY <1>1, <1>2, <1>3, <1>4 DEF Analysis!EngineAssumption

(* And its runs are described by what it computes: the contract of the trait *)
(* AbstractState.                                                            *)
THEOREM DomainMeetsContract ==
  ASSUME \A t \in Terminators : TerminatorShape(t)
  PROVE  Analysis!DomainAssumption
<1>1. \A B \in PlaceBodies : \A C \in initial_cells(B) : C \in Concrete /\ holds(initial_places(B), C)
  BY CellsAreCells DEF initial_cells, initial_places, Concrete, holds
<1>2. \A S, T \in States, C \in Concrete : holds(S, C) \/ holds(T, C) => holds(join_places(S, T), C)
  BY JoinSound DEF States, holds
<1>3. ASSUME NEW st \in Statements, NEW C \in Concrete, NEW D \in statement_run(st, C)
      PROVE  D \in Concrete /\ \A S \in States : holds(S, C) => holds(statement_effect(st, S), D)
  <2>1. Accessible(Moved(C, st.moved), st.target) /\ D = Initialised(Moved(C, st.moved), st.target)
    BY DEF statement_run
  <2>2. st.moved \in Seq(Place) /\ AtMostOne(st.target)
    BY StatementsAssumption DEF AtMostOne
  <2>3. D \in Concrete
    BY <2>1, RunsOnCells
  <2> QED BY <2>1, <2>2, <2>3, StatesEffect DEF statement_effect
<1>4. \A t \in Terminators, C \in Concrete : \A e \in terminator_run(t, C) :
        /\ e[1] \in successors_of(t) /\ e[2] \in Concrete
        /\ \A S \in States : is_supported(t) /\ holds(S, C) =>
             LET effect == terminator_effect(t, S)
             IN  (\E i \in DOMAIN effect : effect[i][1] = e[1])
                   => \E i \in DOMAIN effect : effect[i][1] = e[1] /\ holds(effect[i][2], e[2])
  BY TerminatorRuns
<1> QED
  BY <1>1, <1>2, <1>3, <1>4 DEF Analysis!DomainAssumption
=============================================================================
