---------------------------- MODULE PlaceTracking ----------------------------
(***************************************************************************)
(* The domain of InitializedPlaces along the paths of a body: statements    *)
(* change what is initialised, and where paths meet their states are       *)
(* joined.  The state of the analysis is kept beside what the run itself   *)
(* guarantees, the cells that every path so far has initialised.           *)
(***************************************************************************)
EXTENDS InitializedPlaces

CONSTANT Statements

ASSUME StatementsAssumption ==
  \A st \in Statements :
    /\ st.moved \in Seq(Place)
    /\ st.target \subseteq Place /\ \A p, q \in st.target : p = q

VARIABLES
  def_init_places,   \* the state of the analysis on the path at hand
  initialised,       \* what that path initialised
  elsewhere          \* both of these on another path

trackvars == <<def_init_places, initialised, elsewhere>>

Start == [places |-> initial_places({}), cells |-> cells_of(Args)]
Here  == [places |-> def_init_places, cells |-> initialised]

TrackInit ==
  /\ def_init_places = Start.places
  /\ initialised = Start.cells
  /\ elsewhere = Start

\* The borrow checker has seen to it that operands are initialised.
apply_statement ==
  \E st \in Statements :
    /\ st.target # {} => cells_of(ToSet(st.moved)) \subseteq initialised
    /\ def_init_places' = statement_effect(st, def_init_places)
    /\ initialised' \in statement_run(st, initialised)
    /\ UNCHANGED elsewhere

\* Another path is taken up from where this one is.
Fork ==
  /\ elsewhere' = Here
  /\ UNCHANGED <<def_init_places, initialised>>

Meet ==
  /\ def_init_places' = join_places(def_init_places, elsewhere.places)
  /\ initialised' = initialised \cap elsewhere.cells
  /\ UNCHANGED elsewhere

TrackNext == apply_statement \/ Fork \/ Meet
TrackSpec == TrackInit /\ [][TrackNext]_trackvars

-----------------------------------------------------------------------------
(* Properties. *)

\* A place the analysis calls definitely initialised is: whatever path led
\* here initialised all its cells, and none was moved out of since.
Sound == holds(def_init_places, initialised)

\* Of a local without pointers the analysis loses nothing: what every path has
\* initialised is in its set, though places were expanded, collapsed and
\* intersected on the way.
Exact ==
  LET plain == {c \in Cell : \A p \in Place : is_prefix(p, <<c[1]>>) => Last(p) # "deref"}
  IN  initialised \cap plain \subseteq cells_of(def_init_places)

=============================================================================
