----------------------------- MODULE MCCaesium -----------------------------
(* Small instances of CaesiumLang for TLC.                                 *)
EXTENDS CaesiumRefinement, TLC

MCNoVarFunctions  == {NoArgs}
MCArgFunctions    == {NoArgs} \cup {[y \in {x} |-> 1] : x \in Var}
MCSymmetry        == Permutations(Thread) \cup Permutations(AllocId)
                       \cup Permutations(Var)
=============================================================================
