------------------------- MODULE CaesiumRefinement -------------------------
(* CaesiumLang implements BlockMemory: a flat heap with lock states behaves *)
(* like separate objects that are read and written in one step.             *)
EXTENDS CaesiumLang

\* The object an allocation stands for: its bytes while it is alive.
ObjectOf(aid) ==
  LET x == allocs[aid]
  IN  [alive    |-> x.al_alive,
       on_stack |-> x.al_kind = "StackAlloc",
       bytes    |-> IF x.al_alive
                    THEN [i \in 1 .. x.al_len |->
                            heap[x.al_start + i - 1].hc_value]
                    ELSE <<>>]

ObjectsOfFrame(cf) == {cf[x].l.loc_p : x \in live(cf)}

objects == [aid \in DOMAIN allocs |-> ObjectOf(aid)]
stacks  == [t \in Thread |-> [i \in DOMAIN frames[t] |-> ObjectsOfFrame(frames[t][i])]]

ObjectSizes ==
  AccessSizes \cup BlockSizes \cup {0} \cup UNION {{f[x] : x \in DOMAIN f} : f \in Functions}

CastValues(v) == {mem_cast(v, ot) : ot \in OpTypes}
IntsDiffer(v, w) == IsInt(v) /\ IsInt(w) /\ v # w
IntsAgree(v, w)  == IsInt(v) /\ IsInt(w) /\ v = w

Objects == INSTANCE BlockMemory WITH
  BlockId <- AllocId, Owner <- Thread, Bytes <- Byte, Init0 <- MPoison,
  Sizes <- ObjectSizes,
  Cast <- CastValues, Differ <- IntsDiffer, Agree <- IntsAgree,
  Bool <- val_of_bool,
  blocks <- objects,
  stack  <- stacks

\* Every behaviour of the operational semantics is one of the object memory:
\* an access takes effect at its second step, on the bytes of one object
\* that is alive, and touches nothing else; a return destroys the objects of
\* its own frame and no others.
ImplementsObjects == Objects!BMSpec
=============================================================================
