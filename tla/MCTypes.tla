------------------------------ MODULE MCTypes ------------------------------
(* Instances of AdtOutput: crates with three ADTs, where fields mention     *)
(* other ADTs directly, in a reference and as an argument.                  *)
EXTENDS AdtOutput

Ref(t)     == Reference(t)
Fld(t)     == [ty |-> t, annotated |-> FALSE]
Variant(ts) == [fields |-> [i \in DOMAIN ts |-> Fld(ts[i])]]

Struct(ts) ==
  [kind |-> "struct", bounds |-> << >>, variants |-> <<Variant(ts)>>, invariant |-> FALSE,
   attrs_ok |-> TRUE, extra_deps |-> {}, repr_ok |-> TRUE]
Enum(tss) ==
  [Struct(<< >>) EXCEPT !.kind = "enum", !.variants = [i \in DOMAIN tss |-> Variant(tss[i])]]
Invariant(s) == [s EXCEPT !.invariant = TRUE]

New(d, i) == [k |-> "construct", adt |-> d, i |-> i]

A == Use("A", << >>)
B == Use("B", << >>)
C == Use("C", << >>)

Crate(a, b, c, shims, fs) ==
  [adts |-> [d \in {"A", "B", "C"} |-> IF d = "A" THEN a ELSE IF d = "B" THEN b ELSE c],
   shims |-> shims, functions |-> fs]

(* Two functions, with the places of their variants. *)
FunctionLists ==
  { << <<A>>, <<B>> >>, << <<B, A>>, <<C>> >>, << <<Ref(A)>>, <<A, New("A", 1)>> >>,
    << <<New("B", 0)>>, <<Use("A", <<C>>), New("C", 2)>> >>, << <<Unsupported>>, <<C, B>> >> }

FieldTs == {Simple, Unsupported, Ref(A), B, Use("C", <<Ref(B)>>), Compound(<<C, A>>)}

Shapes == {Struct(<<t, u>>) : t \in FieldTs, u \in {Simple, Ref(A), Unsupported}}
            \cup {Enum(<< <<t>>, <<u, Simple>> >>) : t \in FieldTs, u \in {Simple, C, Unsupported}}
            \cup {Invariant(Struct(<<Ref(t), u>>)) : t \in {A, B}, u \in {Simple, Unsupported}}

Leaves == {Struct(<<Simple>>), Enum(<< <<Simple>>, << >> >>), Invariant(Struct(<<Ref(C)>>))}

Nested == {Crate(a, b, c, {}, fs) :
             a \in Shapes, b \in {s \in Shapes : s.kind = "enum"} \cup {Struct(<<C>>)},
             c \in Leaves, fs \in FunctionLists}

(* Attributes, bounds, annotated fields, dependencies, and libraries. *)
Odd(s) ==
  {[s EXCEPT !.attrs_ok = FALSE], [s EXCEPT !.repr_ok = FALSE]}
  \cup {[s EXCEPT !.bounds = <<t>>] : t \in {Simple, A, Ref(B), C, Unsupported}}
  \cup {[s EXCEPT !.extra_deps = {d}] : d \in {"A", "B", "C"}}
  \cup {[s EXCEPT !.variants = [@ EXCEPT ![1].fields = [@ EXCEPT ![1].annotated = TRUE]]]}

Plain == {Struct(<<C>>), Enum(<< <<Ref(A)>>, <<C>> >>), Invariant(Struct(<<Ref(A), B>>)),
          Struct(<<Use("C", <<B>>), Simple>>)}

Unusual ==
  {Crate(a, b, c, {}, fs) :
     a \in UNION {Odd(s) : s \in Plain \cup {Invariant(Struct(<<Use("C", <<A>>)>>))}},
     b \in Odd(Struct(<<C>>)) \cup {Struct(<<C>>), Enum(<< <<Simple>>, <<A>> >>)},
     c \in Leaves, fs \in FunctionLists}
  \cup {Crate(a, b, c, shims, fs) :
          a \in Plain, b \in Plain, c \in Leaves,
          shims \in SUBSET {"A", "B", "C"} \ {{}}, fs \in FunctionLists}

MCCrates == Nested \cup Unusual

MCTypeSet == {Simple, Unsupported, A, B, C, Ref(A), Ref(B), Ref(C), Use("A", <<C>>),
              Use("C", <<A>>), Use("C", <<B>>), Use("C", <<Ref(B)>>), Compound(<<C, A>>)}

-----------------------------------------------------------------------------
(* The ADTs that a type mentions, and whether it is supported. *)
RECURSIVE AdtsOf(_), SupportedType(_)
AdtsOf(t) == (IF t.k = "adt" THEN {t.adt} ELSE {})
               \cup UNION {AdtsOf(t.args[i]) : i \in DOMAIN t.args}
SupportedType(t) == t.k # "unsupported" /\ \A i \in DOMAIN t.args : SupportedType(t.args[i])

FieldTypes(d) == UNION {{variants(d)[i].fields[j].ty : j \in DOMAIN variants(d)[i].fields} :
                          i \in DOMAIN variants(d)}
BoundTypes(d) == {def(d).bounds[i] : i \in DOMAIN def(d).bounds}

InFields(d) == UNION {AdtsOf(t) : t \in FieldTypes(d)}
InBounds(d) == UNION {AdtsOf(t) : t \in BoundTypes(d)}

(* Libraries export ADTs by their literals; the others are defined here.   *)
(* What is listed by attributes has to come earlier, but is not translated. *)
Fields    == [d \in Adt |-> IF d \in crate.shims THEN {} ELSE InFields(d)]
Mentions  == [d \in Adt |-> IF d \in crate.shims THEN {} ELSE InFields(d) \cup InBounds(d)]
DependsOn == [d \in Adt |-> IF d \in crate.shims THEN {} ELSE Mentions[d] \cup def(d).extra_deps]

RECURSIVE Closed(_, _)
Closed(ds, rel) == LET more == ds \cup UNION {rel[d] : d \in ds}
                   IN  IF more = ds THEN ds ELSE Closed(more, rel)

RequestTypes(rs) == {rs[i] : i \in {j \in DOMAIN rs : rs[j].k # "construct"}}
Requested(rs) ==
  UNION {AdtsOf(t) : t \in RequestTypes(rs)}
    \cup {rs[i].adt : i \in {j \in DOMAIN rs : rs[j].k = "construct"}}

Reached(rs, rel) == Closed(Requested(rs), rel) \ crate.shims

Supported(rs, rel) ==
  /\ \A t \in RequestTypes(rs) : SupportedType(t)
  /\ \A d \in Reached(rs, rel) :
       /\ \A t \in FieldTypes(d) : SupportedType(t)
       /\ def(d).attrs_ok /\ def(d).repr_ok

(* Recursion goes from an ADT directly to itself; a struct then has an     *)
(* invariant, and no type is annotated for a field whose layout depends on *)
(* it.                                                                     *)
RecursionSupported(d) ==
  /\ \A e \in DependsOn[d] \ {d} : d \notin Closed({e}, DependsOn)
  /\ d \notin InBounds(d)
  /\ is_struct(d) /\ d \in InFields(d) \cup def(d).extra_deps => def(d).invariant
  /\ \A i \in DOMAIN variants(d) : \A j \in DOMAIN variants(d)[i].fields :
       variants(d)[i].fields[j].annotated => d \notin LaidOut[variants(d)[i].fields[j].ty]

(* Libraries export enums, but not the variants of enums. *)
Constructible(rs) ==
  \A i \in DOMAIN rs :
    rs[i].k = "construct" /\ rs[i].adt \in crate.shims => is_struct(rs[i].adt) \/ rs[i].i = 0

Good(rs) ==
  /\ Supported(rs, Mentions)
  /\ \A d \in Reached(rs, Mentions) : \A t \in BoundTypes(d) : SupportedType(t)
  /\ Constructible(rs)
  /\ \A d \in Reached(rs, DependsOn) : RecursionSupported(d)

(* A function whose types are supported is translated, whatever became of  *)
(* the types of the functions before it; and once the files are written,   *)
(* what was translated is supported down to the last field.                *)
OutcomesRight ==
  /\ \A i \in DOMAIN results : results[i].outcome # "done" => ~Good(functions[i])
  /\ phase = "panic" => \E i \in DOMAIN results : ~Good(functions[i])
  /\ phase = "written" =>
       \A i \in DOMAIN results : results[i].outcome = "done" => Supported(functions[i], Fields)
=============================================================================
