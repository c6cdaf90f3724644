--------------------------- MODULE SpecAttributes --------------------------
(* The specification of a function or a closure from its attributes, which *)
(* are handled one at a time (verbose_function_spec_parser.rs) and then    *)
(* pushed to the builder of the specification (radium/specs/functions.rs). *)
(* Terms are left out: a clause is the number of the attribute it is from. *)
EXTENDS ScopeInstances

VARIABLES
  spec,         \* ParsedSpecInfo, with the number of attributes handled
  proof_info,   \* the requirements of the function besides its specification
  trait_specs,  \* the attributes of traits to specialize, by requirement
  builder,      \* LiteralSpecBuilder
  parsed        \* none, captures, attributes, default, push, attach, yes, error

specvars == <<spec, proof_info, trait_specs, builder, parsed>>

(* program.fn: did, attrs, arity, arg_names (one for each argument), ret,  *)
(* closure ("", Fn, FnMut, FnOnce) and captures.                           *)
fn     == program.fn
Attr   == fn.attrs[spec.at + 1]
InSpec(stage) == Running /\ did = "" /\ AllScopes /\ parsed = stage
Handling(kinds) == InSpec("attributes") /\ spec.at < Len(fn.attrs) /\ Attr.kind \in kinds
in_closure == fn.closure # ""

SpecInit ==
  /\ spec = [at |-> 0, params |-> << >>, args |-> << >>, preconditions |-> << >>,
             postconditions |-> << >>, existentials |-> << >>, ret |-> 0, got_args |-> FALSE,
             ok_mode |-> FALSE, ok_exists |-> << >>, ok_requires |-> << >>, ok_ensures |-> << >>]
  /\ proof_info = [linktime_assumptions |-> << >>, others |-> {}]
  /\ trait_specs = [k \in {} |-> << >>]
  /\ builder = [params |-> << >>, args |-> << >>, pre |-> << >>, post |-> << >>, existential |-> << >>,
                ret |-> 0, has_spec |-> FALSE, coq_names |-> {}]
  /\ parsed = IF fn.did = "" THEN "none" ELSE IF in_closure THEN "captures" ELSE "attributes"

-----------------------------------------------------------------------------
(* The builder: parameters must be new names; an existential must not have *)
(* the name of a parameter, but its own name is not recorded.              *)
add_params(b, ps) ==
  IF \E i \in DOMAIN ps : ps[i] \in b.coq_names \cup {ps[j] : j \in 1 .. i - 1} THEN {}
  ELSE {[b EXCEPT !.params = @ \o ps, !.coq_names = @ \cup ToSet(ps)]}
add_existentials(b, xs) ==
  IF ToSet(xs) \cap b.coq_names # {} THEN {} ELSE {[b EXCEPT !.existential = @ \o xs]}

Fail == parsed' = "error" /\ UNCHANGED <<spec, proof_info, trait_specs, builder>>

(* Closures: a parameter per capture, an existential for the new value of  *)
(* each mutable one, then a ghost variable per mutable capture, and one    *)
(* for the closure itself if it is called by mutable reference.            *)
Captures(kinds) == Chosen(fn.captures, {i \in DOMAIN fn.captures : fn.captures[i].kind \in kinds})
Ghosts ==
  LET muts == Captures({"mut"})
  IN  [i \in DOMAIN muts |-> <<"ghost", muts[i].base>>]
        \o (IF fn.closure = "FnMut" THEN <<<<"ghost", "clos">>>> ELSE << >>)
Observations ==
  IF fn.closure = "FnMut" THEN <<[observe |-> <<"ghost", "clos">>]>>
  ELSE [i \in DOMAIN Captures({"mut"}) |-> [observe |-> Ghosts[i]]]

ParseCaptures ==
  /\ InSpec("captures")
  /\ LET all == Captures({"value", "shr", "mut"})
         mut == Captures({"mut"})
         b1  == add_params(builder, [i \in DOMAIN all |-> <<"capture", all[i].base, all[i].proj>>])
         b2  == UNION {add_existentials(b, [i \in DOMAIN mut |-> <<"new", mut[i].base, mut[i].proj>>]) : b \in b1}
         b3  == UNION {add_params(b, Ghosts) : b \in b2}
     IN  IF b3 = {} THEN Fail
         ELSE /\ builder' = [(CHOOSE b \in b3 : TRUE) EXCEPT !.post = @ \o Observations, !.args = <<"captures">>]
              /\ parsed' = "attributes"
              /\ UNCHANGED <<spec, proof_info, trait_specs>>
  /\ UNCHANGED <<scopevars, used>>

-----------------------------------------------------------------------------
(* The attributes. *)
Handled(s) == spec' = [s EXCEPT !.at = @ + 1]

HandleBinders ==
  /\ Handling({"ok", "params", "exists"})
  /\ LET explicit == [i \in DOMAIN Attr.names |-> [name |-> Attr.names[i], explicit |-> TRUE, ty |-> 0]]
     IN  Handled(CASE Attr.kind = "ok"     -> [spec EXCEPT !.ok_mode = TRUE]
                   [] Attr.kind = "params" -> [spec EXCEPT !.params = @ \o explicit]
                   [] spec.ok_mode         -> [spec EXCEPT !.ok_exists = @ \o Attr.names]
                   [] OTHER                -> [spec EXCEPT !.existentials = @ \o Attr.names])
  /\ UNCHANGED <<proof_info, trait_specs, builder, parsed, scopevars, used>>

(* An argument whose refinement is a name gives that parameter its type,   *)
(* if it has none yet.                                                     *)
add_param_type_annot(ps, name, ty) ==
  LET i == SelectInSeq(ps, LAMBDA p : p.name = name)
  IN  IF ps[i].ty = 0 THEN [ps EXCEPT ![i].ty = ty] ELSE ps
Annotated(ps, args) ==
  LET annotate(qs, i) == IF args[i] # << >> THEN add_param_type_annot(qs, args[i], i) ELSE qs
  IN  FoldLeft(annotate, ps, [i \in DOMAIN args |-> i])
Known(ps, name) == \E i \in DOMAIN ps : ps[i].name = name

HandleArgs ==
  /\ Handling({"args"})
  /\ LET idents == {i \in DOMAIN Attr.names : Attr.names[i] # << >>}
     IN  IF Len(Attr.names) # fn.arity \/ \E i \in idents : ~Known(spec.params, Attr.names[i])
         THEN Fail
         ELSE /\ Handled([spec EXCEPT !.got_args = TRUE, !.args = @ \o Attr.names,
                            !.params = Annotated(@, Attr.names)])
              /\ UNCHANGED <<proof_info, trait_specs, builder, parsed>>
  /\ UNCHANGED <<scopevars, used>>

(* The requirements that T.attr may be attached to, if T is a parameter in *)
(* scope: the first one found in the map of the scope.                     *)
\* Mutant: the parameter the attribute is named on is not compared.
mut_any_parameter(path) ==
  {k \in DOMAIN scopes[fn.did].cells : scopes[fn.did].cells[k].state # "empty" /\ path[2] \in Attrs[k[1]]}
determine_trait_attr_requirement_origin(path) ==
  {k \in DOMAIN scopes[fn.did].cells :
     /\ path[1] \in ToSet(generics_of(fn.did)) /\ k[2][1] = <<path[1]>>
     /\ scopes[fn.did].cells[k].state # "empty" /\ path[2] \in Attrs[k[1]]}

RequireTraitAttr ==
  /\ Handling({"requires"}) /\ Attr.form = "trait"
  /\ LET found == determine_trait_attr_requirement_origin(Attr.path)
     IN  IF in_closure \/ found = {} THEN Fail
         ELSE \E k \in found :
                LET before == IF k \in DOMAIN trait_specs THEN trait_specs[k] ELSE << >>
                IN  IF \E i \in DOMAIN before : before[i] = Attr.path[2] THEN Fail
                    ELSE /\ trait_specs' = [q \in DOMAIN trait_specs \cup {k} |->
                                              IF q = k THEN Append(before, Attr.path[2]) ELSE trait_specs[q]]
                         /\ Handled(spec)
                         /\ UNCHANGED <<proof_info, builder, parsed>>
  /\ UNCHANGED <<scopevars, used>>

HandleRequires ==
  /\ Handling({"requires"}) /\ Attr.form # "trait"
  /\ LET n == spec.at + 1
     IN  CASE Attr.form = "linktime" /\ in_closure -> Fail
           [] Attr.form = "linktime" ->
                /\ proof_info' = [proof_info EXCEPT !.linktime_assumptions = Append(@, n)]
                /\ Handled(spec) /\ UNCHANGED <<trait_specs, builder, parsed>>
           [] Attr.form # "linktime" /\ spec.ok_mode /\ Attr.form # "pure" -> Fail
           [] OTHER ->
                /\ Handled(IF spec.ok_mode THEN [spec EXCEPT !.ok_requires = Append(@, n)]
                           ELSE [spec EXCEPT !.preconditions = Append(@, n)])
                /\ UNCHANGED <<proof_info, trait_specs, builder, parsed>>
  /\ UNCHANGED <<scopevars, used>>

HandleEnsures ==
  /\ Handling({"ensures", "observe", "returns"})
  /\ LET n == spec.at + 1
     IN  IF Attr.kind = "ensures" /\ spec.ok_mode /\ Attr.form # "pure" THEN Fail
         ELSE /\ Handled(CASE Attr.kind = "returns" -> [spec EXCEPT !.ret = n]
                           [] Attr.kind = "ensures" /\ spec.ok_mode -> [spec EXCEPT !.ok_ensures = Append(@, n)]
                           [] OTHER -> [spec EXCEPT !.postconditions = Append(@, [clause |-> n])])
              /\ UNCHANGED <<proof_info, trait_specs, builder, parsed>>
  /\ UNCHANGED <<scopevars, used>>

HandleOther ==
  /\ Handling({"tactics", "unsafe_elctx", "context", "verify", "unknown"})
  /\ IF Attr.kind = "unknown" THEN Fail
     ELSE /\ proof_info' = [proof_info EXCEPT !.others = @ \cup ({spec.at + 1} \ {n \in {spec.at + 1} : Attr.kind = "verify"})]
          /\ Handled(spec) /\ UNCHANGED <<trait_specs, builder, parsed>>
  /\ UNCHANGED <<scopevars, used>>

-----------------------------------------------------------------------------
(* What the attributes left open. *)
ret == <<"ret">>

(* The two cases of a fallible function as postconditions on the result.   *)
assemble_fallible_spec(s) ==
  [s EXCEPT !.postconditions =
     @ \o <<[case |-> "success", requires |-> s.ok_requires, exists |-> s.ok_exists, ensures |-> s.ok_ensures],
            [case |-> "failure", negated |-> s.ok_requires]>>]

add_default_spec ==
  /\ InSpec("attributes") /\ spec.at = Len(fn.attrs)
  /\ LET implicit == [i \in DOMAIN fn.arg_names |-> [name |-> fn.arg_names[i], explicit |-> FALSE, ty |-> 0]]
         s1 == IF spec.got_args THEN spec
               ELSE [spec EXCEPT !.params = @ \o implicit, !.args = fn.arg_names, !.got_args = TRUE]
         s2 == IF spec.ret # 0 THEN s1
               ELSE [s1 EXCEPT !.existentials = Append(@, ret), !.ret = -1]
     IN  IF spec.ok_mode /\ (spec.ret # 0 \/ fn.ret \notin {"option", "result"}) THEN Fail
         ELSE /\ spec' = IF spec.ok_mode THEN assemble_fallible_spec(s2) ELSE s2
              /\ parsed' = "push"
              /\ UNCHANGED <<proof_info, trait_specs, builder>>
  /\ UNCHANGED <<scopevars, used>>

push_to_builder ==
  /\ InSpec("push")
  /\ LET ps == [i \in DOMAIN spec.params |-> spec.params[i].name]
         bs == UNION {add_existentials(b, spec.existentials) : b \in add_params(builder, ps)}
     IN  IF bs = {} THEN Fail
         ELSE /\ builder' = [(CHOOSE b \in bs : TRUE) EXCEPT
                               !.args = @ \o spec.args, !.pre = @ \o spec.preconditions,
                               !.post = @ \o spec.postconditions, !.ret = spec.ret,
                               !.has_spec = spec.got_args]
              /\ parsed' = IF in_closure THEN "yes" ELSE "attach"
              /\ UNCHANGED <<spec, proof_info, trait_specs>>
  /\ UNCHANGED <<scopevars, used>>

(* The attributes override those of their requirements from now on.        *)
attach_trait_attr_requirement ==
  /\ InSpec("attach")
  /\ scopes' = [scopes EXCEPT ![fn.did].cells =
                  [k \in DOMAIN @ |-> [@[k] EXCEPT !.overridden = k \in DOMAIN trait_specs]]]
  /\ parsed' = "yes"
  /\ UNCHANGED <<spec, proof_info, trait_specs, builder, used>>
  /\ UNCHANGED <<did, pass, todo, reqs, cells, names, status>>

ParseSpec ==
  \/ ParseCaptures
  \/ HandleBinders \/ HandleArgs \/ RequireTraitAttr \/ HandleRequires \/ HandleEnsures \/ HandleOther
  \/ add_default_spec \/ push_to_builder \/ attach_trait_attr_requirement
=============================================================================
