------------------------------ MODULE MCCrate ------------------------------
(* Instances of OutputFiles: a crate with a function, a trait with a       *)
(* required and a provided method, an impl of it, a derived impl, and a    *)
(* function with a closure that has a closure of its own.                  *)
EXTENDS OutputFiles

MCFunctionOrder == <<"helper", "meth", "prov", "eq", "wrap">>
MCClosureOrder  == <<"outer", "inner">>
MCKind          == [outer |-> "FnMut", inner |-> "FnOnce"]
MCImplOrder     == <<"I", "D">>
MCImplOf == [helper |-> "none", meth |-> "I", prov |-> "none", eq |-> "D", wrap |-> "none",
             outer |-> "none", inner |-> "none", ext_m |-> "X"]
MCTraits     == {"T", "U"}
MCTraitOf    == [I |-> "T", D |-> "Eq", X |-> "Eq"]
MCAssocFns   == [T |-> {"req", "prov"}, U |-> {}]
MCTraitDeps  == [T |-> {"U"}, U |-> {}]
MCSelfType   == [I |-> "S", D |-> "S", X |-> "none"]

(* Two libraries that export each other, and a third that clashes. *)
MCExportLibs == [closures |-> {"base"}, base |-> {"closures", "gone"}, clash |-> {}]
MCShims ==
  [closures |-> {<<"trait", "FnOnce">>, <<"trait", "FnMut">>, <<"trait", "Fn">>},
   base     |-> {<<"function", "ext">>, <<"trait", "Eq">>, <<"trait_impl", "X">>},
   clash    |-> {<<"function", "ext">>}]

MCItemPath ==
  [helper |-> << <<"helper">> >>, meth |-> << <<"S">>, <<"meth">> >>,
   prov |-> << <<"T">>, <<"prov">> >>, eq |-> << <<"S">>, <<"eq">> >>,
   wrap |-> << <<"wrap">> >>, outer |-> << <<"wrap">>, <<"closure0">> >>,
   inner |-> << <<"wrap">>, <<"closure0">>, <<"closure0">> >>]

Items == {"helper", "meth", "prov", "eq", "wrap", "outer", "inner", "req", "S", "I", "D", "none"}

Base ==
  [attrs |-> [i \in Items |-> IF i \in {"I", "D", "eq", "none"} THEN {} ELSE {"spec"}],
   export_as |-> [f \in Bodies |-> "none"],
   calls |-> [helper |-> {"ext"}, meth |-> {"prov", "helper"}, prov |-> {}, eq |-> {"ext_m"},
              wrap |-> {"outer", "meth"}, outer |-> {"helper"}, inner |-> {}],
   includes |-> {"closures"}, export_includes |-> {},
   no_assumption |-> FALSE, skip_unsupported |-> TRUE, unsupported |-> {}, fatal |-> {}]

AttrSets ==
  { {}, {"verify"}, {"skip"}, {"spec", "ignore"}, {"spec", "trust_me"}, {"spec", "only_spec"},
    {"spec", "code_shim"}, {"shim"}, {"spec", "derive_spec"}, {"trust_me", "code_shim"} }

Annotations ==
  {[Base EXCEPT !.attrs = [@ EXCEPT ![i] = a], !.no_assumption = n] :
     i \in Items \ {"none"}, a \in AttrSets, n \in BOOLEAN}

Calls ==
  {[Base EXCEPT !.calls = [@ EXCEPT !["outer"] = {"inner"}]],
   [Base EXCEPT !.calls = [@ EXCEPT !["helper"] = {"ext2"}]]}
  \cup {[Base EXCEPT !.export_as = [@ EXCEPT ![f] = d]] :
          f \in {"helper", "wrap"}, d \in {"helper", "ext", "ext2", "prov"}}
  \cup {[Base EXCEPT !.export_as = [@ EXCEPT !["helper"] = "ext2"],
                    !.calls = [@ EXCEPT !["wrap"] = {"ext2"}]]}

Failures ==
  {[Base EXCEPT !.unsupported = {f}, !.skip_unsupported = s] : f \in Bodies, s \in BOOLEAN}
  \cup {[Base EXCEPT !.fatal = {f}] : f \in Bodies}
  \cup {[Base EXCEPT !.attrs = [@ EXCEPT !["S"] = {"derive_spec"}], !.unsupported = {f}] :
          f \in {"eq", "meth"}}

Inclusions ==
  {[Base EXCEPT !.includes = i, !.export_includes = e] :
     i \in SUBSET {"closures", "base", "gone"}, e \in SUBSET {"closures", "base"}}
  \cup {[Base EXCEPT !.export_includes = {"clash"}]}

Removed == [Base EXCEPT !.attrs = [@ EXCEPT !["helper"] = {}],
                        !.calls = [@ EXCEPT !["meth"] = {}, !["outer"] = {}]]

MCPrograms == Annotations \cup Calls \cup Failures \cup Inclusions
MCEdits    == {Base, Removed}
=============================================================================
