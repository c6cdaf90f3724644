--------------------------- MODULE ShimLibraries ---------------------------
(* The libraries a crate includes: the work lists of lib.rs over the       *)
(* interface files found in the load path, and the shims each file adds to *)
(* the shim registry.  The interface file of a library names the libraries *)
(* that have to be included with it (its `export_libs`).                   *)
EXTENDS FiniteSets, Naturals, Sequences

CONSTANTS
  FoundLibs,    \* the libraries found in the load path
  LibNames,     \* the names that attributes and interface files mention
  ExportLibs,   \* the export_libs of each found library
  Shims         \* the shims of each found library, as <<kind, item>>

ASSUME LibraryAssumption ==
  /\ FoundLibs \subseteq LibNames
  /\ ExportLibs \in [FoundLibs -> SUBSET LibNames]

VARIABLES
  includes,              \* still to be included
  export_includes,       \* still to be included and exported
  included_libs,
  export_included_libs,
  sources                \* the libraries added to the shim registry, in order

libvars == <<includes, export_includes, included_libs, export_included_libs, sources>>

NoLibraries ==
  /\ includes = {} /\ export_includes = {}
  /\ included_libs = {} /\ export_included_libs = {}
  /\ sources = << >>

(* add_source: the shims of the file are appended to the registry, its     *)
(* export_libs are returned.                                               *)
add_source(lib) == sources' = Append(sources, lib)

(* One turn of the loop over the includes.  The set is ordered by name, so *)
(* any element can be the first.  A missing library is reported.           *)
IncludeLibrary ==
  \E lib \in includes :
    /\ IF lib \in FoundLibs
       THEN /\ included_libs' = included_libs \cup {lib}
            /\ add_source(lib)
            /\ includes' = (includes \ {lib}) \cup (ExportLibs[lib] \ included_libs')
       ELSE /\ includes' = includes \ {lib}
            /\ UNCHANGED <<included_libs, sources>>
    /\ UNCHANGED <<export_includes, export_included_libs>>

\* Mutant: a library that was included already is added again.
mut_exports_again ==
  \E lib \in export_includes :
    /\ includes = {}
    /\ IF lib \in FoundLibs
       THEN /\ export_included_libs' = export_included_libs \cup {lib}
            /\ add_source(lib)
            /\ export_includes' = (export_includes \ {lib})
                    \cup (ExportLibs[lib] \ (included_libs \cup export_included_libs'))
       ELSE /\ export_includes' = export_includes \ {lib}
            /\ UNCHANGED <<export_included_libs, sources>>
    /\ UNCHANGED <<includes, included_libs>>

(* One turn of the loop over the export_includes, which runs after the     *)
(* other one.  A library that was included already is exported, and        *)
(* neither added again nor searched for further libraries.                 *)
ExportLibrary ==
  \E lib \in export_includes :
    /\ includes = {}
    /\ IF lib \notin FoundLibs
       THEN /\ export_includes' = export_includes \ {lib}
            /\ UNCHANGED <<export_included_libs, sources>>
       ELSE /\ export_included_libs' = export_included_libs \cup {lib}
            /\ IF lib \in included_libs
               THEN /\ export_includes' = export_includes \ {lib}
                    /\ UNCHANGED sources
               ELSE /\ add_source(lib)
                    /\ export_includes' = (export_includes \ {lib})
                         \cup (ExportLibs[lib] \ (included_libs \cup export_included_libs'))
    /\ UNCHANGED <<includes, included_libs>>

LibrariesLoaded == includes = {} /\ export_includes = {}

(* The shims of one kind, in the order in which the sources were added. *)
SourceShims(kind) ==
  [i \in DOMAIN sources |-> {s[2] : s \in {t \in Shims[sources[i]] : t[1] = kind}}]

-----------------------------------------------------------------------------

(* What libraries bring in: the least set that holds those of the roots    *)
(* that are found, and the found export_libs of its members.               *)
Closed(libs) == \A l \in libs : ExportLibs[l] \cap FoundLibs \subseteq libs

BroughtIn(roots, libs) ==
  /\ Closed(libs) /\ roots \cap FoundLibs \subseteq libs
  /\ \A other \in SUBSET FoundLibs :
       Closed(other) /\ roots \cap FoundLibs \subseteq other => libs \subseteq other
=============================================================================
