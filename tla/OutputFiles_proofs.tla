------------------------- MODULE OutputFiles_proofs -------------------------
(* What OutputFiles promises of the runs of the frontend, for every crate, *)
(* every set of libraries and any number of runs: proofs that are edited   *)
(* by hand are kept, libraries are loaded once, closures are translated    *)
(* before what calls them, and what is called has a specification.         *)
EXTENDS OutputFiles, FixedPoints

-----------------------------------------------------------------------------
(* What the actions do to the phase and to the proof files.                *)

\* A run that is going on ends by forgetting what it knows, or goes on to a
\* phase after the loading of the libraries.
LEMMA OtherPhases ==
  ASSUME \/ RegisterShims \/ RegisterFunctions \/ RegisterTraits \/ RegisterImpls
         \/ TranslateNext \/ TranslateEnd \/ Assemble \/ Write
  PROVE  phase' \notin {"idle", "libraries"}
<1>1. CASE RegisterShims
  BY <1>1 DEF RegisterShims
<1>2. CASE RegisterFunctions
  BY <1>2 DEF RegisterFunctions
<1>3. CASE RegisterTraits
  BY <1>3 DEF RegisterTraits
<1>4. CASE RegisterImpls
  BY <1>4 DEF RegisterImpls
<1>5. CASE TranslateNext
  <2>1. phase = "translate"
    BY <1>5 DEF TranslateNext
  <2>2. CASE phase' = phase
    BY <2>1, <2>2
  <2>3. CASE phase' # phase
    <3>1. \E outcome : translate_function(Head(todo), outcome)
      BY <1>5, <2>3 DEF TranslateNext
    <3>2. PICK outcome : translate_function(Head(todo), outcome)
      BY <3>1
    <3> QED
      BY <2>1, <3>2 DEF translate_function
  <2> QED
    BY <2>2, <2>3
<1>6. CASE TranslateEnd \/ Assemble
  BY <1>6 DEF TranslateEnd, Assemble
<1>7. CASE Write
  BY <1>7 DEF Write, WriteInterface, PurgeGenerated, WriteSpecifications, WriteTemplates,
     CreateProof, FillProof, WriteProofsDune
<1> QED
  BY <1>1, <1>2, <1>3, <1>4, <1>5, <1>6, <1>7

LEMMA TranslatePhases ==
  ASSUME TranslateCrate
  PROVE  phase' \notin {"templates", "proofs", "fill", "done"}
<1>1. CASE LoadLibraries
  BY <1>1 DEF LoadLibraries, cratevars
<1>2. CASE RegisterShims
  BY <1>2 DEF RegisterShims
<1>3. CASE RegisterFunctions
  BY <1>3 DEF RegisterFunctions
<1>4. CASE RegisterTraits
  BY <1>4 DEF RegisterTraits
<1>5. CASE RegisterImpls
  BY <1>5 DEF RegisterImpls
<1>6. CASE TranslateNext
  <2>1. phase = "translate"
    BY <1>6 DEF TranslateNext
  <2>2. CASE phase' = phase
    BY <2>1, <2>2
  <2>3. CASE phase' # phase
    <3>1. \E outcome : translate_function(Head(todo), outcome)
      BY <1>6, <2>3 DEF TranslateNext
    <3>2. PICK outcome : translate_function(Head(todo), outcome)
      BY <3>1
    <3> QED
      BY <2>1, <3>2 DEF translate_function
  <2> QED
    BY <2>2, <2>3
<1>7. CASE TranslateEnd \/ Assemble
  BY <1>7 DEF TranslateEnd, Assemble
<1> QED
  BY <1>1, <1>2, <1>3, <1>4, <1>5, <1>6, <1>7 DEF TranslateCrate

-----------------------------------------------------------------------------
(* Proofs that are edited by hand.                                         *)

\* A script is only written to a file that this run has created.
FillsItsOwn ==
  phase = "fill" => /\ Head(todo_proofs) \in DOMAIN proofs
                    /\ proofs[Head(todo_proofs)] = "torn"

EditedKept ==
  \A file \in DOMAIN proofs :
    proofs[file] = "edited" => file \in DOMAIN proofs' /\ proofs'[file] = "edited"

LEMMA CreateKeeps ==
  ASSUME CreateProof
  PROVE  FillsItsOwn' /\ EditedKept
<1> DEFINE file == Head(todo_proofs)
<1>1. CASE file \in DOMAIN proofs
  BY <1>1 DEF CreateProof, FillsItsOwn, EditedKept
<1>2. CASE file \notin DOMAIN proofs
  <2>1. proofs' = Created(file) /\ todo_proofs' = todo_proofs
    BY <1>2 DEF CreateProof
  <2>3. file \in DOMAIN proofs' /\ proofs'[file] = "torn"
    BY <2>1 DEF Created
  <2>4. \A f \in DOMAIN proofs : f \in DOMAIN proofs' /\ proofs'[f] = proofs[f]
    BY <1>2, <2>1 DEF Created
  <2> HIDE DEF file
  <2>5. FillsItsOwn'
    BY <2>1, <2>3 DEF FillsItsOwn, file
  <2> QED
    BY <2>4, <2>5 DEF EditedKept
<1> QED
  BY <1>1, <1>2

LEMMA FillKeeps ==
  ASSUME FillsItsOwn, FillProof
  PROVE  FillsItsOwn' /\ EditedKept
<1>1. /\ phase = "fill" /\ phase' = "proofs"
      /\ proofs' = [proofs EXCEPT ![Head(todo_proofs)] = "script"]
  BY DEF FillProof
<1>2. proofs[Head(todo_proofs)] = "torn"
  BY <1>1 DEF FillsItsOwn
<1>3. \A f \in DOMAIN proofs : f # Head(todo_proofs) => proofs'[f] = proofs[f]
  BY <1>1
<1>4. DOMAIN proofs' = DOMAIN proofs
  BY <1>1
<1> QED
  BY <1>1, <1>2, <1>3, <1>4 DEF FillsItsOwn, EditedKept

LEMMA ProofsNext ==
  FillsItsOwn /\ [Next]_allvars => FillsItsOwn' /\ EditedKept
<1> SUFFICES ASSUME FillsItsOwn, [Next]_allvars
             PROVE  FillsItsOwn' /\ EditedKept
  OBVIOUS
<1>1. CASE UNCHANGED allvars
  BY <1>1 DEF allvars, cratevars, files, process, FillsItsOwn, EditedKept
<1>2. CASE Start
  BY <1>2 DEF Start, Begin, files, FillsItsOwn, EditedKept
<1>3. CASE TranslateCrate /\ UNCHANGED <<files, process>>
  <2>1. phase' # "fill" /\ proofs' = proofs
    BY <1>3, TranslatePhases DEF files
  <2> QED
    BY <2>1 DEF FillsItsOwn, EditedKept
<1>4. CASE CreateProof
  BY <1>4, CreateKeeps
<1>5. CASE FillProof
  BY <1>5, FillKeeps
<1>6. CASE \/ WriteInterface \/ PurgeGenerated \/ WriteSpecifications \/ WriteTemplates
           \/ WriteProofsDune
  <2>1. phase' # "fill" /\ proofs' = proofs
    BY <1>6 DEF WriteInterface, PurgeGenerated, WriteSpecifications, WriteTemplates,
       WriteProofsDune
  <2> QED
    BY <2>1 DEF FillsItsOwn, EditedKept
<1>7. CASE Exit \/ Kill
  <2>1. phase' = "idle" /\ proofs' = proofs
    BY <1>7 DEF Exit, Kill, Forget, files
  <2> QED
    BY <2>1 DEF FillsItsOwn, EditedKept
<1>8. CASE Edit
  <2>1. phase' = "idle" /\ proofs' = proofs
    BY <1>8 DEF Edit, cratevars, files
  <2> QED
    BY <2>1 DEF FillsItsOwn, EditedKept
<1>9. CASE EditProof
  <2>1. phase' = "idle"
    BY <1>9 DEF EditProof, cratevars
  <2>2. PICK file \in DOMAIN proofs : proofs' = [proofs EXCEPT ![file] = "edited"]
    BY <1>9 DEF EditProof
  <2>3. \A f \in DOMAIN proofs : proofs[f] = "edited" => proofs'[f] = "edited"
    BY <2>2
  <2> QED
    BY <2>1, <2>2, <2>3 DEF FillsItsOwn, EditedKept
<1> QED
  BY <1>1, <1>2, <1>3, <1>4, <1>5, <1>6, <1>7, <1>8, <1>9 DEF Next, Write

LEMMA ProofsInit == Init => FillsItsOwn
BY DEF Init, NothingTranslated, FillsItsOwn

\* What a user has written into a file of the proof directory is never
\* overwritten by write_proofs, and the file is never removed, in any number
\* of runs, finished, failed or killed, and whatever the crate becomes
\* between them.
THEOREM ProofsAreKept == Spec => ProofsKept
<1>1. FillsItsOwn /\ [Next]_allvars => EditedKept
  BY ProofsNext
<1>2. EditedKept =>
        [\A file \in DOMAIN proofs :
           proofs[file] = "edited" => file \in DOMAIN proofs' /\ proofs'[file] = "edited"]_allvars
  BY DEF EditedKept
<1> QED
  BY ProofsInit, ProofsNext, <1>1, <1>2, PTL DEF Spec, ProofsKept

-----------------------------------------------------------------------------
(* Libraries.                                                              *)

Added    == included_libs \cup export_included_libs
Pending  == includes \cup export_includes
Roots    == program.includes \cup program.export_includes

\* While the work lists are gone through, what was added and what is still
\* to be included are apart from each other, and together they hold what the
\* libraries seen so far bring in, and nothing else.
SourcesOnce ==
  /\ sources \in Seq(FoundLibs)
  /\ \A i, j \in DOMAIN sources : sources[i] = sources[j] => i = j
  /\ \A l : l \in Added <=> \E i \in DOMAIN sources : sources[i] = l

WorkLists ==
  /\ includes \cap included_libs = {}
  /\ export_includes \cap export_included_libs = {}
  /\ includes # {} => export_included_libs = {}

Reached ==
  /\ Roots \cap FoundLibs \subseteq Added \cup Pending
  /\ \A l \in Added : ExportLibs[l] \cap FoundLibs \subseteq Added \cup Pending
  /\ \A other \in SUBSET FoundLibs :
       Closed(other) /\ Roots \cap FoundLibs \subseteq other
         => (Added \cup Pending) \cap FoundLibs \subseteq other

LibrariesInv ==
  /\ phase = "idle" => NoLibraries
  /\ phase = "libraries" => SourcesOnce /\ WorkLists /\ Reached

\* A library that was not added yet is added at the end.
LEMMA AddSource ==
  ASSUME SourcesOnce, NEW lib \in FoundLibs, lib \notin Added,
         sources' = Append(sources, lib), Added' = Added \cup {lib}
  PROVE  SourcesOnce'
<1>1. /\ sources \in Seq(FoundLibs) /\ Len(sources) \in Nat
      /\ DOMAIN sources = 1 .. Len(sources)
  BY DEF SourcesOnce
<1>2. \A i \in DOMAIN sources : sources[i] # lib
  BY DEF SourcesOnce
<1>3. /\ sources' \in Seq(FoundLibs) /\ Len(sources') = Len(sources) + 1
      /\ \A i \in 1 .. Len(sources) : sources'[i] = sources[i]
      /\ sources'[Len(sources) + 1] = lib
  BY <1>1
<1>4. DOMAIN sources' = 1 .. (Len(sources) + 1)
  BY <1>3
<1>5. \A i \in DOMAIN sources' : i \in DOMAIN sources \/ i = Len(sources) + 1
  BY <1>1, <1>4
<1>6. \A i, j \in DOMAIN sources' : sources'[i] = sources'[j] => i = j
  BY <1>1, <1>2, <1>3, <1>5 DEF SourcesOnce
<1>7. \A l : l \in Added' <=> \E i \in DOMAIN sources' : sources'[i] = l
  BY <1>1, <1>3, <1>4, <1>5 DEF SourcesOnce
<1> QED
  BY <1>3, <1>6, <1>7 DEF SourcesOnce

\* A library that is added brings in the libraries it exports.
LEMMA Reaches ==
  ASSUME Reached, NEW lib \in FoundLibs, lib \in Pending, program' = program,
         Added' = Added \cup {lib},
         \A l : l \in Added' \cup Pending' <=> l \in Added \cup Pending \cup ExportLibs[lib]
  PROVE  Reached'
<1>1. Roots' = Roots
  BY DEF Roots
<1>2. Roots' \cap FoundLibs \subseteq Added' \cup Pending'
  BY <1>1 DEF Reached
<1>3. \A l \in Added' : ExportLibs[l] \cap FoundLibs \subseteq Added' \cup Pending'
  BY DEF Reached
<1>4. ASSUME NEW other \in SUBSET FoundLibs, Closed(other), Roots \cap FoundLibs \subseteq other
      PROVE  (Added' \cup Pending') \cap FoundLibs \subseteq other
  <2>1. (Added \cup Pending) \cap FoundLibs \subseteq other
    BY <1>4 DEF Reached
  <2>2. lib \in other
    BY <2>1
  <2>3. ExportLibs[lib] \cap FoundLibs \subseteq other
    BY <1>4, <2>2 DEF Closed
  <2> QED
    BY <2>1, <2>3
<1> QED
  BY <1>1, <1>2, <1>3, <1>4 DEF Reached, Closed

\* A step that adds no library leaves what is reached as it is.
LEMMA ReachesTheSame ==
  ASSUME Reached, program' = program, Added' = Added,
         \A l \in FoundLibs : l \in Added' \cup Pending' <=> l \in Added \cup Pending
  PROVE  Reached'
BY DEF Reached, Closed, Roots

LEMMA IncludeKeeps ==
  ASSUME SourcesOnce, WorkLists, Reached, IncludeLibrary, program' = program
  PROVE  SourcesOnce' /\ WorkLists' /\ Reached'
<1>1. PICK lib \in includes :
        /\ IF lib \in FoundLibs
           THEN /\ included_libs' = included_libs \cup {lib}
                /\ sources' = Append(sources, lib)
                /\ includes' = (includes \ {lib}) \cup (ExportLibs[lib] \ included_libs')
           ELSE /\ includes' = includes \ {lib}
                /\ included_libs' = included_libs /\ sources' = sources
        /\ export_includes' = export_includes
        /\ export_included_libs' = export_included_libs
  BY DEF IncludeLibrary, add_source
<1>2. export_included_libs = {} /\ lib \notin included_libs
  BY <1>1 DEF WorkLists
<1>3. WorkLists'
  BY <1>1, <1>2 DEF WorkLists
<1>4. lib \in Pending /\ lib \notin Added
  BY <1>1, <1>2 DEF Pending, Added
<1>5. CASE lib \in FoundLibs
  <2>1. Added' = Added \cup {lib}
    BY <1>1, <1>5 DEF Added
  <2>2. \A l : l \in Added' \cup Pending' <=> l \in Added \cup Pending \cup ExportLibs[lib]
    BY <1>1, <1>5 DEF Added, Pending
  <2>3. SourcesOnce'
    BY <1>1, <1>4, <1>5, <2>1, AddSource
  <2>4. Reached'
    BY <1>4, <1>5, <2>1, <2>2, Reaches
  <2> QED
    BY <1>3, <2>3, <2>4
<1>6. CASE lib \notin FoundLibs
  <2>1. Added' = Added /\ sources' = sources
    BY <1>1, <1>6 DEF Added
  <2>3. \A l \in FoundLibs : l \in Added' \cup Pending' <=> l \in Added \cup Pending
    BY <1>1, <1>6, <2>1 DEF Pending
  <2>4. SourcesOnce'
    BY <2>1 DEF SourcesOnce
  <2>5. Reached'
    BY <2>1, <2>3, ReachesTheSame
  <2> QED
    BY <1>3, <2>4, <2>5
<1> QED
  BY <1>5, <1>6

LEMMA ExportKeeps ==
  ASSUME SourcesOnce, WorkLists, Reached, ExportLibrary, program' = program
  PROVE  SourcesOnce' /\ WorkLists' /\ Reached'
<1>1. PICK lib \in export_includes :
        /\ includes = {}
        /\ IF lib \notin FoundLibs
           THEN /\ export_includes' = export_includes \ {lib}
                /\ export_included_libs' = export_included_libs /\ sources' = sources
           ELSE /\ export_included_libs' = export_included_libs \cup {lib}
                /\ IF lib \in included_libs
                   THEN /\ export_includes' = export_includes \ {lib}
                        /\ sources' = sources
                   ELSE /\ sources' = Append(sources, lib)
                        /\ export_includes' = (export_includes \ {lib})
                             \cup (ExportLibs[lib] \ (included_libs \cup export_included_libs'))
        /\ includes' = includes /\ included_libs' = included_libs
  BY DEF ExportLibrary, add_source
<1>2. lib \notin export_included_libs /\ lib \in Pending
  BY <1>1 DEF WorkLists, Pending
<1>3. WorkLists'
  BY <1>1 DEF WorkLists
<1>4. CASE lib \in FoundLibs /\ lib \notin included_libs
  <2>1. Added' = Added \cup {lib} /\ lib \notin Added
    BY <1>1, <1>2, <1>4 DEF Added
  <2>2. \A l : l \in Added' \cup Pending' <=> l \in Added \cup Pending \cup ExportLibs[lib]
    BY <1>1, <1>4 DEF Added, Pending
  <2>3. SourcesOnce'
    BY <1>1, <1>4, <2>1, AddSource
  <2>4. Reached'
    BY <1>2, <1>4, <2>1, <2>2, Reaches
  <2> QED
    BY <1>3, <2>3, <2>4
<1>5. CASE lib \notin FoundLibs \/ lib \in included_libs
  <2>1. Added' = Added /\ sources' = sources
    BY <1>1, <1>5 DEF Added
  <2>2. Pending' = Pending \ {lib}
    BY <1>1, <1>5 DEF Pending
  <2>3. \A l \in FoundLibs : l \in Added' \cup Pending' <=> l \in Added \cup Pending
    BY <1>5, <2>1, <2>2 DEF Added
  <2>4. SourcesOnce'
    BY <2>1 DEF SourcesOnce
  <2>5. Reached'
    BY <2>1, <2>3, ReachesTheSame
  <2> QED
    BY <1>3, <2>4, <2>5
<1> QED
  BY <1>4, <1>5

LEMMA LibrariesNext ==
  LibrariesInv /\ [Next]_allvars => LibrariesInv'
<1> SUFFICES ASSUME LibrariesInv, [Next]_allvars
             PROVE  LibrariesInv'
  OBVIOUS
<1>1. ASSUME phase' = phase, libvars' = libvars, program' = program \/ phase = "idle"
      PROVE  LibrariesInv'
  <2>1. /\ includes' = includes /\ export_includes' = export_includes
        /\ included_libs' = included_libs /\ export_included_libs' = export_included_libs
        /\ sources' = sources
    BY <1>1 DEF libvars
  <2>2. phase = "idle" => LibrariesInv'
    BY <1>1, <2>1 DEF LibrariesInv, NoLibraries
  <2>3. ASSUME phase = "libraries", program' = program
        PROVE  LibrariesInv'
    <3>1. SourcesOnce /\ WorkLists /\ Reached
      BY <2>3 DEF LibrariesInv
    <3>2. SourcesOnce' /\ WorkLists' /\ Reached'
      BY <2>1, <2>3, <3>1 DEF SourcesOnce, WorkLists, Reached, Added, Pending, Roots, Closed
    <3> QED
      BY <1>1, <2>3, <3>2 DEF LibrariesInv
  <2>4. CASE phase \notin {"idle", "libraries"}
    BY <1>1, <2>4 DEF LibrariesInv
  <2> QED
    BY <1>1, <2>2, <2>3, <2>4
<1>2. CASE UNCHANGED allvars
  BY <1>1, <1>2 DEF allvars, cratevars
<1>3. CASE Start
  <2>1. /\ phase = "idle" /\ phase' = "libraries" /\ program' = program
        /\ includes' = program.includes /\ export_includes' = program.export_includes
        /\ included_libs' = included_libs /\ export_included_libs' = export_included_libs
        /\ sources' = sources
    BY <1>3 DEF Start, Begin
  <2>2. included_libs = {} /\ export_included_libs = {} /\ sources = << >>
    BY <2>1 DEF LibrariesInv, NoLibraries
  <2>3. Added' = {} /\ Pending' = Roots'
    BY <2>1, <2>2 DEF Added, Pending, Roots
  <2>4. SourcesOnce'
    BY <2>1, <2>2, <2>3 DEF SourcesOnce
  <2>5. WorkLists'
    BY <2>1, <2>2 DEF WorkLists
  <2>6. Reached'
    BY <2>3 DEF Reached
  <2> QED
    BY <2>1, <2>4, <2>5, <2>6 DEF LibrariesInv
<1>4. CASE LoadLibraries
  <2>1. phase = "libraries" /\ phase' = phase /\ program' = program
    BY <1>4 DEF LoadLibraries, cratevars
  <2>2. SourcesOnce /\ WorkLists /\ Reached
    BY <2>1 DEF LibrariesInv
  <2>3. IncludeLibrary \/ ExportLibrary
    BY <1>4 DEF LoadLibraries
  <2>4. SourcesOnce' /\ WorkLists' /\ Reached'
    BY <2>1, <2>2, <2>3, IncludeKeeps, ExportKeeps
  <2> QED
    BY <2>1, <2>4 DEF LibrariesInv
<1>5. CASE \/ RegisterShims \/ RegisterFunctions \/ RegisterTraits \/ RegisterImpls
           \/ TranslateNext \/ TranslateEnd \/ Assemble \/ Write
  <2>1. phase' \notin {"idle", "libraries"}
    BY <1>5, OtherPhases
  <2> QED
    BY <2>1 DEF LibrariesInv
<1>6. CASE Exit \/ Kill
  <2>1. phase' = "idle" /\ NoLibraries'
    BY <1>6 DEF Exit, Kill, Forget, NoLibraries
  <2> QED
    BY <2>1 DEF LibrariesInv
<1>7. CASE Edit \/ EditProof
  <2>1. phase = "idle" /\ phase' = phase /\ libvars' = libvars
    BY <1>7 DEF Edit, EditProof, cratevars
  <2> QED
    BY <1>1, <2>1
<1> QED
  BY <1>2, <1>3, <1>4, <1>5, <1>6, <1>7 DEF Next, TranslateCrate

LEMMA LibrariesInit == Init => LibrariesInv
BY DEF Init, NothingTranslated, LibrariesInv

LEMMA LibrariesLeast == LibrariesInv => LibrariesLoadedOnce
<1> SUFFICES ASSUME LibrariesInv, phase = "libraries", LibrariesLoaded
             PROVE  /\ \A i, j \in DOMAIN sources : sources[i] = sources[j] => i = j
                    /\ BroughtIn(Roots, Range(sources))
  BY DEF LibrariesLoadedOnce, Roots
<1>1. SourcesOnce /\ Reached /\ Pending = {}
  BY DEF LibrariesInv, LibrariesLoaded, Pending
<1>2. Range(sources) = Added
  BY <1>1 DEF SourcesOnce, Range
<1>3. Added \subseteq FoundLibs
  BY <1>1 DEF SourcesOnce
<1>4. Closed(Added) /\ Roots \cap FoundLibs \subseteq Added
  BY <1>1 DEF Reached, Closed
<1>5. \A other \in SUBSET FoundLibs :
        Closed(other) /\ Roots \cap FoundLibs \subseteq other => Added \subseteq other
  BY <1>1, <1>3 DEF Reached
<1> QED
  BY <1>1, <1>2, <1>4, <1>5 DEF SourcesOnce, BroughtIn

\* However the includes of a crate and the export_libs of the libraries refer
\* to each other, in circles too, the two loops of generate_coq_code add each
\* library once, and exactly those that are included directly or through the
\* exports of others.
THEOREM LibrariesAddedOnce == Spec => []LibrariesLoadedOnce
BY LibrariesInit, LibrariesNext, LibrariesLeast, PTL DEF Spec
-----------------------------------------------------------------------------
(* The registry of a crate.  What is known of every function that has an   *)
(* entry, and of every body whose translation has been tried.              *)

Fields == {"name_map", "translated_functions", "specced_functions", "closure_info", "ok", "errors",
           "panic"}

IsScope(s) == s = [x \in Fields |-> s[x]]

OwnMeta(f) ==
  Meta(IF FunctionMode(f) = "shim" THEN <<"annotated", f>> ELSE <<"type_of", f>>,
       FunctionMode(f), TraitOfAssoc(f) # NoItem, f \in Closures)

ExportMeta(f) == Meta(<<"type_of", f>>, "shim", TraitOfAssoc(f) # NoItem, f \in Closures)

LibEntry(d) ==
  /\ d \notin Bodies \cup AssocItems
  /\ scope.name_map[d] = Meta(<<"lib", d>>, "shim", FALSE, FALSE)

OwnEntry(d) ==
  /\ d \in Bodies
  /\ scope.name_map[d] =
       IF \E t \in traits.decls : d \in AssocFns[t]
       THEN [OwnMeta(d) EXCEPT !.spec_name = <<"base_spec", d>>] ELSE OwnMeta(d)

ExportEntry(d) ==
  /\ d \notin Bodies \cup AssocItems
  /\ \E g \in Bodies :
       /\ program.export_as[g] = d /\ d # NoItem
       /\ g \in DOMAIN scope.name_map /\ FunctionMode(g) \notin {"shim", "code_shim"}
       /\ scope.name_map[d] = ExportMeta(g)

Entries == \A d \in DOMAIN scope.name_map : LibEntry(d) \/ OwnEntry(d) \/ ExportEntry(d)

\* It is annotated itself, and it is not to be skipped.
Annotates(d) ==
  /\ attrs(d) # {} /\ "skip" \notin attrs(d)
  /\ ImplOf[d] # NoItem => "skip" \notin attrs(ImplOf[d])

(* The bodies whose turn in translate_functions is over. *)
Turns == ClosureOrder \o FunctionOrder
Past  == {Turns[i] : i \in 1 .. (Len(Turns) - Len(todo))}

InTurn ==
  /\ todo \in Seq(Bodies) /\ Len(todo) <= Len(Turns)
  /\ \A i \in 1 .. Len(todo) : todo[i] = Turns[(Len(Turns) - Len(todo)) + i]

Counted(f) == f \in DOMAIN scope.name_map /\ mode(f) \notin {"shim", "ignore"}

(* Its translation has failed, or it has left what it leaves. *)
Settled(f) ==
  f \in skipped \/ (f \in Written /\ (f \in Closures => f \in DOMAIN scope.closure_info))

TranslatedRight ==
  /\ \A f \in scope.translated_functions :
       /\ f \in Bodies /\ f \in DOMAIN scope.name_map
       /\ mode(f) \in {"prove", "trust_me", "code_shim"}
       /\ Callees(f) \subseteq DOMAIN scope.name_map
  /\ \A f \in scope.specced_functions :
       f \in Bodies /\ f \in DOMAIN scope.name_map /\ mode(f) = "only_spec"
  /\ \A f \in Written : TraitOfAssoc(f) # NoItem => TraitOfAssoc(f) \in traits.literals

Fresh == scope = EmptyScope /\ traits = NoTraits /\ todo = << >> /\ skipped = {} /\ trait_impls = {}

Untranslated ==
  /\ scope.translated_functions = {} /\ scope.specced_functions = {} /\ scope.closure_info = NoEntries
  /\ skipped = {}

Outputs == {"write", "purge", "specs", "templates", "proofs", "fill", "done"}

TraitsOk == traits.decls \subseteq Traits /\ traits.literals \cap Traits = traits.decls

ShimsOnly ==
  /\ scope.ok /\ \A d \in DOMAIN scope.name_map : LibEntry(d)
  /\ scope.name_map = [d \in DOMAIN scope.name_map |-> scope.name_map[d]]

Translating ==
  /\ InTurn /\ Written \subseteq Past
  /\ \A f \in Past : Counted(f) => Settled(f)
  /\ \A p \in traits.closure_impls : p[1] \in DOMAIN scope.name_map /\ needs_spec(mode(p[1]))

AllSettled == scope.errors \/ \A f \in Bodies : Counted(f) => Settled(f)

CrateTyped ==
  /\ program \in Programs \cup Edits
  /\ IsScope(scope) /\ scope.errors \in BOOLEAN
  /\ DOMAIN traits = {"literals", "decls", "impl_literals", "closure_impls"}

CrateInv ==
  /\ CrateTyped
  /\ phase # "failed" => ~scope.panic
  /\ phase \in {"idle", "libraries"} => Fresh
  /\ phase = "functions" => ShimsOnly
  /\ phase \in {"functions", "traits"} => traits.decls = {} /\ TraitsOk
  /\ phase \in {"functions", "traits", "impls"} => Untranslated
  /\ phase \in {"traits", "impls", "translate", "assemble"} \cup Outputs => Entries
  /\ phase \in {"impls", "translate", "assemble"} \cup Outputs => TraitsOk
  /\ phase \in {"translate", "assemble"} \cup Outputs => TranslatedRight
  /\ phase = "translate" => Translating
  /\ phase \in {"assemble"} \cup Outputs => AllSettled
  /\ ClosuresFirst

-----------------------------------------------------------------------------
(* Registration.                                                           *)

LEMMA RegisterMany ==
  ASSUME NEW s, IsScope(s), s.ok, NEW metas, NEW na
  PROVE  LET r == register_functions(s, metas, na)
         IN  /\ IsScope(r)
             /\ r.name_map = Inserted(s.name_map, metas)
             /\ r.ok = (DOMAIN s.name_map \cap DOMAIN metas = {})
             /\ r.ok \in BOOLEAN /\ r.errors \in BOOLEAN
             /\ r.panic = s.panic /\ r.closure_info = s.closure_info
             /\ r.translated_functions = s.translated_functions
             /\ r.specced_functions = s.specced_functions
<1>1. DOMAIN s = Fields
  BY DEF IsScope
<1>2. register_functions(s, metas, na) = [x \in Fields |-> register_functions(s, metas, na)[x]]
  BY <1>1 DEF register_functions
<1> QED
  BY <1>1, <1>2 DEF register_functions, IsScope, Fields

LEMMA RegisterNone ==
  ASSUME NEW s, ~s.ok, NEW metas, NEW na
  PROVE  register_functions(s, metas, na) = s
BY DEF register_functions

LEMMA InsertedAt ==
  ASSUME NEW map, NEW metas
  PROVE  /\ DOMAIN Inserted(map, metas) = DOMAIN map \cup DOMAIN metas
         /\ \A d \in DOMAIN metas : Inserted(map, metas)[d] = metas[d]
         /\ \A d \in DOMAIN map \ DOMAIN metas : Inserted(map, metas)[d] = map[d]
BY DEF Inserted

LEMMA AnnotatedConsidered ==
  ASSUME NEW f, Annotates(f)
  PROVE  check_consider_function(f) = "yes"
BY DEF Annotates, check_consider_function

\* What registering the functions P, after the shims, leaves in the registry.
Registers(P, r) ==
  r.ok =>
    /\ \A d \in DOMAIN r.name_map :
         \/ d \in DOMAIN scope.name_map /\ r.name_map[d] = scope.name_map[d]
         \/ d \in P /\ r.name_map[d] = OwnMeta(d)
         \/ \E g \in P : /\ program.export_as[g] = d /\ d # NoItem
                         /\ g \in DOMAIN r.name_map /\ FunctionMode(g) \notin {"shim", "code_shim"}
                         /\ r.name_map[d] = ExportMeta(g)
    /\ \A d \in P : Annotates(d) => d \in DOMAIN r.name_map /\ r.name_map[d] = OwnMeta(d)

\* The registries there can be meanwhile.
Exports == {program.export_as[f] : f \in Bodies}
Names   == DOMAIN scope.name_map \cup Bodies \cup Exports
Metas   == {scope.name_map[d] : d \in DOMAIN scope.name_map} \cup {OwnMeta(f) : f \in Bodies}
             \cup {ExportMeta(f) : f \in Bodies}
Maps    == UNION {[X -> Metas] : X \in SUBSET Names}
Values  == Maps \cup BOOLEAN
             \cup {scope.translated_functions, scope.specced_functions, scope.closure_info, scope.panic}
Registries ==
  {s \in [Fields -> Values] :
     /\ s.name_map \in Maps /\ s.ok \in BOOLEAN /\ s.errors \in BOOLEAN
     /\ s.translated_functions = scope.translated_functions
     /\ s.specced_functions = scope.specced_functions
     /\ s.closure_info = scope.closure_info /\ s.panic = scope.panic}

LEMMA IsRegistry ==
  ASSUME NEW s, IsScope(s), s.name_map \in Maps, s.ok \in BOOLEAN, s.errors \in BOOLEAN,
         s.translated_functions = scope.translated_functions,
         s.specced_functions = scope.specced_functions,
         s.closure_info = scope.closure_info, s.panic = scope.panic
  PROVE  s \in Registries
<1>1. \A x \in Fields : s[x] \in Values
  BY DEF Fields, Values
<1> HIDE DEF Values
<1>2. s \in [Fields -> Values]
  BY <1>1 DEF IsScope
<1> QED
  BY <1>2 DEF Registries

LEMMA RegistryIs ==
  ASSUME NEW s \in Registries
  PROVE  IsScope(s)
BY DEF Registries, IsScope

LEMMA RegisterEntry ==
  ASSUME NEW s \in Registries, NEW d \in Names, NEW meta \in Metas, NEW na
  PROVE  /\ register_function(s, d, meta, na) \in Registries
         /\ LET r == register_function(s, d, meta, na)
            IN  /\ r.ok => s.ok /\ d \notin DOMAIN s.name_map
                /\ r.ok => /\ DOMAIN r.name_map = DOMAIN s.name_map \cup {d}
                           /\ r.name_map[d] = meta
                           /\ \A x \in DOMAIN s.name_map : r.name_map[x] = s.name_map[x]
<1> DEFINE metas == [x \in {d} |-> meta]
           r == register_functions(s, metas, na)
<1>1. register_function(s, d, meta, na) = r
  BY DEF register_function
<1>2. DOMAIN metas = {d} /\ metas[d] = meta
  OBVIOUS
<1>3. IsScope(s) /\ s.name_map \in Maps /\ s.ok \in BOOLEAN
  BY RegistryIs DEF Registries
<1> HIDE DEF metas
<1>4. CASE ~s.ok
  <2>1. r = s
    BY <1>4, RegisterNone
  <2> QED BY <1>1, <1>4, <2>1
<1>5. CASE s.ok
  <2>1. /\ IsScope(r)
        /\ r.name_map = Inserted(s.name_map, metas)
        /\ r.ok = (DOMAIN s.name_map \cap DOMAIN metas = {})
        /\ r.ok \in BOOLEAN /\ r.errors \in BOOLEAN
        /\ r.panic = s.panic /\ r.closure_info = s.closure_info
        /\ r.translated_functions = s.translated_functions
        /\ r.specced_functions = s.specced_functions
    BY <1>3, <1>5, RegisterMany
  <2> HIDE DEF r
  <2>2. /\ DOMAIN r.name_map = DOMAIN s.name_map \cup {d} /\ r.name_map[d] = meta
        /\ \A x \in DOMAIN s.name_map : x # d => r.name_map[x] = s.name_map[x]
    <3> DEFINE map == s.name_map
    <3>1. /\ DOMAIN Inserted(map, metas) = DOMAIN map \cup DOMAIN metas
          /\ \A x \in DOMAIN metas : Inserted(map, metas)[x] = metas[x]
          /\ \A x \in DOMAIN map \ DOMAIN metas : Inserted(map, metas)[x] = map[x]
      <4> HIDE DEF map
      <4> QED BY InsertedAt
    <3>2. r.name_map = Inserted(map, metas)
      BY <2>1
    <3> QED BY <1>2, <3>1, <3>2
  <2>3. r.name_map \in Maps
    <3> DEFINE X == DOMAIN s.name_map \cup {d}
    <3>1. PICK Y \in SUBSET Names : s.name_map \in [Y -> Metas]
      BY <1>3 DEF Maps
    <3>2. X \in SUBSET Names /\ \A x \in X : r.name_map[x] \in Metas
      BY <2>2, <3>1
    <3>3. r.name_map = [x \in X |-> r.name_map[x]]
      BY <1>2, <2>1, <2>2 DEF Inserted
    <3> HIDE DEF X
    <3>4. r.name_map \in [X -> Metas]
      BY <3>2, <3>3
    <3> QED BY <3>2, <3>4 DEF Maps
  <2>4. r \in Registries
    BY <2>1, <2>3, IsRegistry DEF Registries
  <2> QED BY <1>1, <1>2, <1>5, <2>1, <2>2, <2>4
<1> QED
  BY <1>3, <1>4, <1>5

LEMMA RegistryFails ==
  ASSUME NEW s \in Registries
  PROVE  [s EXCEPT !.ok = FALSE] \in Registries /\ ~[s EXCEPT !.ok = FALSE].ok
<1> DEFINE r == [s EXCEPT !.ok = FALSE]
<1>1. DOMAIN s = Fields /\ IsScope(s)
  BY RegistryIs DEF IsScope
<1>2. r = [x \in Fields |-> r[x]]
  BY <1>1
<1>3. /\ r.ok = FALSE /\ r.name_map = s.name_map /\ r.errors = s.errors /\ r.panic = s.panic
      /\ r.closure_info = s.closure_info /\ r.translated_functions = s.translated_functions
      /\ r.specced_functions = s.specced_functions
  BY <1>1 DEF Fields
<1> HIDE DEF r
<1>4. r \in Registries
  BY <1>2, <1>3, IsRegistry DEF IsScope, Registries
<1> QED
  BY <1>3, <1>4 DEF r

\* One turn of register_functions.
LEMMA RegistersOne ==
  ASSUME NEW s \in Registries, NEW f \in Bodies, NEW P
  PROVE  /\ register_one(s, f) \in Registries
         /\ Registers(P, s) => Registers(P \cup {f}, register_one(s, f))
<1> DEFINE na == program.no_assumption
           export == program.export_as[f]
           one == register_function(s, f, OwnMeta(f), na)
           other == register_function(s, export, ExportMeta(f), na)
           both == register_function(other, f, OwnMeta(f), na)
           exports == FunctionMode(f) \notin {"shim", "code_shim"} /\ export # NoItem
<1>1. \/ register_one(s, f) = s /\ (~s.ok \/ check_consider_function(f) = "no")
      \/ register_one(s, f) = [s EXCEPT !.ok = FALSE]
      \/ register_one(s, f) = one
      \/ exports /\ register_one(s, f) = both
  BY DEF register_one, OwnMeta, ExportMeta
<1>2. /\ f \in Names /\ export \in Names /\ OwnMeta(f) \in Metas /\ ExportMeta(f) \in Metas
  BY DEF Names, Metas, Exports
<1>3. /\ one \in Registries
      /\ one.ok => s.ok /\ f \notin DOMAIN s.name_map
      /\ one.ok => /\ DOMAIN one.name_map = DOMAIN s.name_map \cup {f}
                   /\ one.name_map[f] = OwnMeta(f)
                   /\ \A x \in DOMAIN s.name_map : one.name_map[x] = s.name_map[x]
  BY <1>2, RegisterEntry
<1>4. /\ other \in Registries
      /\ other.ok => s.ok /\ export \notin DOMAIN s.name_map
      /\ other.ok => /\ DOMAIN other.name_map = DOMAIN s.name_map \cup {export}
                     /\ other.name_map[export] = ExportMeta(f)
                     /\ \A x \in DOMAIN s.name_map : other.name_map[x] = s.name_map[x]
  BY <1>2, RegisterEntry
<1>5. /\ both \in Registries
      /\ both.ok => other.ok /\ f \notin DOMAIN other.name_map
      /\ both.ok => /\ DOMAIN both.name_map = DOMAIN other.name_map \cup {f}
                    /\ both.name_map[f] = OwnMeta(f)
                    /\ \A x \in DOMAIN other.name_map : both.name_map[x] = other.name_map[x]
  <2> HIDE DEF other
  <2> QED BY <1>2, <1>4, RegisterEntry
<1>6. Annotates(f) => check_consider_function(f) = "yes"
  BY AnnotatedConsidered
<1> HIDE DEF one, other, both
<1>7. CASE register_one(s, f) = s /\ (~s.ok \/ check_consider_function(f) = "no")
  BY <1>6, <1>7 DEF Registers
<1>8. CASE register_one(s, f) = [s EXCEPT !.ok = FALSE]
  <2>1. ~register_one(s, f).ok
    BY <1>8, RegistryFails
  <2> QED BY <1>8, <2>1, RegistryFails DEF Registers
<1>9. CASE register_one(s, f) = one
  <2>1. SUFFICES ASSUME Registers(P, s), one.ok PROVE Registers(P \cup {f}, one)
    BY <1>3, <1>9 DEF Registers
  <2>2. \A d \in DOMAIN one.name_map : d = f \/ d \in DOMAIN s.name_map
    BY <1>3, <2>1
  <2> QED BY <1>3, <2>1, <2>2 DEF Registers
<1>10. CASE exports /\ register_one(s, f) = both
  <2>1. SUFFICES ASSUME Registers(P, s), both.ok PROVE Registers(P \cup {f}, both)
    BY <1>5, <1>10 DEF Registers
  <2>2. /\ s.ok /\ f \in DOMAIN both.name_map /\ both.name_map[f] = OwnMeta(f)
        /\ both.name_map[export] = ExportMeta(f)
        /\ \A x \in DOMAIN s.name_map : x \in DOMAIN both.name_map /\ both.name_map[x] = s.name_map[x]
    BY <1>4, <1>5, <2>1
  <2>3. \A d \in DOMAIN both.name_map : d = f \/ d = export \/ d \in DOMAIN s.name_map
    BY <1>4, <1>5, <2>1
  <2> QED BY <1>10, <2>1, <2>2, <2>3 DEF Registers
<1> QED
  BY <1>1, <1>7, <1>8, <1>9, <1>10

\* All turns.
LEMMA RegistersAll ==
  ASSUME NEW bodies \in Seq(Bodies), scope \in Registries,
         scope.ok /\ Registers({}, scope)
  PROVE  /\ FoldLeft(register_one, scope, bodies) \in Registries
         /\ Registers(ToSet(bodies), FoldLeft(register_one, scope, bodies))
<1> DEFINE D == DOMAIN bodies
           Sat(f) == f = [I \in SUBSET D |->
                            IF I = {} THEN scope ELSE register_one(f[I \ {Max(I)}], bodies[Max(I)])]
           iter == CHOOSE f : Sat(f)
           step == [i \in D |-> [s \in Registries |-> register_one(s, bodies[i])]]
           pick == [I \in SUBSET D |-> Max(I)]
<1>1. FoldLeft(register_one, scope, bodies) = iter[D]
  BY DEF FoldLeft, MapThenFoldSet
<1>2. D = 1..Len(bodies) /\ D \subseteq Nat /\ IsFiniteSet(D) /\ \A i \in D : bodies[i] \in Bodies
  BY FS_Interval
<1>3. \A I \in SUBSET D : I # {} => Max(I) \in I
  BY <1>2, MaxIn
<1> HIDE DEF D
<1>4. step \in [D -> [Registries -> Registries]]
  <2>1. ASSUME NEW i \in D, NEW s \in Registries PROVE register_one(s, bodies[i]) \in Registries
    <3> DEFINE b == bodies[i]
               P == {}
    <3>1. b \in Bodies
      BY <1>2
    <3>2. register_one(s, b) \in Registries
      <4> HIDE DEF b, P
      <4> QED BY <3>1, RegistersOne
    <3> QED BY <3>2
  <2> QED BY <2>1
<1>5. \E g : Sat(g)
  <2>1. \A I \in SUBSET D : I # {} => pick[I] \in I
    BY <1>3
  <2>2. PICK g \in [SUBSET D -> Registries] : Folded(D, pick, step, scope, g)
    <3> HIDE DEF step, pick
    <3> QED BY <1>2, <1>4, <2>1, SetFold
  <2>3. ASSUME NEW I \in SUBSET D
        PROVE  g[I] = IF I = {} THEN scope ELSE register_one(g[I \ {Max(I)}], bodies[Max(I)])
    <3>1. g[I] = IF I = {} THEN scope ELSE step[pick[I]][g[I \ {pick[I]}]]
      <4> HIDE DEF step, pick
      <4> QED BY <2>2 DEF Folded
    <3>2. I # {} => Max(I) \in D /\ g[I \ {Max(I)}] \in Registries
      BY <1>3
    <3> QED BY <3>1, <3>2
  <2>4. Sat(g)
    BY <2>3
  <2> HIDE DEF Sat
  <2> QED BY <2>4
<1>6. Sat(iter)
  <2> HIDE DEF Sat
  <2> QED BY <1>5
<1> DEFINE W == {I \in SUBSET D : iter[I] \in Registries /\ Registers({bodies[i] : i \in I}, iter[I])}
<1>7. {} \in W
  <2> HIDE DEF iter
  <2>1. iter[{}] = scope
    BY <1>6
  <2>2. {bodies[i] : i \in {}} = {}
    OBVIOUS
  <2> QED BY <2>1, <2>2
<1>8. ASSUME NEW I \in SUBSET D, I # {}, \A x \in I : I \ {x} \in W PROVE I \in W
  <2> HIDE DEF iter
  <2>1. iter[I] = register_one(iter[I \ {Max(I)}], bodies[Max(I)])
    BY <1>6, <1>8
  <2>2. Max(I) \in I /\ bodies[Max(I)] \in Bodies
    BY <1>2, <1>3, <1>8
  <2>3. iter[I \ {Max(I)}] \in Registries /\ Registers({bodies[i] : i \in I \ {Max(I)}}, iter[I \ {Max(I)}])
    BY <1>8, <2>2
  <2>4. {bodies[i] : i \in I} = {bodies[i] : i \in I \ {Max(I)}} \cup {bodies[Max(I)]}
    BY <2>2
  <2>5. iter[I] \in Registries /\ Registers({bodies[i] : i \in I}, iter[I])
    <3> DEFINE P == {bodies[i] : i \in I \ {Max(I)}}
               s == iter[I \ {Max(I)}]
               b == bodies[Max(I)]
    <3>1. s \in Registries /\ b \in Bodies /\ Registers(P, s)
      BY <2>2, <2>3
    <3>2. register_one(s, b) \in Registries /\ Registers(P \cup {b}, register_one(s, b))
      <4> HIDE DEF s, b, P
      <4> QED BY <3>1, RegistersOne
    <3> QED BY <2>1, <2>4, <3>2
  <2> QED BY <2>5
<1>9. \A I \in SUBSET D : I \in W
  <2>1. IsFiniteSet(D)
    BY <1>2
  <2> HIDE DEF W
  <2> QED BY <1>7, <1>8, <2>1, SubsetInduction
<1>10. iter[D] \in Registries /\ Registers({bodies[i] : i \in D}, iter[D])
  <2> HIDE DEF iter
  <2> QED BY <1>9
<1>11. ToSet(bodies) = {bodies[i] : i \in D}
  BY DEF ToSet, D
<1> HIDE DEF iter
<1> QED
  BY <1>1, <1>10, <1>11

-----------------------------------------------------------------------------
(* The steps of a run.                                                     *)

LEMMA SameProgram ==
  ASSUME program' = program
  PROVE  /\ \A f : FunctionMode(f)' = FunctionMode(f)
         /\ \A f : OwnMeta(f)' = OwnMeta(f) /\ ExportMeta(f)' = ExportMeta(f)
         /\ \A f : attrs(f)' = attrs(f) /\ Callees(f)' = Callees(f)
         /\ \A f : CalledClosures(f)' = CalledClosures(f)
<1>1. \A f : attrs(f)' = attrs(f)
  BY DEF attrs
<1>2. \A f : get_most_restrictive_function_mode(f)' = get_most_restrictive_function_mode(f)
  BY <1>1 DEF get_most_restrictive_function_mode
<1>3. \A f : FunctionMode(f)' = FunctionMode(f)
  BY <1>2 DEF FunctionMode
<1> QED
  BY <1>1, <1>3 DEF OwnMeta, ExportMeta, Callees, CalledClosures

LEMMA NewScope == IsScope(EmptyScope) /\ EmptyScope.errors = FALSE /\ EmptyScope.panic = FALSE /\ EmptyScope.ok = TRUE
BY DEF EmptyScope, IsScope, Fields

LEMMA CrateInit == Init => CrateInv
<1> SUFFICES ASSUME Init PROVE CrateInv
  OBVIOUS
<1>1. phase = "idle" /\ Fresh /\ program \in Programs
  BY DEF Init, NothingTranslated, Fresh
<1>2. IsScope(scope) /\ scope.errors = FALSE /\ scope.panic = FALSE
  BY <1>1, NewScope DEF Fresh
<1>3. DOMAIN traits = {"literals", "decls", "impl_literals", "closure_impls"}
  BY <1>1 DEF Fresh, NoTraits
<1> QED
  BY <1>1, <1>2, <1>3 DEF CrateInv, CrateTyped, ClosuresFirst, Outputs

LEMMA ForgetClean ==
  ASSUME CrateInv, Forget
  PROVE  CrateInv'
<1>1. phase' = "idle" /\ Fresh' /\ program' = program
  BY DEF Forget, Fresh
<1>2. IsScope(scope') /\ scope'.errors = FALSE /\ scope'.panic = FALSE
  BY <1>1, NewScope DEF Fresh
<1>3. DOMAIN traits' = {"literals", "decls", "impl_literals", "closure_impls"}
  BY <1>1 DEF Fresh, NoTraits
<1>4. CrateTyped'
  BY <1>1, <1>2, <1>3 DEF CrateInv, CrateTyped
<1> QED
  BY <1>1, <1>2, <1>4 DEF CrateInv, ClosuresFirst, Outputs

\* Between the runs, and while libraries are loaded, nothing is known.
LEMMA StillFresh ==
  ASSUME CrateInv, phase \in {"idle", "libraries"}, phase' \in {"idle", "libraries"},
         program' \in Programs \cup Edits, scope' = scope, traits' = traits, todo' = todo,
         skipped' = skipped, trait_impls' = trait_impls
  PROVE  CrateInv'
<1>1. Fresh' /\ ~scope'.panic
  BY DEF CrateInv, Fresh
<1>2. CrateTyped'
  BY DEF CrateInv, CrateTyped
<1> QED
  BY <1>1, <1>2 DEF CrateInv, ClosuresFirst, Outputs

\* The entries only depend on the registry's, and on which traits are known.
LEMMA EntriesStay ==
  ASSUME Entries, program' = program, scope'.name_map = scope.name_map, traits'.decls = traits.decls
  PROVE  Entries'
<1> SUFFICES ASSUME NEW d \in DOMAIN scope.name_map PROVE (LibEntry(d) \/ OwnEntry(d) \/ ExportEntry(d))'
  BY DEF Entries
<1>1. \A f : FunctionMode(f)' = FunctionMode(f) /\ OwnMeta(f)' = OwnMeta(f) /\ ExportMeta(f)' = ExportMeta(f)
  BY SameProgram
<1>2. CASE LibEntry(d)
  BY <1>2 DEF LibEntry
<1>3. CASE OwnEntry(d)
  BY <1>1, <1>3 DEF OwnEntry
<1>4. CASE ExportEntry(d)
  BY <1>1, <1>4 DEF ExportEntry
<1> QED
  BY <1>2, <1>3, <1>4 DEF Entries

LEMMA Unmoved ==
  ASSUME CrateInv, program' = program, phase' = phase, scope' = scope, traits' = traits, todo' = todo,
         skipped' = skipped, trait_impls' = trait_impls
  PROVE  CrateInv'
<1>1. CrateTyped => CrateTyped'
  BY DEF CrateTyped
<1>2. Entries => Entries'
  BY EntriesStay
<1>3. Written' = Written /\ \A x : mode(x)' = mode(x)
  BY DEF Written, mode
<1>4. /\ \A f : attrs(f)' = attrs(f) /\ Callees(f)' = Callees(f)
      /\ \A f : CalledClosures(f)' = CalledClosures(f)
  BY SameProgram
<1>5. TranslatedRight => TranslatedRight'
  BY <1>3, <1>4 DEF TranslatedRight
<1>6. ShimsOnly => ShimsOnly'
  BY DEF ShimsOnly, LibEntry
<1>7. \A f : (Counted(f)' <=> Counted(f)) /\ (Settled(f)' <=> Settled(f))
  BY <1>3 DEF Counted, Settled
<1>8. Translating => Translating'
  BY <1>3, <1>7 DEF Translating, InTurn, Past
<1>9. AllSettled => AllSettled'
  BY <1>7 DEF AllSettled
<1>10. (Fresh => Fresh') /\ (Untranslated => Untranslated') /\ (TraitsOk => TraitsOk')
  BY DEF Fresh, Untranslated, TraitsOk
<1>11. ClosuresFirst => ClosuresFirst'
  BY <1>4 DEF ClosuresFirst
<1> QED
  BY <1>1, <1>2, <1>5, <1>6, <1>8, <1>9, <1>10, <1>11 DEF CrateInv

\* What is written does not change what is known.
LEMMA StillKnown ==
  ASSUME CrateInv, phase \in Outputs, phase' \in Outputs,
         program' = program, scope' = scope, traits' = traits, todo' = todo,
         skipped' = skipped, trait_impls' = trait_impls
  PROVE  CrateInv'
<1>1. /\ CrateTyped /\ ~scope.panic /\ Entries /\ TraitsOk /\ TranslatedRight /\ AllSettled
  BY DEF CrateInv, Outputs
<1>2. CrateTyped' /\ ~scope'.panic /\ TraitsOk'
  BY <1>1 DEF CrateTyped, TraitsOk
<1>3. Entries'
  BY <1>1, EntriesStay
<1>4. TranslatedRight' /\ AllSettled'
  BY <1>1, SameProgram DEF TranslatedRight, AllSettled, Settled, Counted, Written, mode
<1> QED
  BY <1>2, <1>3, <1>4 DEF CrateInv, ClosuresFirst, Outputs

\* The shims of the libraries are for items of other crates.
LEMMA ForeignShims ==
  ASSUME SourcesOnce
  PROVE  /\ \A d \in UNION Range(SourceShims("function")) : d \notin Bodies \cup AssocItems
         /\ \A t \in UNION Range(SourceShims("trait")) : t \notin Traits
         /\ \A d \in DOMAIN ImplOf :
              ImplOf[d] \in UNION Range(SourceShims("trait_impl")) => d \notin Bodies \cup AssocItems
<1>1. ASSUME NEW kind, NEW x \in UNION Range(SourceShims(kind))
      PROVE  \E lib \in FoundLibs : \E shim \in Shims[lib] : shim[1] = kind /\ shim[2] = x
  <2>1. PICK i \in DOMAIN sources : x \in {s[2] : s \in {t \in Shims[sources[i]] : t[1] = kind}}
    BY <1>1 DEF SourceShims, Range
  <2>2. sources[i] \in FoundLibs
    BY DEF SourcesOnce
  <2> QED BY <2>1, <2>2
<1>2. ASSUME NEW d \in UNION Range(SourceShims("function")) PROVE d \notin Bodies \cup AssocItems
  <2>1. PICK lib \in FoundLibs : \E shim \in Shims[lib] : shim[1] = "function" /\ shim[2] = d
    BY <1>1
  <2> QED BY <2>1, CrateAssumption
<1>3. ASSUME NEW t \in UNION Range(SourceShims("trait")) PROVE t \notin Traits
  <2>1. PICK lib \in FoundLibs : \E shim \in Shims[lib] : shim[1] = "trait" /\ shim[2] = t
    BY <1>1
  <2> QED BY <2>1, CrateAssumption
<1>4. ASSUME NEW d \in DOMAIN ImplOf, ImplOf[d] \in UNION Range(SourceShims("trait_impl"))
      PROVE  d \notin Bodies \cup AssocItems
  <2>1. PICK lib \in FoundLibs : \E shim \in Shims[lib] : shim[1] = "trait_impl" /\ shim[2] = ImplOf[d]
    BY <1>1, <1>4
  <2> QED BY <2>1, CrateAssumption
<1> QED
  BY <1>2, <1>3, <1>4

\* Registering functions, whether there has been an error or not.
LEMMA RegisterMore ==
  ASSUME NEW s, IsScope(s), s.ok \in BOOLEAN, s.errors \in BOOLEAN, NEW metas, NEW na
  PROVE  LET r == register_functions(s, metas, na)
         IN  /\ IsScope(r)
             /\ r.ok \in BOOLEAN /\ r.errors \in BOOLEAN
             /\ r.panic = s.panic /\ r.closure_info = s.closure_info
             /\ r.translated_functions = s.translated_functions
             /\ r.specced_functions = s.specced_functions
             /\ r.ok => s.ok /\ r.name_map = Inserted(s.name_map, metas)
BY RegisterMany, RegisterNone

LEMMA ShimsKeep ==
  ASSUME CrateInv, SourcesOnce, RegisterShims
  PROVE  CrateInv'
<1> DEFINE fn      == SourceShims("function")
           tr      == SourceShims("trait")
           im      == SourceShims("trait_impl")
           methods == {d \in DOMAIN ImplOf : ImplOf[d] \in UNION Range(im)}
           first   == ShimMetas(UNION Range(fn))
           second  == ShimMetas(methods)
           na      == program.no_assumption
           named   == register_functions(scope, first, na)
           all     == register_functions(named, second, na)
           ok      == all.ok /\ ~Repeated(fn) /\ ~Repeated(tr) /\ ~Repeated(im)
<1>1. /\ phase = "libraries" /\ phase' = (IF ok THEN "functions" ELSE "failed")
      /\ scope' = [all EXCEPT !.ok = ok]
      /\ traits' = [traits EXCEPT !.literals = UNION Range(tr), !.impl_literals = UNION Range(im)]
      /\ program' = program /\ todo' = todo /\ skipped' = skipped /\ trait_impls' = trait_impls
  BY DEF RegisterShims
<1>2. /\ \A d \in UNION Range(fn) : d \notin Bodies \cup AssocItems
      /\ \A t \in UNION Range(tr) : t \notin Traits
      /\ \A d \in methods : d \notin Bodies \cup AssocItems
  BY ForeignShims
<1>3. /\ DOMAIN first = UNION Range(fn) /\ DOMAIN second = methods
      /\ \A d \in DOMAIN first : first[d] = Meta(<<"lib", d>>, "shim", FALSE, FALSE)
      /\ \A d \in DOMAIN second : second[d] = Meta(<<"lib", d>>, "shim", FALSE, FALSE)
  BY DEF ShimMetas
<1> HIDE DEF fn, tr, im, methods, first, second, na
<1>4. /\ IsScope(scope) /\ scope.ok = TRUE /\ scope.errors = FALSE /\ scope.panic = FALSE
      /\ Fresh /\ CrateTyped
  BY <1>1, NewScope DEF CrateInv, Fresh
<1>5. /\ IsScope(named) /\ named.ok \in BOOLEAN /\ named.errors \in BOOLEAN
      /\ named.panic = scope.panic /\ named.closure_info = scope.closure_info
      /\ named.translated_functions = scope.translated_functions
      /\ named.specced_functions = scope.specced_functions
      /\ named.ok => named.name_map = Inserted(scope.name_map, first)
  <2> DEFINE old == scope
  <2>1. IsScope(old) /\ old.ok \in BOOLEAN /\ old.errors \in BOOLEAN
    BY <1>4
  <2> HIDE DEF old
  <2> QED BY <2>1, RegisterMore DEF old
<1> HIDE DEF named
<1>6. /\ IsScope(all) /\ all.ok \in BOOLEAN /\ all.errors \in BOOLEAN
      /\ all.panic = named.panic /\ all.closure_info = named.closure_info
      /\ all.translated_functions = named.translated_functions
      /\ all.specced_functions = named.specced_functions
      /\ all.ok => named.ok /\ all.name_map = Inserted(named.name_map, second)
  BY <1>5, RegisterMore
<1> HIDE DEF all, ok
<1>7. /\ scope'.panic = all.panic /\ scope'.errors = all.errors /\ scope'.ok = ok
      /\ scope'.name_map = all.name_map /\ scope'.closure_info = all.closure_info
      /\ scope'.translated_functions = all.translated_functions
      /\ scope'.specced_functions = all.specced_functions
      /\ IsScope(scope')
  <2>1. DOMAIN all = Fields
    BY <1>6 DEF IsScope
  <2>2. scope' = [x \in Fields |-> scope'[x]]
    BY <1>1, <2>1
  <2> QED BY <1>1, <2>1, <2>2 DEF IsScope, Fields
<1>8. /\ DOMAIN traits' = DOMAIN traits /\ traits'.literals = UNION Range(tr) /\ traits'.decls = {}
  BY <1>1, <1>4 DEF Fresh, NoTraits
<1>9. CrateTyped'
  BY <1>1, <1>4, <1>6, <1>7, <1>8 DEF CrateTyped
<1>10. ~scope'.panic /\ ClosuresFirst'
  BY <1>4, <1>5, <1>6, <1>7 DEF ClosuresFirst
<1>11. TraitsOk' /\ traits'.decls = {}
  BY <1>2, <1>8 DEF TraitsOk
<1>12. Untranslated'
  BY <1>1, <1>4, <1>5, <1>6, <1>7 DEF Fresh, Untranslated, EmptyScope
<1>13. ASSUME ok PROVE ShimsOnly'
  <2>1. scope'.name_map = Inserted(Inserted(scope.name_map, first), second)
    BY <1>5, <1>6, <1>7, <1>13 DEF ok
  <2>2. DOMAIN scope.name_map = {}
    BY <1>4 DEF Fresh, EmptyScope, NoEntries
  <2>3. /\ scope'.name_map = [d \in DOMAIN scope'.name_map |-> scope'.name_map[d]]
        /\ DOMAIN scope'.name_map = DOMAIN first \cup DOMAIN second
        /\ \A d \in DOMAIN scope'.name_map :
             scope'.name_map[d] = IF d \in DOMAIN second THEN second[d] ELSE first[d]
    BY <2>1, <2>2 DEF Inserted
  <2>4. ASSUME NEW d \in DOMAIN scope'.name_map PROVE LibEntry(d)'
    BY <1>2, <1>3, <2>3 DEF LibEntry
  <2> QED BY <1>7, <1>13, <2>3, <2>4 DEF ShimsOnly
<1> QED
  BY <1>1, <1>9, <1>10, <1>11, <1>12, <1>13 DEF CrateInv, Outputs

LEMMA FunctionsKeep ==
  ASSUME CrateInv, RegisterFunctions
  PROVE  CrateInv'
<1> DEFINE bodies == FunctionOrder \o ClosureOrder
           r == FoldLeft(register_one, scope, bodies)
<1>1. /\ phase = "functions" /\ phase' = (IF r.ok THEN "traits" ELSE "failed") /\ scope' = r
      /\ program' = program /\ traits' = traits /\ todo' = todo /\ skipped' = skipped
  BY DEF RegisterFunctions
<1>2. /\ CrateTyped /\ ShimsOnly /\ traits.decls = {} /\ TraitsOk /\ Untranslated /\ ~scope.panic
  BY <1>1 DEF CrateInv
<1>3. bodies \in Seq(Bodies) /\ ToSet(bodies) = Bodies
  <2>1. FunctionOrder \in Seq(Bodies) /\ ClosureOrder \in Seq(Bodies)
    BY CrateAssumption DEF Bodies
  <2>2. ToSet(FunctionOrder) = Functions /\ ToSet(ClosureOrder) = Closures
    BY DEF ToSet, Functions, Closures, Range
  <2> QED BY <2>1, <2>2, JoinedElements DEF Bodies
<1>4. scope \in Registries
  <2> DEFINE X == DOMAIN scope.name_map
  <2>1. X \in SUBSET Names /\ \A d \in X : scope.name_map[d] \in Metas
    BY DEF Names, Metas
  <2>2. scope.name_map = [d \in X |-> scope.name_map[d]]
    BY <1>2 DEF ShimsOnly
  <2>3. scope.name_map \in [X -> Metas]
    <3> HIDE DEF X
    <3> QED BY <2>1, <2>2
  <2>4. scope.name_map \in Maps
    <3> HIDE DEF X
    <3> QED BY <2>1, <2>3 DEF Maps
  <2> QED BY <1>2, <2>4, IsRegistry DEF CrateTyped, ShimsOnly
<1>5. scope.ok /\ Registers({}, scope)
  BY <1>2 DEF ShimsOnly, Registers
<1>6. r \in Registries /\ Registers(Bodies, r)
  <2> HIDE DEF bodies
  <2> QED BY <1>3, <1>4, <1>5, RegistersAll
<1> HIDE DEF r
<1>7. /\ IsScope(r) /\ r.errors \in BOOLEAN /\ ~r.panic
      /\ r.translated_functions = scope.translated_functions
      /\ r.specced_functions = scope.specced_functions /\ r.closure_info = scope.closure_info
  BY <1>2, <1>6, RegistryIs DEF Registries
<1>8. CrateTyped' /\ Untranslated' /\ ~scope'.panic /\ TraitsOk' /\ traits'.decls = {} /\ ClosuresFirst'
  BY <1>1, <1>2, <1>7 DEF CrateTyped, Untranslated, TraitsOk, ClosuresFirst
<1>9. ASSUME r.ok PROVE Entries'
  <2>1. SUFFICES ASSUME NEW d \in DOMAIN r.name_map
                 PROVE  (LibEntry(d) \/ OwnEntry(d) \/ ExportEntry(d))'
    BY <1>1 DEF Entries
  <2>2. \/ d \in DOMAIN scope.name_map /\ r.name_map[d] = scope.name_map[d]
        \/ d \in Bodies /\ r.name_map[d] = OwnMeta(d)
        \/ \E g \in Bodies : /\ program.export_as[g] = d /\ d # NoItem
                             /\ g \in DOMAIN r.name_map /\ FunctionMode(g) \notin {"shim", "code_shim"}
                             /\ r.name_map[d] = ExportMeta(g)
    BY <1>6, <1>9 DEF Registers
  <2>3. \A f : FunctionMode(f)' = FunctionMode(f) /\ OwnMeta(f)' = OwnMeta(f) /\ ExportMeta(f)' = ExportMeta(f)
    BY <1>1, SameProgram
  <2>4. CASE d \in DOMAIN scope.name_map /\ r.name_map[d] = scope.name_map[d]
    BY <1>1, <1>2, <2>4 DEF LibEntry, ShimsOnly
  <2>5. CASE d \in Bodies /\ r.name_map[d] = OwnMeta(d)
    BY <1>1, <1>2, <2>3, <2>5 DEF OwnEntry
  <2>6. ASSUME NEW g \in Bodies, program.export_as[g] = d, d # NoItem, g \in DOMAIN r.name_map,
               FunctionMode(g) \notin {"shim", "code_shim"}, r.name_map[d] = ExportMeta(g)
        PROVE  (LibEntry(d) \/ OwnEntry(d) \/ ExportEntry(d))'
    <3>1. CASE d \in Bodies \cup AssocItems
      <4>1. d \in Bodies /\ Annotates(d)
        BY <1>2, <2>6, <3>1, ProgramAssumption DEF CrateTyped, Annotates, attrs
      <4>2. r.name_map[d] = OwnMeta(d)
        BY <1>6, <1>9, <4>1 DEF Registers
      <4> QED BY <2>5, <4>1, <4>2
    <3>2. CASE d \notin Bodies \cup AssocItems
      BY <1>1, <2>3, <2>6, <3>2 DEF ExportEntry
    <3> QED BY <3>1, <3>2
  <2> QED BY <2>2, <2>4, <2>5, <2>6
<1> QED
  BY <1>1, <1>8, <1>9 DEF CrateInv, Outputs

\* The entry of a method with a default body, when its trait is registered.
LEMMA OverrideParts ==
  ASSUME NEW s, IsScope(s), NEW dids
  PROVE  LET r == override_trait_default_impl_names(s, dids)
             defaults == dids \cap DOMAIN s.name_map
         IN  /\ IsScope(r)
             /\ DOMAIN r.name_map = DOMAIN s.name_map
             /\ \A d \in defaults : r.name_map[d] = [s.name_map[d] EXCEPT !.spec_name = <<"base_spec", d>>]
             /\ \A d \in DOMAIN s.name_map \ defaults : r.name_map[d] = s.name_map[d]
             /\ (\A d \in defaults : s.name_map[d].is_default_trait_impl) => (r.panic <=> s.panic)
             /\ r.closure_info = s.closure_info /\ r.errors = s.errors
             /\ r.translated_functions = s.translated_functions
             /\ r.specced_functions = s.specced_functions
<1> DEFINE r == override_trait_default_impl_names(s, dids)
           defaults == dids \cap DOMAIN s.name_map
           map == s.name_map
           metas == [d \in defaults |-> [s.name_map[d] EXCEPT !.spec_name = <<"base_spec", d>>]]
<1>1. DOMAIN s = Fields
  BY DEF IsScope
<1>2. r = [x \in Fields |-> r[x]]
  BY <1>1 DEF override_trait_default_impl_names
<1>3. /\ r.name_map = Inserted(map, metas)
      /\ (r.panic <=> s.panic \/ \E d \in defaults : ~s.name_map[d].is_default_trait_impl)
      /\ r.closure_info = s.closure_info /\ r.errors = s.errors
      /\ r.translated_functions = s.translated_functions
      /\ r.specced_functions = s.specced_functions
  BY <1>1 DEF override_trait_default_impl_names, Fields
<1>4. DOMAIN metas = defaults /\ \A d \in defaults : metas[d] = [s.name_map[d] EXCEPT !.spec_name = <<"base_spec", d>>]
  OBVIOUS
<1> HIDE DEF r, metas
<1>5. /\ DOMAIN Inserted(map, metas) = DOMAIN map \cup DOMAIN metas
      /\ \A d \in DOMAIN metas : Inserted(map, metas)[d] = metas[d]
      /\ \A d \in DOMAIN map \ DOMAIN metas : Inserted(map, metas)[d] = map[d]
  <2> HIDE DEF map
  <2> QED BY InsertedAt
<1>6. IsScope(r)
  BY <1>2 DEF IsScope
<1>7. /\ DOMAIN r.name_map = DOMAIN s.name_map
      /\ \A d \in defaults : r.name_map[d] = [s.name_map[d] EXCEPT !.spec_name = <<"base_spec", d>>]
      /\ \A d \in DOMAIN s.name_map \ defaults : r.name_map[d] = s.name_map[d]
  BY <1>3, <1>4, <1>5
<1> QED
  BY <1>3, <1>6, <1>7 DEF r

LEMMA TraitsKeep ==
  ASSUME CrateInv, RegisterTraits
  PROVE  CrateInv'
<1> DEFINE ts    == {t \in Traits : Annotated(t)}
           known == traits.literals \cup ts
           dids  == UNION {AssocFns[t] : t \in ts}
           r     == override_trait_default_impl_names(scope, dids)
           ok    == ~cyclic(TraitDeps) /\ \A t \in ts : TraitDeps[t] \subseteq known
<1>1. /\ phase = "traits" /\ phase' = (IF ok THEN "impls" ELSE "failed")
      /\ scope' = [r EXCEPT !.panic = @ \/ cyclic(TraitDeps)]
      /\ traits' = [traits EXCEPT !.literals = known, !.decls = ts]
      /\ program' = program /\ todo' = todo /\ skipped' = skipped
  <2>1. ok <=> register_trait_succeeds(ts)
    BY DEF register_trait_succeeds
  <2>2. ok = register_trait_succeeds(ts)
    BY <2>1 DEF register_trait_succeeds
  <2> HIDE DEF ok
  <2> QED BY <2>2 DEF RegisterTraits, preregister_traits
<1>2. /\ CrateTyped /\ Entries /\ traits.decls = {} /\ TraitsOk /\ Untranslated /\ ~scope.panic
  BY <1>1 DEF CrateInv
<1> DEFINE old == scope
           defaults == dids \cap DOMAIN old.name_map
<1>3. /\ IsScope(r)
      /\ DOMAIN r.name_map = DOMAIN old.name_map
      /\ \A d \in defaults : r.name_map[d] = [old.name_map[d] EXCEPT !.spec_name = <<"base_spec", d>>]
      /\ \A d \in DOMAIN old.name_map \ defaults : r.name_map[d] = old.name_map[d]
      /\ (\A d \in defaults : old.name_map[d].is_default_trait_impl) => (r.panic <=> old.panic)
      /\ r.closure_info = old.closure_info /\ r.errors = old.errors
      /\ r.translated_functions = old.translated_functions
      /\ r.specced_functions = old.specced_functions
  <2>1. IsScope(old)
    BY <1>2 DEF CrateTyped
  <2> HIDE DEF old, dids
  <2> QED BY <2>1, OverrideParts DEF old
<1>4. \A d \in defaults : OwnEntry(d) /\ old.name_map[d] = OwnMeta(d) /\ d \in AssocItems
  <2> TAKE d \in defaults
  <2>1. d \in AssocItems /\ d \in DOMAIN scope.name_map
    BY DEF AssocItems
  <2>2. OwnEntry(d)
    BY <1>2, <2>1 DEF Entries, LibEntry, ExportEntry
  <2> QED BY <1>2, <2>1, <2>2 DEF OwnEntry
<1>5. \A d \in defaults : old.name_map[d].is_default_trait_impl
  <2> TAKE d \in defaults
  <2>1. \E t \in Traits : d \in AssocFns[t]
    BY <1>4 DEF AssocItems
  <2>2. TraitOfAssoc(d) \in Traits
    BY <2>1 DEF TraitOfAssoc
  <2>3. OwnMeta(d).is_default_trait_impl = (TraitOfAssoc(d) # NoItem)
    BY DEF OwnMeta, Meta
  <2>4. old.name_map[d] = OwnMeta(d) /\ TraitOfAssoc(d) # NoItem
    BY <1>4, <2>2, CrateAssumption
  <2> HIDE DEF old
  <2> QED BY <2>3, <2>4
<1>6. /\ IsScope(scope') /\ scope'.name_map = r.name_map /\ scope'.errors = r.errors
      /\ scope'.closure_info = r.closure_info /\ (scope'.panic <=> r.panic \/ cyclic(TraitDeps))
      /\ scope'.translated_functions = r.translated_functions
      /\ scope'.specced_functions = r.specced_functions
  <2> HIDE DEF r
  <2>1. DOMAIN r = Fields
    BY <1>3 DEF IsScope
  <2>2. scope' = [x \in Fields |-> scope'[x]]
    BY <1>1, <2>1
  <2> QED BY <1>1, <2>1, <2>2 DEF IsScope, Fields
<1>7. DOMAIN traits' = DOMAIN traits /\ traits'.decls = ts /\ traits'.literals = known
  BY <1>1, <1>2 DEF CrateTyped
<1> HIDE DEF r
<1>8. CrateTyped' /\ Untranslated'
  BY <1>1, <1>2, <1>3, <1>6, <1>7 DEF CrateTyped, Untranslated
<1>9. TraitsOk'
  BY <1>2, <1>7 DEF TraitsOk
<1>10. (scope'.panic => cyclic(TraitDeps)) /\ ClosuresFirst'
  BY <1>2, <1>3, <1>5, <1>6 DEF ClosuresFirst
<1>11. Entries'
  <2>1. SUFFICES ASSUME NEW d \in DOMAIN scope.name_map
                 PROVE  (LibEntry(d) \/ OwnEntry(d) \/ ExportEntry(d))'
    BY <1>3, <1>6 DEF Entries
  <2>3. \A f : FunctionMode(f)' = FunctionMode(f) /\ OwnMeta(f)' = OwnMeta(f) /\ ExportMeta(f)' = ExportMeta(f)
    BY <1>1, SameProgram
  <2>4. CASE d \in defaults
    <3>1. \E t \in traits'.decls : d \in AssocFns[t]
      BY <1>7, <2>4
    <3>2. scope'.name_map[d] = [OwnMeta(d) EXCEPT !.spec_name = <<"base_spec", d>>] /\ d \in Bodies
      BY <1>3, <1>4, <1>6, <2>4 DEF OwnEntry
    <3> QED BY <2>3, <3>1, <3>2 DEF OwnEntry
  <2>5. CASE d \notin defaults
    <3>1. scope'.name_map[d] = scope.name_map[d] /\ DOMAIN scope'.name_map = DOMAIN scope.name_map
      BY <1>3, <1>6, <2>5
    <3>2. ~\E t \in traits'.decls : d \in AssocFns[t]
      BY <1>7, <2>5
    <3>3. LibEntry(d) \/ OwnEntry(d) \/ ExportEntry(d)
      BY <1>2 DEF Entries
    <3>4. CASE LibEntry(d)
      BY <3>1, <3>4 DEF LibEntry
    <3>5. CASE OwnEntry(d)
      BY <1>2, <2>3, <3>1, <3>2, <3>5 DEF OwnEntry
    <3>6. CASE ExportEntry(d)
      BY <1>1, <2>3, <3>1, <3>6 DEF ExportEntry
    <3> QED BY <3>3, <3>4, <3>5, <3>6
  <2> QED BY <2>4, <2>5
<1> QED
  BY <1>1, <1>8, <1>9, <1>10, <1>11 DEF CrateInv, Outputs

LEMMA AllTurns ==
  /\ Turns \in Seq(Bodies) /\ Len(Turns) \in Nat
  /\ {Turns[i] : i \in 1 .. Len(Turns)} = Bodies
  /\ \A i, j \in 1 .. Len(Turns) : Turns[i] = Turns[j] => i = j
<1>1. FunctionOrder \in Seq(Bodies) /\ ClosureOrder \in Seq(Bodies)
  BY CrateAssumption DEF Bodies
<1>2. ToSet(FunctionOrder) = Functions /\ ToSet(ClosureOrder) = Closures
  BY DEF ToSet, Functions, Closures, Range
<1>3. Turns \in Seq(Bodies) /\ ToSet(Turns) = Bodies
  BY <1>1, <1>2, JoinedElements DEF Bodies, Turns
<1>4. DOMAIN Turns = 1 .. Len(Turns) /\ Len(Turns) \in Nat
  BY <1>3
<1>5. \A i, j \in DOMAIN Turns : Turns[i] = Turns[j] => i = j
  BY CrateAssumption DEF Turns
<1> QED
  BY <1>3, <1>4, <1>5 DEF ToSet

\* The next body has not had its turn, and the closures come first.
LEMMA NextTurn ==
  ASSUME InTurn, todo # << >>, todo' = Tail(todo)
  PROVE  /\ InTurn' /\ Head(todo) \in Bodies
         /\ Past' = Past \cup {Head(todo)} /\ Head(todo) \notin Past
         /\ Head(todo) \notin Closures => Closures \subseteq Past
<1> DEFINE n == Len(Turns) - Len(todo)
           f == Head(todo)
<1>1. /\ Len(todo) \in Nat /\ Len(todo) >= 1 /\ n \in Nat /\ n + 1 <= Len(Turns)
      /\ Len(todo') = Len(todo) - 1 /\ todo' \in Seq(Bodies) /\ f = todo[1] /\ f \in Bodies
      /\ \A i \in 1 .. Len(todo') : todo'[i] = todo[i + 1]
  <2>1. todo \in Seq(Bodies) /\ Len(todo) <= Len(Turns) /\ Len(Turns) \in Nat
    BY AllTurns DEF InTurn
  <2>2. /\ Len(todo) \in Nat /\ Len(todo) >= 1
        /\ Len(todo') = Len(todo) - 1 /\ todo' \in Seq(Bodies) /\ f = todo[1] /\ f \in Bodies
        /\ \A i \in 1 .. Len(todo') : todo'[i] = todo[i + 1]
    <3> HIDE DEF Bodies
    <3> QED BY <2>1
  <2> QED BY <2>1, <2>2
<1>2. Len(Turns) - Len(todo') = n + 1
  BY <1>1, AllTurns
<1>3. f = Turns[n + 1]
  BY <1>1 DEF InTurn
<1>4. InTurn'
  <2>1. \A i \in 1 .. Len(todo') : todo'[i] = Turns[(Len(Turns) - Len(todo')) + i]
    <3> TAKE i \in 1 .. Len(todo')
    <3>1. i + 1 \in 1 .. Len(todo) /\ n + (i + 1) = (n + 1) + i
      BY <1>1
    <3>2. todo'[i] = Turns[n + (i + 1)]
      BY <1>1, <3>1 DEF InTurn
    <3> HIDE DEF n
    <3> QED BY <1>2, <3>1, <3>2
  <2> QED BY <1>1, <2>1, AllTurns DEF InTurn
<1>5. Past = {Turns[i] : i \in 1 .. n}
  BY DEF Past
<1>6. Past' = {Turns[i] : i \in 1 .. (n + 1)}
  BY <1>2 DEF Past
<1> HIDE DEF n, f
<1>7. 1 .. (n + 1) = (1 .. n) \cup {n + 1}
  BY <1>1
<1>8. Past' = Past \cup {f}
  BY <1>3, <1>5, <1>6, <1>7
<1>9. f \notin Past
  <2> SUFFICES ASSUME NEW i \in 1 .. n, Turns[i] = f PROVE FALSE
    BY <1>5
  <2>1. i \in 1 .. Len(Turns) /\ n + 1 \in 1 .. Len(Turns) /\ i # n + 1
    <3>1. n \in Nat /\ n + 1 <= Len(Turns) /\ Len(Turns) \in Nat
      BY <1>1, AllTurns
    <3> QED BY <3>1
  <2> QED BY <1>3, <2>1, AllTurns
<1>10. ASSUME f \notin Closures PROVE Closures \subseteq Past
  <2> DEFINE m == Len(ClosureOrder)
  <2>1. m \in Nat /\ m <= Len(Turns) /\ \A i \in 1 .. m : Turns[i] = ClosureOrder[i]
    BY CrateAssumption DEF Turns
  <2>2. Closures = {ClosureOrder[i] : i \in 1 .. m}
    <3>1. DOMAIN ClosureOrder = 1 .. m
      BY CrateAssumption
    <3> QED BY <3>1 DEF Closures, Range
  <2> HIDE DEF m
  <2>3. ~(n + 1 <= m)
    BY <1>1, <1>3, <1>10, <2>1, <2>2
  <2>4. \A i \in 1 .. m : i \in 1 .. n
    BY <1>1, <2>1, <2>3
  <2> QED BY <1>5, <2>1, <2>2, <2>4
<1> QED
  BY <1>1, <1>4, <1>8, <1>9, <1>10 DEF f

LEMMA ImplsKeep ==
  ASSUME CrateInv, RegisterImpls
  PROVE  CrateInv'
<1>1. /\ phase = "impls" /\ phase' = "translate" /\ scope' = scope /\ skipped' = skipped
      /\ traits' = [traits EXCEPT !.impl_literals = @ \cup register_trait_impls,
                                  !.closure_impls = register_closure_impls]
      /\ program' = program /\ todo' = Turns
  BY DEF RegisterImpls, translate_functions, Turns
<1>2. CrateTyped /\ ~scope.panic /\ Untranslated /\ Entries /\ TraitsOk
  BY <1>1 DEF CrateInv
<1>3. /\ DOMAIN traits' = DOMAIN traits /\ traits'.decls = traits.decls
      /\ traits'.literals = traits.literals /\ traits'.closure_impls = register_closure_impls
  BY <1>1, <1>2 DEF CrateTyped
<1>4. CrateTyped' /\ ~scope'.panic /\ TraitsOk'
  BY <1>1, <1>2, <1>3 DEF CrateTyped, TraitsOk
<1>5. Entries'
  BY <1>1, <1>2, <1>3, EntriesStay
<1>6. Written' = {} /\ TranslatedRight'
  BY <1>1, <1>2 DEF Untranslated, Written, TranslatedRight
<1>7. InTurn' /\ Past' = {}
  <2>1. Len(todo') = Len(Turns) /\ Len(Turns) - Len(todo') = 0
    BY <1>1, AllTurns
  <2>2. Past' = {Turns[i] : i \in 1 .. 0}
    BY <2>1 DEF Past
  <2>3. \A i \in 1 .. Len(todo') : (Len(Turns) - Len(todo')) + i = i
    BY <2>1
  <2> QED BY <1>1, <2>1, <2>2, <2>3, AllTurns DEF InTurn
<1>8. \A p \in register_closure_impls : p[1] \in DOMAIN scope.name_map /\ needs_spec(mode(p[1]))
  BY DEF register_closure_impls, Specified, lookup_function, mode
<1>9. Translating'
  BY <1>1, <1>3, <1>6, <1>7, <1>8 DEF Translating, mode
<1> QED
  BY <1>1, <1>4, <1>5, <1>6, <1>9 DEF CrateInv, Outputs, ClosuresFirst

\* The mode is one the item is annotated with.
LEMMA MostRestrictive ==
  ASSUME NEW item
  PROVE  LET m == get_most_restrictive_function_mode(item)
         IN  m \in Modes /\ (m # "prove" => m \in attrs(item))
<1> DEFINE given == {i \in DOMAIN ModeAttrs : ModeAttrs[i] \in attrs(item)}
<1>1. \A i \in DOMAIN ModeAttrs : ModeAttrs[i] \in Modes
  BY DEF ModeAttrs, Modes
<1>2. given # {} => Min(given) \in given
  <2>1. given \subseteq Nat
    BY DEF ModeAttrs
  <2> HIDE DEF given
  <2> SUFFICES ASSUME given # {} PROVE Min(given) \in given
    OBVIOUS
  <2>2. \E n \in given : \A m \in given : n <= m
    BY <2>1, LeastNumber
  <2> QED BY <2>2 DEF Min
<1> QED
  BY <1>1, <1>2 DEF get_most_restrictive_function_mode, Modes

\* A body is annotated with one of the modes, and is only ignored if it says
\* so, or its impl.
LEMMA ModeKnown ==
  ASSUME NEW f
  PROVE  /\ FunctionMode(f) \in Modes
         /\ FunctionMode(f) = "ignore" =>
              "ignore" \in attrs(f) \/ (ImplOf[f] # NoItem /\ "ignore" \in attrs(ImplOf[f]))
<1> DEFINE own == get_most_restrictive_function_mode(f)
           impl == get_most_restrictive_function_mode(ImplOf[f])
<1>1. /\ own \in Modes /\ (own # "prove" => own \in attrs(f))
      /\ impl \in Modes /\ (impl # "prove" => impl \in attrs(ImplOf[f]))
  BY MostRestrictive
<1> QED
  BY <1>1 DEF FunctionMode, Modes

\* The entry of a body is its own.
LEMMA BodyEntry ==
  ASSUME Entries, NEW f \in Bodies, f \in DOMAIN scope.name_map
  PROVE  OwnEntry(f) /\ mode(f) = FunctionMode(f) /\ mode(f) \in Modes
<1>1. OwnEntry(f)
  BY DEF Entries, LibEntry, ExportEntry
<1>2. OwnMeta(f).mode = FunctionMode(f) /\ [OwnMeta(f) EXCEPT !.spec_name = <<"base_spec", f>>].mode = FunctionMode(f)
  BY DEF OwnMeta, Meta
<1>3. mode(f) = FunctionMode(f)
  BY <1>1, <1>2 DEF OwnEntry, mode
<1> QED
  BY <1>1, <1>3, ModeKnown

\* What a translated body leaves.
LEMMA ProvidedParts ==
  ASSUME IsScope(scope), NEW f
  PROVE  /\ IsScope(Provided(f))
         /\ Provided(f).name_map = scope.name_map /\ Provided(f).errors = scope.errors
         /\ Provided(f).translated_functions = scope.translated_functions
              \cup (IF mode(f) = "only_spec" THEN {} ELSE {f})
         /\ Provided(f).specced_functions = scope.specced_functions
              \cup (IF mode(f) = "only_spec" THEN {f} ELSE {})
         /\ DOMAIN Provided(f).closure_info = DOMAIN scope.closure_info
              \cup (IF f \in Closures THEN {f} ELSE {})
         /\ f \notin Written /\ mode(f) \in Modes \ {"shim", "ignore"} => (Provided(f).panic <=> scope.panic)
<1> DEFINE t == provide_translated_function(scope, f)
           s == provide_specced_function(scope, f)
           w == IF mode(f) = "only_spec" THEN s ELSE t
<1>1. DOMAIN scope = Fields
  BY DEF IsScope
<1>2. /\ t = [x \in Fields |-> t[x]]
      /\ t.name_map = scope.name_map /\ t.errors = scope.errors /\ t.closure_info = scope.closure_info
      /\ t.translated_functions = scope.translated_functions \cup {f}
      /\ t.specced_functions = scope.specced_functions
      /\ t.panic <=> \/ scope.panic \/ f \in scope.translated_functions
                     \/ ~(needs_def(mode(f)) \/ mode(f) = "code_shim")
  BY <1>1 DEF provide_translated_function, Fields, mode
<1>3. /\ s = [x \in Fields |-> s[x]]
      /\ s.name_map = scope.name_map /\ s.errors = scope.errors /\ s.closure_info = scope.closure_info
      /\ s.translated_functions = scope.translated_functions
      /\ s.specced_functions = scope.specced_functions \cup {f}
      /\ s.panic <=> scope.panic \/ f \in scope.specced_functions \/ mode(f) # "only_spec"
  BY <1>1 DEF provide_specced_function, Fields, mode
<1>4. Provided(f) = IF f \in Closures THEN provide_closure_info(w, f) ELSE w
  BY DEF Provided, mode
<1> HIDE DEF t, s
<1>5. /\ w = [x \in Fields |-> w[x]]
      /\ w.name_map = scope.name_map /\ w.errors = scope.errors /\ w.closure_info = scope.closure_info
      /\ w.translated_functions = scope.translated_functions
              \cup (IF mode(f) = "only_spec" THEN {} ELSE {f})
      /\ w.specced_functions = scope.specced_functions
              \cup (IF mode(f) = "only_spec" THEN {f} ELSE {})
  BY <1>2, <1>3
<1>6. f \notin Written /\ mode(f) \in Modes \ {"shim", "ignore"} => (w.panic <=> scope.panic)
  BY <1>2, <1>3 DEF Written, Modes, needs_def
<1> HIDE DEF w
<1>7. LET c == provide_closure_info(w, f)
      IN  /\ c = [x \in Fields |-> c[x]]
          /\ c.name_map = w.name_map /\ c.errors = w.errors /\ c.panic = w.panic
          /\ c.translated_functions = w.translated_functions
          /\ c.specced_functions = w.specced_functions
          /\ DOMAIN c.closure_info = DOMAIN w.closure_info \cup {f}
  <2>1. DOMAIN w = Fields
    BY <1>5
  <2> QED BY <2>1 DEF provide_closure_info, Fields, Inserted
<1>8. CASE f \in Closures
  BY <1>4, <1>5, <1>6, <1>7, <1>8 DEF IsScope
<1>9. CASE f \notin Closures
  BY <1>4, <1>5, <1>6, <1>9 DEF IsScope
<1> QED
  BY <1>8, <1>9

\* A body that is done has a specification, and its callees have entries.
LEMMA DoneRight ==
  ASSUME NEW f, "done" \in Outcomes(f)
  PROVE  SpecTranslated(f) /\ (mode(f) # "only_spec" => BodyTranslated(f))
BY DEF Outcomes, mode

LEMMA TranslateKeeps ==
  ASSUME CrateInv, TranslateNext
  PROVE  CrateInv'
<1>0. PICK f : f = Head(todo)
  OBVIOUS
<1>1. /\ phase = "translate" /\ todo # << >> /\ todo' = Tail(todo)
      /\ program' = program /\ traits' = traits
      /\ \/ Counted(f) /\ \E outcome \in Outcomes(f) : translate_function(f, outcome)
         \/ ~Counted(f) /\ scope' = scope /\ skipped' = skipped /\ phase' = phase
  BY <1>0 DEF TranslateNext, Counted, lookup_function, mode
<1>2. /\ CrateTyped /\ ~scope.panic /\ Entries /\ TraitsOk /\ TranslatedRight /\ Translating
  BY <1>1 DEF CrateInv
<1>3. /\ InTurn' /\ f \in Bodies /\ Past' = Past \cup {f} /\ f \notin Past
      /\ f \notin Closures => Closures \subseteq Past
  BY <1>0, <1>1, <1>2, NextTurn DEF Translating
<1>4. \A x : Callees(x)' = Callees(x) /\ CalledClosures(x)' = CalledClosures(x)
  BY <1>1, SameProgram
\* The registry says the same of what there was; f may be skipped.
<1>5. ASSUME IsScope(scope'), scope'.errors \in BOOLEAN, scope'.name_map = scope.name_map,
             scope'.translated_functions = scope.translated_functions,
             scope'.specced_functions = scope.specced_functions,
             scope'.closure_info = scope.closure_info, skipped \subseteq skipped'
      PROVE  /\ CrateTyped' /\ Entries' /\ TraitsOk' /\ TranslatedRight'
             /\ \A x \in Past : Counted(x)' => Settled(x)'
             /\ Written' \subseteq Past'
             /\ \A p \in traits'.closure_impls : p[1] \in DOMAIN scope'.name_map /\ needs_spec(mode(p[1]))'
             /\ \A x : Counted(x)' <=> Counted(x)
  <2>1. CrateTyped' /\ TraitsOk'
    BY <1>1, <1>2, <1>5 DEF CrateTyped, TraitsOk
  <2>2. Entries'
    BY <1>1, <1>2, <1>5, EntriesStay
  <2>3. Written' = Written /\ \A x : mode(x)' = mode(x)
    BY <1>5 DEF Written, mode
  <2>4. TranslatedRight'
    BY <1>1, <1>2, <1>4, <1>5, <2>3 DEF TranslatedRight
  <2>5. \A x \in Past : Counted(x)' => Settled(x)'
    BY <1>2, <1>5, <2>3 DEF Translating, Counted, Settled
  <2>6. Written' \subseteq Past'
    BY <1>2, <1>3, <2>3 DEF Translating
  <2>7. \A p \in traits'.closure_impls : p[1] \in DOMAIN scope'.name_map /\ needs_spec(mode(p[1]))'
    BY <1>1, <1>2, <1>5, <2>3 DEF Translating
  <2>8. \A x : Counted(x)' <=> Counted(x)
    BY <1>5, <2>3 DEF Counted
  <2> QED BY <2>1, <2>2, <2>4, <2>5, <2>6, <2>7, <2>8
<1>6. CASE ~Counted(f) /\ scope' = scope /\ skipped' = skipped /\ phase' = phase
  <2>1. /\ CrateTyped' /\ Entries' /\ TraitsOk' /\ TranslatedRight'
        /\ \A x \in Past : Counted(x)' => Settled(x)'
        /\ Written' \subseteq Past'
        /\ \A p \in traits'.closure_impls : p[1] \in DOMAIN scope'.name_map /\ needs_spec(mode(p[1]))'
        /\ ~Counted(f)'
    BY <1>2, <1>5, <1>6 DEF CrateTyped
  <2>2. Translating'
    BY <1>3, <2>1 DEF Translating
  <2> QED BY <1>1, <1>2, <1>6, <2>1, <2>2 DEF CrateInv, Outputs, ClosuresFirst
<1>7. ASSUME NEW outcome \in Outcomes(f), Counted(f), translate_function(f, outcome)
      PROVE  CrateInv'
  <2>1. /\ skipped' = IF outcome = "skipped" THEN skipped \cup {f} ELSE skipped
        /\ scope' = CASE outcome = "fatal" -> [scope EXCEPT !.errors = TRUE]
                      [] outcome = "panic" -> [scope EXCEPT !.panic = TRUE]
                      [] outcome = "done" /\ ~scope.errors -> Provided(f)
                      [] OTHER -> scope
        /\ phase' = CASE outcome = "panic" -> "failed"
                      [] outcome = "skipped" /\ ~program.skip_unsupported -> "failed"
                      [] outcome = "fatal" -> "assemble"
                      [] outcome = "done" /\ scope.errors -> "assemble"
                      [] OTHER -> phase
    BY <1>7 DEF translate_function
  <2>2. outcome \in {"fatal", "skipped", "panic", "done"}
    BY <1>7 DEF Outcomes
  <2>3. CASE outcome = "skipped"
    <3>1. scope' = scope /\ skipped' = skipped \cup {f} /\ (phase' = "failed" \/ phase' = phase)
      BY <2>1, <2>3
    <3>2. /\ CrateTyped' /\ Entries' /\ TraitsOk' /\ TranslatedRight'
          /\ \A x \in Past : Counted(x)' => Settled(x)'
          /\ Written' \subseteq Past'
          /\ \A p \in traits'.closure_impls : p[1] \in DOMAIN scope'.name_map /\ needs_spec(mode(p[1]))'
      BY <1>2, <1>5, <3>1 DEF CrateTyped
    <3>3. Settled(f)'
      BY <3>1 DEF Settled
    <3>4. Translating'
      BY <1>3, <3>2, <3>3 DEF Translating
    <3> QED BY <1>1, <1>2, <3>1, <3>2, <3>4 DEF CrateInv, Outputs, ClosuresFirst
  <2>4. CASE outcome = "fatal" \/ (outcome = "done" /\ scope.errors)
    <3>1. /\ scope' = (IF outcome = "fatal" THEN [scope EXCEPT !.errors = TRUE] ELSE scope)
          /\ skipped' = skipped /\ phase' = "assemble"
      BY <2>1, <2>4
    <3>2. /\ IsScope(scope') /\ scope'.errors = TRUE /\ scope'.panic = scope.panic
          /\ scope'.name_map = scope.name_map
          /\ scope'.translated_functions = scope.translated_functions
          /\ scope'.specced_functions = scope.specced_functions
          /\ scope'.closure_info = scope.closure_info
      <4>1. DOMAIN scope = Fields
        BY <1>2 DEF CrateTyped, IsScope
      <4>2. CASE outcome = "fatal"
        <5>1. scope' = [scope EXCEPT !.errors = TRUE]
          BY <3>1, <4>2
        <5>2. scope' = [x \in Fields |-> scope'[x]]
          BY <4>1, <5>1
        <5> QED BY <4>1, <5>1, <5>2 DEF IsScope, Fields
      <4>3. CASE outcome # "fatal"
        BY <1>2, <2>4, <3>1, <4>3 DEF CrateTyped
      <4> QED BY <4>2, <4>3
    <3>3. CrateTyped' /\ Entries' /\ TraitsOk' /\ TranslatedRight'
      BY <1>5, <3>1, <3>2
    <3> QED BY <1>2, <3>1, <3>2, <3>3 DEF CrateInv, Outputs, ClosuresFirst, AllSettled
  <2>5. CASE outcome = "panic"
    <3>1. scope' = [scope EXCEPT !.panic = TRUE] /\ skipped' = skipped /\ phase' = "failed"
      BY <2>1, <2>5
    <3>2. /\ IsScope(scope') /\ scope'.errors = scope.errors
      <4>1. DOMAIN scope = Fields
        BY <1>2 DEF CrateTyped, IsScope
      <4>2. scope' = [x \in Fields |-> scope'[x]]
        BY <3>1, <4>1
      <4> QED BY <3>1, <4>1, <4>2 DEF IsScope, Fields
    <3>3. CrateTyped'
      BY <1>1, <1>2, <3>2 DEF CrateTyped
    <3>4. PICK c \in CalledClosures(f) :
            <<c, Kind[c]>> \in traits.closure_impls /\ c \notin DOMAIN scope.closure_info
      BY <1>7, <2>5 DEF Outcomes, ClosureMissing, register_use_closure_panics,
               get_closure_impl_spec_term
    <3>5. c \in Closures /\ Counted(c)
      BY <1>2, <3>4 DEF Translating, CalledClosures, Counted, needs_spec
    <3>6. f \in Closures \/ c \in skipped
      <4> SUFFICES ASSUME f \notin Closures PROVE c \in skipped
        OBVIOUS
      <4>1. c \in Past
        BY <1>3, <3>5
      <4> QED BY <1>2, <3>4, <3>5, <4>1 DEF Translating, Settled
    <3>7. ClosuresFirst'
      BY <1>3, <1>4, <3>1, <3>4, <3>6 DEF ClosuresFirst
    <3> QED BY <3>1, <3>3, <3>7 DEF CrateInv, Outputs
  <2>6. CASE outcome = "done" /\ ~scope.errors
    <3>1. scope' = Provided(f) /\ skipped' = skipped /\ phase' = phase
      BY <2>1, <2>6
    <3> DEFINE m == mode(f)
    <3>2. m \in Modes \ {"shim", "ignore"} /\ f \in DOMAIN scope.name_map
      BY <1>2, <1>3, <1>7, BodyEntry DEF Counted
    <3>3. f \notin Written
      BY <1>2, <1>3 DEF Translating
    <3>4. /\ IsScope(scope')
          /\ scope'.name_map = scope.name_map /\ scope'.errors = scope.errors
          /\ scope'.translated_functions = scope.translated_functions \cup (IF m = "only_spec" THEN {} ELSE {f})
          /\ scope'.specced_functions = scope.specced_functions \cup (IF m = "only_spec" THEN {f} ELSE {})
          /\ DOMAIN scope'.closure_info = DOMAIN scope.closure_info \cup (IF f \in Closures THEN {f} ELSE {})
          /\ ~scope'.panic
      BY <1>2, <3>1, <3>2, <3>3, ProvidedParts DEF CrateTyped
    <3>5. SpecTranslated(f) /\ (m # "only_spec" => BodyTranslated(f))
      BY <1>7, <2>6, DoneRight
    <3>6. CrateTyped' /\ TraitsOk' /\ Entries'
      BY <1>1, <1>2, <3>4, EntriesStay DEF CrateTyped, TraitsOk
    <3>7. Written' = Written \cup {f} /\ \A x : mode(x)' = mode(x)
      BY <3>4 DEF Written, mode
    <3>8. TranslatedRight'
      <4>1. ASSUME NEW x \in scope'.translated_functions
            PROVE  /\ x \in Bodies /\ x \in DOMAIN scope'.name_map
                   /\ mode(x)' \in {"prove", "trust_me", "code_shim"}
                   /\ Callees(x)' \subseteq DOMAIN scope'.name_map
        <5>1. CASE x \in scope.translated_functions
          BY <1>2, <1>4, <3>4, <3>7, <5>1 DEF TranslatedRight
        <5>2. CASE x = f /\ m # "only_spec"
          BY <1>3, <1>4, <3>2, <3>4, <3>5, <3>7, <5>2 DEF BodyTranslated, register_use_procedure, lookup_function, Modes
        <5> QED BY <3>4, <4>1, <5>1, <5>2
      <4>2. ASSUME NEW x \in scope'.specced_functions
            PROVE  x \in Bodies /\ x \in DOMAIN scope'.name_map /\ mode(x)' = "only_spec"
        <5>1. CASE x \in scope.specced_functions
          BY <1>2, <3>4, <3>7, <5>1 DEF TranslatedRight
        <5>2. CASE x = f /\ m = "only_spec"
          BY <1>3, <3>2, <3>4, <3>7, <5>2
        <5> QED BY <3>4, <4>2, <5>1, <5>2
      <4>3. \A x \in Written' : TraitOfAssoc(x) # NoItem => TraitOfAssoc(x) \in traits'.literals
        BY <1>1, <1>2, <3>5, <3>7 DEF TranslatedRight, SpecTranslated,
               new, new_closure, setup_local_scope
      <4> QED BY <4>1, <4>2, <4>3 DEF TranslatedRight
    <3>9. Settled(f)' /\ \A x \in Past : Counted(x)' => Settled(x)'
      BY <1>2, <3>1, <3>4, <3>7 DEF Translating, Counted, Settled
    <3>10. Written' \subseteq Past'
      BY <1>2, <1>3, <3>7 DEF Translating
    <3>11. \A p \in traits'.closure_impls : p[1] \in DOMAIN scope'.name_map /\ needs_spec(mode(p[1]))'
      BY <1>1, <1>2, <3>4, <3>7 DEF Translating
    <3>12. Translating'
      BY <1>3, <3>9, <3>10, <3>11 DEF Translating
    <3> QED BY <1>1, <3>1, <3>4, <3>6, <3>8, <3>12 DEF CrateInv, Outputs, ClosuresFirst
  <2> QED BY <2>2, <2>3, <2>4, <2>5, <2>6
<1> QED
  BY <1>1, <1>6, <1>7

LEMMA EndKeeps ==
  ASSUME CrateInv, TranslateEnd
  PROVE  CrateInv'
<1>1. /\ phase = "translate" /\ todo = << >> /\ phase' = "assemble" /\ program' = program
      /\ scope' = scope /\ traits' = traits /\ skipped' = skipped
  BY DEF TranslateEnd
<1>2. /\ CrateTyped /\ ~scope.panic /\ Entries /\ TraitsOk /\ TranslatedRight /\ Translating
  BY <1>1 DEF CrateInv
<1>3. Past = Bodies
  BY <1>1, AllTurns DEF Past
<1>4. CrateTyped' /\ Entries' /\ TraitsOk'
  BY <1>1, <1>2, EntriesStay DEF CrateTyped, TraitsOk
<1>5. TranslatedRight'
  BY <1>1, <1>2, SameProgram DEF TranslatedRight, Written, mode
<1>6. AllSettled'
  BY <1>1, <1>2, <1>3 DEF Translating, AllSettled, Counted, Settled, Written, mode
<1> QED
  BY <1>1, <1>2, <1>4, <1>5, <1>6 DEF CrateInv, Outputs, ClosuresFirst

LEMMA AssembleKeeps ==
  ASSUME CrateInv, Assemble
  PROVE  CrateInv'
<1>1. /\ phase = "assemble" /\ phase' = "write" /\ program' = program
      /\ scope' = [scope EXCEPT !.closure_info = assemble_closure_impls]
      /\ traits' = traits /\ skipped \subseteq skipped'
  BY DEF Assemble
<1>2. /\ CrateTyped /\ ~scope.panic /\ Entries /\ TraitsOk /\ TranslatedRight /\ AllSettled
  BY <1>1 DEF CrateInv, Outputs
<1>3. /\ IsScope(scope') /\ scope'.name_map = scope.name_map /\ scope'.errors = scope.errors
      /\ scope'.panic = scope.panic
      /\ scope'.translated_functions = scope.translated_functions
      /\ scope'.specced_functions = scope.specced_functions
      /\ scope'.closure_info = assemble_closure_impls
  <2>1. DOMAIN scope = Fields
    BY <1>2 DEF CrateTyped, IsScope
  <2>2. scope' = [x \in Fields |-> scope'[x]]
    BY <1>1, <2>1
  <2> QED BY <1>1, <2>1, <2>2 DEF IsScope, Fields
<1>4. DOMAIN scope'.closure_info = DOMAIN scope.closure_info
  BY <1>3 DEF assemble_closure_impls
<1>5. CrateTyped' /\ Entries' /\ TraitsOk'
  BY <1>1, <1>2, <1>3, EntriesStay DEF CrateTyped, TraitsOk
<1>6. Written' = Written /\ \A x : mode(x)' = mode(x)
  BY <1>3 DEF Written, mode
<1>7. TranslatedRight'
  BY <1>1, <1>2, <1>3, <1>6, SameProgram DEF TranslatedRight
<1>8. AllSettled'
  BY <1>1, <1>2, <1>3, <1>4, <1>6 DEF AllSettled, Counted, Settled
<1> QED
  BY <1>1, <1>2, <1>3, <1>5, <1>7, <1>8 DEF CrateInv, Outputs, ClosuresFirst

LEMMA CrateNext ==
  CrateInv /\ LibrariesInv /\ [Next]_allvars => CrateInv'
<1> SUFFICES ASSUME CrateInv, LibrariesInv, [Next]_allvars
             PROVE  CrateInv'
  OBVIOUS
<1>1. CASE UNCHANGED allvars
  <2>1. /\ program' = program /\ phase' = phase /\ scope' = scope /\ traits' = traits
        /\ todo' = todo /\ skipped' = skipped /\ trait_impls' = trait_impls
    BY <1>1 DEF allvars, cratevars
  <2> QED BY <2>1, Unmoved
<1>2. CASE Start
  <2>1. /\ phase = "idle" /\ phase' = "libraries" /\ program' = program /\ scope' = scope
        /\ traits' = traits /\ todo' = todo /\ skipped' = skipped /\ trait_impls' = trait_impls
    BY <1>2 DEF Start, Begin
  <2>2. program \in Programs \cup Edits
    BY DEF CrateInv, CrateTyped
  <2> QED BY <2>1, <2>2, StillFresh
<1>3. CASE LoadLibraries
  <2>1. /\ phase = "libraries" /\ phase' = phase /\ program' = program /\ scope' = scope
        /\ traits' = traits /\ todo' = todo /\ skipped' = skipped /\ trait_impls' = trait_impls
    BY <1>3 DEF LoadLibraries, cratevars
  <2>2. program \in Programs \cup Edits
    BY DEF CrateInv, CrateTyped
  <2> QED BY <2>1, <2>2, StillFresh
<1>4. CASE RegisterShims
  <2>1. SourcesOnce
    BY <1>4 DEF RegisterShims, LibrariesInv
  <2> QED BY <1>4, <2>1, ShimsKeep
<1>5. CASE RegisterFunctions \/ RegisterTraits \/ RegisterImpls
  BY <1>5, FunctionsKeep, TraitsKeep, ImplsKeep
<1>6. CASE TranslateNext \/ TranslateEnd \/ Assemble
  BY <1>6, TranslateKeeps, EndKeeps, AssembleKeeps
<1>7. CASE Write
  <2>1. /\ phase \in Outputs /\ phase' \in Outputs /\ program' = program /\ scope' = scope
        /\ traits' = traits /\ todo' = todo /\ skipped' = skipped /\ trait_impls' = trait_impls
    BY <1>7 DEF Write, WriteInterface, PurgeGenerated, WriteSpecifications, WriteTemplates,
       CreateProof, FillProof, WriteProofsDune, memory, Outputs
  <2> QED BY <2>1, StillKnown
<1>8. CASE Exit \/ Kill
  BY <1>8, ForgetClean DEF Exit, Kill
<1>9. CASE Edit
  <2>1. /\ phase = "idle" /\ phase' = phase /\ program' \in Edits /\ scope' = scope
        /\ traits' = traits /\ todo' = todo /\ skipped' = skipped /\ trait_impls' = trait_impls
    BY <1>9 DEF Edit, cratevars
  <2> QED BY <2>1, StillFresh
<1>10. CASE EditProof
  <2>1. /\ program' = program /\ phase' = phase /\ scope' = scope /\ traits' = traits
        /\ todo' = todo /\ skipped' = skipped /\ trait_impls' = trait_impls
    BY <1>10 DEF EditProof, cratevars
  <2> QED BY <2>1, Unmoved
<1> QED
  BY <1>1, <1>2, <1>3, <1>4, <1>5, <1>6, <1>7, <1>8, <1>9, <1>10 DEF Next, TranslateCrate

\* In no run, on no crate, does the frontend panic for want of a closure that
\* it could have had: the closures have their turn before the functions, and
\* what a function calls has been translated, or skipped with a message.  Nor
\* does any of the other assertions of the registry fail.
THEOREM ClosuresComeFirst == Spec => []ClosuresFirst
<1>1. Init => CrateInv /\ LibrariesInv
  BY CrateInit, LibrariesInit
<1>2. CrateInv /\ LibrariesInv /\ [Next]_allvars => (CrateInv /\ LibrariesInv)'
  BY CrateNext, LibrariesNext
<1>3. CrateInv => ClosuresFirst
  BY DEF CrateInv
<1> QED
  BY <1>1, <1>2, <1>3, PTL DEF Spec

-----------------------------------------------------------------------------
(* What is written.                                                        *)

SpecificationsInv ==
  phase \in {"templates", "proofs", "fill", "done"} =>
    /\ code = CodeWritten /\ specs = SpecsWritten
    /\ order = order_defs_with_deps([t \in traits.decls |-> TraitDeps[t]])

LEMMA SpecificationsNext ==
  SpecificationsInv /\ [Next]_allvars => SpecificationsInv'
<1> SUFFICES ASSUME SpecificationsInv, [Next]_allvars
             PROVE  SpecificationsInv'
  OBVIOUS
<1>1. ASSUME phase' \notin {"templates", "proofs", "fill", "done"} PROVE SpecificationsInv'
  BY <1>1 DEF SpecificationsInv
<1>2. ASSUME phase \in {"templates", "proofs", "fill", "done"}, scope' = scope, traits' = traits,
             code' = code, specs' = specs, order' = order
      PROVE  SpecificationsInv'
  BY <1>2 DEF SpecificationsInv, CodeWritten, SpecsWritten, Generated, IsGenerated, Written, mode
<1>3. CASE UNCHANGED allvars \/ Edit \/ EditProof
  <2>1. scope' = scope /\ traits' = traits /\ code' = code /\ specs' = specs /\ order' = order /\ phase' = phase
    BY <1>3 DEF Edit, EditProof, allvars, files, cratevars
  <2> QED BY <1>1, <1>2, <2>1
<1>4. CASE Start \/ WriteInterface \/ PurgeGenerated \/ Exit \/ Kill
  BY <1>1, <1>4 DEF Start, Begin, WriteInterface, PurgeGenerated, Exit, Kill, Forget
<1>5. CASE TranslateCrate
  BY <1>1, <1>5, TranslatePhases
<1>6. CASE WriteSpecifications
  <2>1. /\ scope' = scope /\ traits' = traits
        /\ code' = CodeWritten /\ specs' = SpecsWritten
        /\ order' = order_defs_with_deps([t \in traits.decls |-> TraitDeps[t]])
    BY <1>6 DEF WriteSpecifications, memory, CodeWritten, SpecsWritten, get_registered_trait_deps
  <2>2. CodeWritten' = CodeWritten /\ SpecsWritten' = SpecsWritten
    BY <2>1 DEF CodeWritten, SpecsWritten, Generated, IsGenerated, Written, mode
  <2> QED BY <2>1, <2>2 DEF SpecificationsInv
<1>7. CASE WriteTemplates \/ CreateProof \/ FillProof \/ WriteProofsDune
  BY <1>2, <1>7 DEF WriteTemplates, CreateProof, FillProof, WriteProofsDune, memory, process
<1> QED
  BY <1>3, <1>4, <1>5, <1>6, <1>7 DEF Next, Write

LEMMA SpecificationsInit == Init => SpecificationsInv
BY DEF Init, NothingTranslated, SpecificationsInv

\* The specification that is generated for a function is there.
LEMMA TypeOfAvailable ==
  ASSUME CrateInv, SpecificationsInv, phase = "done",
         NEW g \in Bodies, g \in DOMAIN scope.name_map, FunctionMode(g) # "shim",
         ~\E t \in traits.decls : g \in AssocFns[t]
  PROVE  Own(g) \in specs \/ Reported(g)
<1>1. /\ Entries /\ TraitsOk /\ TranslatedRight /\ AllSettled /\ specs = SpecsWritten
  BY DEF CrateInv, SpecificationsInv, Outputs
<1>2. OwnEntry(g) /\ mode(g) = FunctionMode(g)
  BY <1>1, BodyEntry
<1>3. scope.name_map[g] = OwnMeta(g)
  BY <1>2 DEF OwnEntry
<1>4. CASE mode(g) = "ignore"
  BY <1>2, <1>4, ModeKnown DEF Reported
<1>5. CASE mode(g) # "ignore"
  <2>1. scope.errors \/ Settled(g)
    BY <1>1, <1>2, <1>5 DEF AllSettled, Counted
  <2>2. CASE scope.errors \/ g \in skipped
    BY <2>2 DEF Reported
  <2>3. CASE g \in Written
    <3>1. TraitOfAssoc(g) = NoItem
      <4> SUFFICES ASSUME TraitOfAssoc(g) # NoItem PROVE FALSE
        OBVIOUS
      <4>1. \E t \in Traits : g \in AssocFns[t]
        BY DEF TraitOfAssoc
      <4>2. TraitOfAssoc(g) \in Traits /\ g \in AssocFns[TraitOfAssoc(g)]
        BY <4>1 DEF TraitOfAssoc
      <4>3. TraitOfAssoc(g) \in traits.literals
        BY <1>1, <2>3 DEF TranslatedRight
      <4> QED BY <1>1, <4>2, <4>3 DEF TraitsOk
    <3>2. ~scope.name_map[g].is_default_trait_impl
      <4>1. OwnMeta(g).is_default_trait_impl = (TraitOfAssoc(g) # NoItem)
        BY DEF OwnMeta, Meta
      <4>2. OwnMeta(g).is_default_trait_impl = FALSE
        BY <3>1, <4>1
      <4> QED BY <1>3, <4>2
    <3> QED BY <1>1, <2>3, <3>2 DEF SpecsWritten
  <2> QED BY <2>1, <2>2, <2>3 DEF Settled
<1> QED
  BY <1>4, <1>5

LEMMA CallsAreSpecified ==
  ASSUME CrateInv, SpecificationsInv
  PROVE  CallsSpecified
<1> SUFFICES ASSUME phase = "done", NEW f \in Bodies, Own(f) \in code, NEW d \in Callees(f)
             PROVE  LET spec_name == scope.name_map[d].spec_name
                    IN  /\ SpecFor(d, spec_name)
                        /\ Available(spec_name) \/ Reported(spec_name[2])
  BY DEF CallsSpecified
<1>1. /\ CrateTyped /\ Entries /\ TraitsOk /\ TranslatedRight /\ code = CodeWritten
  BY DEF CrateInv, SpecificationsInv, Outputs
<1>2. f \in scope.translated_functions
  <2>1. Own(f) \notin Generated
    BY DEF Generated, IsGenerated, Own
  <2>2. PICK h \in scope.translated_functions : Own(f) = Own(h)
    BY <1>1, <2>1 DEF CodeWritten
  <2> QED BY <2>2 DEF Own
<1>3. d \in DOMAIN scope.name_map
  BY <1>1, <1>2 DEF TranslatedRight
<1> DEFINE spec_name == scope.name_map[d].spec_name
<1>4. CASE LibEntry(d)
  <2>1. spec_name = <<"lib", d>>
    BY <1>4 DEF LibEntry, Meta
  <2> QED BY <2>1 DEF SpecFor, Available
<1>5. CASE OwnEntry(d)
  <2>1. CASE \E t \in traits.decls : d \in AssocFns[t]
    <3>1. PICK t \in traits.decls : d \in AssocFns[t]
      BY <2>1
    <3>2. spec_name = <<"base_spec", d>>
      BY <1>5, <2>1 DEF OwnEntry, OwnMeta, Meta
    <3>3. t \in Traits
      BY <1>1 DEF TraitsOk
    <3>4. TraitOfAssoc(d) = t
      BY <3>1, <3>3, CrateAssumption DEF TraitOfAssoc
    <3> QED BY <3>2, <3>4 DEF SpecFor, Available
  <2>2. CASE ~\E t \in traits.decls : d \in AssocFns[t]
    <3>1. spec_name = OwnMeta(d).spec_name
      BY <1>5, <2>2 DEF OwnEntry
    <3>2. CASE FunctionMode(d) = "shim"
      <4>1. spec_name = <<"annotated", d>>
        BY <3>1, <3>2 DEF OwnMeta, Meta
      <4> QED BY <4>1 DEF SpecFor, Available
    <3>3. CASE FunctionMode(d) # "shim"
      <4>1. spec_name = <<"type_of", d>>
        BY <3>1, <3>3 DEF OwnMeta, Meta
      <4>2. Own(d) \in specs \/ Reported(d)
        BY <1>3, <1>5, <2>2, <3>3, TypeOfAvailable DEF OwnEntry
      <4> QED BY <4>1, <4>2 DEF SpecFor, Available
    <3> QED BY <3>2, <3>3
  <2> QED BY <2>1, <2>2
<1>6. CASE ExportEntry(d)
  <2>1. PICK g \in Bodies :
          /\ program.export_as[g] = d /\ d # NoItem
          /\ g \in DOMAIN scope.name_map /\ FunctionMode(g) \notin {"shim", "code_shim"}
          /\ scope.name_map[d] = ExportMeta(g)
    BY <1>6 DEF ExportEntry
  <2>2. spec_name = <<"type_of", g>> /\ d \notin Bodies
    BY <1>6, <2>1 DEF ExportMeta, Meta, ExportEntry
  <2>3. g \notin AssocItems
    BY <1>1, <2>1, ProgramAssumption DEF CrateTyped
  <2>4. ~\E t \in traits.decls : g \in AssocFns[t]
    BY <1>1, <2>3 DEF TraitsOk, AssocItems
  <2>5. Own(g) \in specs \/ Reported(g)
    BY <2>1, <2>4, TypeOfAvailable
  <2> QED BY <2>1, <2>2, <2>5 DEF SpecFor, Available
<1> QED
  BY <1>1, <1>3, <1>4, <1>5, <1>6 DEF Entries

\* Whatever a translated body calls has a specification: the one it uses is
\* one for that function, and it is where the generated code looks for it, in
\* a library, among the user's own, in the generated file or in the
\* declaration of a trait, unless the user was told that it is missing.
THEOREM EveryCallSpecified == Spec => []CallsSpecified
<1>1. Init => CrateInv /\ LibrariesInv /\ SpecificationsInv
  BY CrateInit, LibrariesInit, SpecificationsInit
<1>2. CrateInv /\ LibrariesInv /\ SpecificationsInv /\ [Next]_allvars
        => (CrateInv /\ LibrariesInv /\ SpecificationsInv)'
  BY CrateNext, LibrariesNext, SpecificationsNext
<1>3. CrateInv /\ SpecificationsInv => CallsSpecified
  BY CallsAreSpecified
<1> QED
  BY <1>1, <1>2, <1>3, PTL DEF Spec

-----------------------------------------------------------------------------
(* The order of the trait declarations.                                    *)

LEMMA TraitsOrdered ==
  ASSUME NEW ts, ts \subseteq Traits
  PROVE  LET deps == [t \in ts |-> TraitDeps[t]] IN DepsEarlier(order_defs_with_deps(deps), deps)
<1> DEFINE deps == [t \in ts |-> TraitDeps[t]]
           all == UNION {TraitDeps[t] : t \in Traits}
<1>1. IsFiniteSet(Traits) /\ \A t \in Traits : IsFiniteSet(TraitDeps[t])
  BY CrateAssumption
<1>2. IsFiniteSet({TraitDeps[t] : t \in Traits})
  <2> DEFINE dep == [t \in Traits |-> TraitDeps[t]]
             image == {TraitDeps[t] : t \in Traits}
  <2>1. dep \in Surjection(Traits, image)
    BY DEF Surjection
  <2> HIDE DEF dep, image
  <2> QED BY <1>1, <2>1, FS_Surjection DEF image
<1>3. IsFiniteSet(all)
  BY <1>1, <1>2, FS_UNION
<1>4. DefsOf(deps) \subseteq Traits \cup all
  BY DEF DefsOf
<1>5. IsFiniteSet(DefsOf(deps))
  <2> HIDE DEF all, deps
  <2> QED BY <1>1, <1>3, <1>4, FS_Union, FS_Subset
<1> HIDE DEF deps
<1>6. DepsEarlier(order_defs_with_deps(deps), deps)
  BY <1>5, LayersOrdered
<1> QED
  BY <1>6 DEF deps

-----------------------------------------------------------------------------
(* The templates and the proofs.                                           *)

LEMMA KeptIn ==
  ASSUME NEW S, NEW s \in Seq(S), NEW set
  PROVE  Kept(s, set) \in Seq(S) /\ Range(Kept(s, set)) = Range(s) \cap set
<1> DEFINE one(i) == IF s[i] \in set THEN <<s[i]>> ELSE <<>>
           seqs == [i \in DOMAIN s |-> one(i)]
<1>1. DOMAIN s = 1..Len(s) /\ Len(s) \in Nat /\ \A i \in 1..Len(s) : s[i] \in S
  OBVIOUS
<1>2. Kept(s, set) = FlattenSeq(seqs)
  BY DEF Kept
<1>3. \A i \in 1..Len(s) : /\ one(i) \in Seq(S)
                           /\ ToSet(one(i)) = {s[i]} \cap set
  BY <1>1 DEF ToSet
<1>4. /\ seqs \in Seq(Seq(S)) /\ Len(seqs) = Len(s)
      /\ \A i \in 1..Len(s) : seqs[i] = one(i)
  <2> HIDE DEF one
  <2>1. seqs \in [1..Len(s) -> Seq(S)] /\ \A i \in 1..Len(s) : seqs[i] = one(i)
    BY <1>1, <1>3
  <2> HIDE DEF seqs
  <2> QED BY <1>1, <2>1
<1> HIDE DEF seqs, one
<1>5. /\ Kept(s, set) \in Seq(S)
      /\ ToSet(Kept(s, set)) = UNION {ToSet(seqs[i]) : i \in 1..Len(seqs)}
  BY <1>2, <1>4, FlattenElements
<1>6. UNION {ToSet(seqs[i]) : i \in 1..Len(seqs)} = Range(s) \cap set
  <2>1. Range(s) = {s[i] : i \in 1..Len(s)}
    BY <1>1 DEF Range
  <2>2. \A i \in 1..Len(s) : ToSet(seqs[i]) = {s[i]} \cap set
    BY <1>3, <1>4
  <2>3. 1..Len(seqs) = 1..Len(s)
    BY <1>4
  <2>4. UNION {ToSet(seqs[i]) : i \in 1..Len(seqs)} = UNION {{s[i]} \cap set : i \in 1..Len(s)}
    BY <2>2, <2>3
  <2> QED
    BY <2>1, <2>4
<1> QED
  BY <1>5, <1>6 DEF Range, ToSet

\* The bodies of the crate, and what can be generated for its closures.
Calls == {<<c, kind>> : c \in Closures, kind \in Range(ClosureTraits)}
Writable == {Own(f) : f \in Bodies} \cup Calls

LEMMA KnownTraits ==
  ClosureTraits \in Seq(Range(ClosureTraits)) /\ "own" \notin Range(ClosureTraits)
<1>1. ClosureTraits = <<"FnOnce", "FnMut", "Fn">>
  BY DEF ClosureTraits
<1>2. DOMAIN ClosureTraits = 1..3 /\ Len(ClosureTraits) = 3
  BY <1>1
<1>3. \A i \in 1..3 : ClosureTraits[i] # "own"
  BY <1>1
<1> DEFINE T == Range(ClosureTraits)
<1>4. ClosureTraits \in Seq(T)
  <2>1. \A i \in 1..3 : ClosureTraits[i] \in T
    BY <1>2 DEF Range
  <2> HIDE DEF T
  <2> QED BY <1>1, <2>1
<1>5. "own" \notin T
  BY <1>2, <1>3 DEF Range
<1> QED
  BY <1>4, <1>5

LEMMA GeneratedIn ==
  GeneratedOrder \in Seq(Calls) /\ Range(GeneratedOrder) = Calls
<1> DEFINE T == Range(ClosureTraits)
           calls(i) == [k \in DOMAIN ClosureTraits |-> <<ClosureOrder[i], ClosureTraits[k]>>]
           seqs == [i \in DOMAIN ClosureOrder |-> calls(i)]
<1>1. ClosureOrder \in Seq(Closures) /\ Closures = Range(ClosureOrder)
  BY CrateAssumption DEF Closures
<1>2. /\ DOMAIN ClosureTraits = 1..Len(ClosureTraits) /\ Len(ClosureTraits) \in Nat
      /\ \A k \in DOMAIN ClosureTraits : ClosureTraits[k] \in T
  BY KnownTraits
<1>3. /\ DOMAIN ClosureOrder = 1..Len(ClosureOrder) /\ Len(ClosureOrder) \in Nat
      /\ \A i \in DOMAIN ClosureOrder : ClosureOrder[i] \in Closures
  BY <1>1
<1>4. Calls = {<<c, kind>> : c \in Closures, kind \in T}
  BY DEF Calls
<1> HIDE DEF T
<1>5. \A i \in DOMAIN ClosureOrder :
        calls(i) \in Seq(Calls) /\ ToSet(calls(i)) = {<<ClosureOrder[i], kind>> : kind \in T}
  <2> TAKE i \in DOMAIN ClosureOrder
  <2> DEFINE call == calls(i)
  <2>1. /\ call \in [1..Len(ClosureTraits) -> Calls] /\ DOMAIN call = DOMAIN ClosureTraits
        /\ \A k \in DOMAIN ClosureTraits : call[k] = <<ClosureOrder[i], ClosureTraits[k]>>
    BY <1>2, <1>3, <1>4
  <2> HIDE DEF call
  <2>2. call \in Seq(Calls)
    BY <1>2, <2>1
  <2>3. ToSet(call) = {<<ClosureOrder[i], kind>> : kind \in T}
    BY <1>2, <2>1 DEF ToSet, T, Range
  <2> QED BY <2>2, <2>3 DEF call
<1>6. /\ seqs \in Seq(Seq(Calls)) /\ Len(seqs) = Len(ClosureOrder)
      /\ \A i \in 1..Len(ClosureOrder) : seqs[i] = calls(i)
  <2> HIDE DEF calls
  <2>1. /\ seqs \in [1..Len(ClosureOrder) -> Seq(Calls)]
        /\ \A i \in 1..Len(ClosureOrder) : seqs[i] = calls(i)
    BY <1>3, <1>5
  <2> HIDE DEF seqs
  <2> QED BY <1>3, <2>1
<1>7. GeneratedOrder = FlattenSeq(seqs)
  BY DEF GeneratedOrder
<1> HIDE DEF seqs, calls
<1>8. /\ GeneratedOrder \in Seq(Calls)
      /\ ToSet(GeneratedOrder) = UNION {ToSet(seqs[i]) : i \in 1..Len(seqs)}
  BY <1>6, <1>7, FlattenElements
<1>9. UNION {ToSet(seqs[i]) : i \in 1..Len(seqs)} = UNION {{<<ClosureOrder[i], kind>> : kind \in T} : i \in DOMAIN ClosureOrder}
  <2>1. 1..Len(seqs) = DOMAIN ClosureOrder
    BY <1>3, <1>6
  <2>2. \A i \in DOMAIN ClosureOrder : ToSet(seqs[i]) = {<<ClosureOrder[i], kind>> : kind \in T}
    BY <1>3, <1>5, <1>6
  <2> QED BY <2>1, <2>2
<1>10. UNION {{<<ClosureOrder[i], kind>> : kind \in T} : i \in DOMAIN ClosureOrder} = Calls
  BY <1>1, <1>4 DEF Range
<1> QED
  BY <1>8, <1>9, <1>10 DEF Range, ToSet

LEMMA OwnIn == OwnOrder \in Seq(Writable) /\ Range(OwnOrder) = {Own(f) : f \in Bodies}
<1>1. /\ Turns \in Seq(Bodies) /\ Len(Turns) \in Nat
      /\ {Turns[i] : i \in 1..Len(Turns)} = Bodies
  BY AllTurns
<1>2. OwnOrder = [i \in DOMAIN Turns |-> Own(Turns[i])]
  BY DEF OwnOrder, Turns
<1>3. DOMAIN Turns = 1..Len(Turns) /\ \A i \in DOMAIN Turns : Turns[i] \in Bodies
  BY <1>1
<1> HIDE DEF Turns
<1>4. \A f \in Bodies : Own(f) \in Writable
  BY DEF Writable
<1>5. OwnOrder \in [1..Len(Turns) -> Writable]
  BY <1>2, <1>3, <1>4
<1>6. OwnOrder \in Seq(Writable)
  BY <1>1, <1>5
<1>7. Range(OwnOrder) = {Own(f) : f \in Bodies}
  BY <1>1, <1>2, <1>3 DEF Range
<1> QED
  BY <1>6, <1>7

LEMMA TranslatedIn ==
  ASSUME scope.translated_functions \subseteq Bodies
  PROVE  /\ Translated \in Seq(Writable)
         /\ Range(Translated) = {Own(f) : f \in scope.translated_functions} \cup Generated
<1> DEFINE owns == {Own(f) : f \in scope.translated_functions}
           own  == Kept(OwnOrder, owns)
           gen  == Kept(GeneratedOrder, Generated)
<1>1. own \in Seq(Writable) /\ Range(own) = owns
  <2>1. own \in Seq(Writable) /\ Range(own) = Range(OwnOrder) \cap owns
    <3> HIDE DEF owns
    <3> QED BY OwnIn, KeptIn
  <2>2. owns \subseteq Range(OwnOrder)
    BY OwnIn
  <2> HIDE DEF owns, own
  <2> QED BY <2>1, <2>2
<1>2. gen \in Seq(Writable) /\ Range(gen) = Generated
  <2>1. GeneratedOrder \in Seq(Writable)
    <3>1. GeneratedOrder \in Seq(Calls) /\ Calls \subseteq Writable
      BY GeneratedIn DEF Writable
    <3> QED BY <3>1
  <2>2. gen \in Seq(Writable) /\ Range(gen) = Range(GeneratedOrder) \cap Generated
    BY <2>1, KeptIn
  <2>3. Generated \subseteq Range(GeneratedOrder)
    BY DEF Generated
  <2> HIDE DEF gen
  <2> QED BY <2>2, <2>3
<1>3. Translated = own \o gen
  BY DEF Translated
<1> HIDE DEF own, gen, owns
<1>4. own \o gen \in Seq(Writable) /\ Range(own \o gen) = owns \cup Generated
  <2>1. ToSet(own \o gen) = ToSet(own) \cup ToSet(gen)
    BY <1>1, <1>2, JoinedElements
  <2>2. own \o gen \in Seq(Writable)
    BY <1>1, <1>2
  <2> QED BY <1>1, <1>2, <2>1, <2>2 DEF ToSet, Range
<1> QED
  BY <1>3, <1>4 DEF owns

\* No two of the items have the same name.
NamesApart == \A g, h \in Writable : name(g) = name(h) => g = h

LEMMA TemplateOf ==
  ASSUME NamesApart, Translated \in Seq(Writable), NEW g \in Range(Translated)
  PROVE  /\ name(g) \in DOMAIN Templates
         /\ Templates[name(g)] = IF check_function_needs_proof(g) THEN Lemma(g) ELSE Trusted(g)
<1> DEFINE Same(n) == {i \in DOMAIN Translated : name(Translated[i]) = n}
           LastOf(n) == Translated[Max(Same(n))]
           names == {name(h) : h \in Range(Translated)}
           file(h) == IF check_function_needs_proof(h) THEN Lemma(h) ELSE Trusted(h)
<1>1. /\ DOMAIN Translated = 1..Len(Translated) /\ Len(Translated) \in Nat
      /\ \A i \in DOMAIN Translated : Translated[i] \in Writable
  OBVIOUS
<1>2. PICK i \in DOMAIN Translated : g = Translated[i]
  BY DEF Range
<1>3. Same(name(g)) # {} /\ Same(name(g)) \subseteq DOMAIN Translated
  BY <1>2
<1>4. Max(Same(name(g))) \in Same(name(g))
  <2> DEFINE S == Same(name(g))
             D == DOMAIN Translated
  <2>1. IsFiniteSet(D) /\ D \subseteq Nat /\ S \in SUBSET D /\ S # {}
    <3>1. IsFiniteSet(1..Len(Translated))
      BY <1>1, FS_Interval
    <3> HIDE DEF Same
    <3> QED BY <1>1, <1>3, <3>1
  <2> HIDE DEF S, D
  <2>2. Max(S) \in S
    BY <2>1, MaxIn
  <2> QED BY <2>2 DEF S
<1>5. LastOf(name(g)) = g
  <2> DEFINE m == Max(Same(name(g)))
  <2>1. m \in DOMAIN Translated /\ name(Translated[m]) = name(g)
    BY <1>4
  <2> HIDE DEF m
  <2>2. Translated[m] = g
    BY <1>1, <1>2, <2>1 DEF NamesApart
  <2> QED BY <2>2 DEF m
<1>6. Templates = [n \in names |-> file(LastOf(n))]
  BY DEF Templates
<1>7. name(g) \in names
  OBVIOUS
<1> HIDE DEF LastOf, names, file
<1>8. Templates[name(g)] = file(g) /\ name(g) \in DOMAIN Templates
  BY <1>5, <1>6, <1>7
<1> QED
  BY <1>8 DEF file

LEMMA ProofsOf ==
  ASSUME Translated \in Seq(Writable), trait_impls \subseteq Impls
  PROVE  /\ ProofFiles \in Seq(Range(ProofFiles))
         /\ \A g \in Range(Translated) :
              check_function_needs_proof(g) => proof_file(name(g)) \in Range(ProofFiles)
         /\ \A i \in {Own(i) : i \in trait_impls} \cup Generated : trait_incl(i) \in Range(ProofFiles)
<1> DEFINE proving == {g \in Range(Translated) : check_function_needs_proof(g)}
           proved  == Kept(Translated, proving)
           written == {Own(i) : i \in trait_impls}
           every   == [i \in DOMAIN ImplOrder |-> Own(ImplOrder[i])]
           own     == Kept(every, written)
           gen     == Kept(GeneratedOrder, Generated)
           impls   == own \o gen
           Item    == {Own(i) : i \in Impls} \cup Calls
           lemmas  == [i \in DOMAIN proved |-> proof_file(name(proved[i]))]
           incls   == [i \in DOMAIN impls |-> trait_incl(impls[i])]
           File    == {proof_file(name(g)) : g \in Writable} \cup {trait_incl(i) : i \in Item}
<1>1. proved \in Seq(Writable) /\ Range(proved) = proving
  <2>1. proved \in Seq(Writable) /\ Range(proved) = Range(Translated) \cap proving
    <3> HIDE DEF proving
    <3> QED BY KeptIn
  <2>2. proving \subseteq Range(Translated)
    OBVIOUS
  <2> HIDE DEF proved, proving
  <2> QED BY <2>1, <2>2
<1>2. every \in Seq(Item) /\ Range(every) = {Own(i) : i \in Impls}
  <2>1. ImplOrder \in Seq(Impls) /\ Impls = Range(ImplOrder)
    BY CrateAssumption DEF Impls
  <2>2. /\ DOMAIN ImplOrder = 1..Len(ImplOrder) /\ Len(ImplOrder) \in Nat
        /\ \A i \in DOMAIN ImplOrder : ImplOrder[i] \in Impls
    BY <2>1
  <2>3. every \in [1..Len(ImplOrder) -> Item]
    BY <2>2
  <2>4. every \in Seq(Item)
    <3> HIDE DEF every, Item
    <3> QED BY <2>2, <2>3
  <2>5. Range(every) = {Own(i) : i \in Impls}
    BY <2>1, <2>2 DEF Range
  <2> QED BY <2>4, <2>5
<1>3. own \in Seq(Item) /\ Range(own) = written
  <2>1. own \in Seq(Item) /\ Range(own) = Range(every) \cap written
    <3> HIDE DEF every, Item, written
    <3> QED BY <1>2, KeptIn
  <2>2. written \subseteq Range(every)
    BY <1>2
  <2> HIDE DEF own, written, Item, every
  <2> QED BY <2>1, <2>2
<1>4. gen \in Seq(Item) /\ Range(gen) = Generated
  <2>1. GeneratedOrder \in Seq(Item)
    <3>1. GeneratedOrder \in Seq(Calls) /\ Calls \subseteq Item
      BY GeneratedIn
    <3> HIDE DEF Item
    <3> QED BY <3>1
  <2>2. gen \in Seq(Item) /\ Range(gen) = Range(GeneratedOrder) \cap Generated
    <3> HIDE DEF Item
    <3> QED BY <2>1, KeptIn
  <2>3. Generated \subseteq Range(GeneratedOrder)
    BY DEF Generated
  <2> HIDE DEF gen, Item
  <2> QED BY <2>2, <2>3
<1> HIDE DEF proved, own, gen, every
<1>5. impls \in Seq(Item) /\ Range(impls) = written \cup Generated
  <2> HIDE DEF Item, written
  <2>1. ToSet(own \o gen) = ToSet(own) \cup ToSet(gen)
    BY <1>3, <1>4, JoinedElements
  <2>2. own \o gen \in Seq(Item)
    BY <1>3, <1>4
  <2> QED BY <1>3, <1>4, <2>1, <2>2 DEF ToSet, Range
<1> HIDE DEF impls
<1>6. lemmas \in Seq(File) /\ ToSet(lemmas) = {proof_file(name(g)) : g \in proving}
  <2>1. /\ DOMAIN proved = 1..Len(proved) /\ Len(proved) \in Nat
        /\ \A i \in DOMAIN proved : proved[i] \in Writable
    BY <1>1
  <2>2. lemmas \in [1..Len(proved) -> File]
    BY <2>1
  <2>3. lemmas \in Seq(File)
    <3> HIDE DEF lemmas, File
    <3> QED BY <2>1, <2>2
  <2>4. ToSet(lemmas) = {proof_file(name(g)) : g \in Range(proved)}
    BY DEF ToSet, Range
  <2> QED BY <1>1, <2>3, <2>4
<1>7. incls \in Seq(File) /\ ToSet(incls) = {trait_incl(i) : i \in written \cup Generated}
  <2>1. /\ DOMAIN impls = 1..Len(impls) /\ Len(impls) \in Nat
        /\ \A i \in DOMAIN impls : impls[i] \in Item
    BY <1>5
  <2>2. incls \in [1..Len(impls) -> File]
    <3> HIDE DEF Item
    <3> QED BY <2>1
  <2>3. incls \in Seq(File)
    <3> HIDE DEF incls, File
    <3> QED BY <2>1, <2>2
  <2>4. ToSet(incls) = {trait_incl(i) : i \in Range(impls)}
    BY DEF ToSet, Range
  <2> QED BY <1>5, <2>3, <2>4
<1>8. ProofFiles = lemmas \o incls
  BY DEF ProofFiles, proved, impls, own, gen, every
<1> HIDE DEF lemmas, incls
<1>9. ProofFiles \in Seq(File) /\ ToSet(ProofFiles) = ToSet(lemmas) \cup ToSet(incls)
  <2> HIDE DEF File
  <2> QED BY <1>6, <1>7, <1>8, JoinedElements
<1>10. Range(ProofFiles) = ToSet(ProofFiles)
  BY DEF Range, ToSet
<1>11. ProofFiles \in Seq(Range(ProofFiles))
  <2>1. /\ ProofFiles \in [1..Len(ProofFiles) -> File] /\ Len(ProofFiles) \in Nat
    <3> HIDE DEF File
    <3> QED BY <1>9
  <2>2. ProofFiles \in [1..Len(ProofFiles) -> Range(ProofFiles)]
    BY <2>1 DEF Range
  <2> QED BY <2>1, <2>2
<1> HIDE DEF File, Item
<1>12. \A g \in proving : proof_file(name(g)) \in Range(ProofFiles)
  BY <1>6, <1>9, <1>10
<1>13. \A i \in written \cup Generated : trait_incl(i) \in Range(ProofFiles)
  BY <1>7, <1>9, <1>10
<1> QED
  BY <1>11, <1>12, <1>13

FilesInv ==
  /\ trait_impls \subseteq Impls
  /\ phase \in {"specs", "templates"} => templates = NoFiles
  /\ phase \in {"proofs", "fill", "done"} => templates = Templates
  /\ phase \in {"proofs", "fill"} =>
       /\ todo_proofs \in Seq(Range(ProofFiles)) /\ listed \in Seq(Range(ProofFiles))
       /\ Range(ProofFiles) \subseteq Range(todo_proofs) \cup Range(listed)
  /\ phase = "fill" => todo_proofs # << >>
  /\ phase = "done" => Range(ProofFiles) \subseteq Range(modules)

LEMMA FilesInit == Init => FilesInv
BY DEF Init, NothingTranslated, FilesInv

LEMMA SameFiles ==
  ASSUME scope' = scope, trait_impls' = trait_impls
  PROVE  Templates' = Templates /\ ProofFiles' = ProofFiles
<1>1. Generated' = Generated /\ \A f : mode(f)' = mode(f)
  BY DEF Generated, IsGenerated, mode
<1>2. Translated' = Translated
  BY <1>1 DEF Translated
<1>3. \A g : check_function_needs_proof(g)' = check_function_needs_proof(g)
  BY <1>1 DEF check_function_needs_proof
<1>4. Templates' = Templates
  BY <1>2, <1>3 DEF Templates
<1>5. ProofFiles' = ProofFiles
  BY <1>1, <1>2, <1>3 DEF ProofFiles
<1> QED
  BY <1>4, <1>5

\* A file that is dealt with is listed.
LEMMA ListsNext ==
  ASSUME NEW F, NEW todo_ \in Seq(F), NEW listed_ \in Seq(F), todo_ # << >>,
         F \subseteq Range(todo_) \cup Range(listed_)
  PROVE  /\ Tail(todo_) \in Seq(F) /\ Append(listed_, Head(todo_)) \in Seq(F)
         /\ F \subseteq Range(Tail(todo_)) \cup Range(Append(listed_, Head(todo_)))
<1> DEFINE rest == Tail(todo_)
           more == Append(listed_, Head(todo_))
<1>1. /\ rest \in Seq(F) /\ Len(rest) = Len(todo_) - 1 /\ Len(todo_) \in Nat \ {0}
      /\ DOMAIN rest = 1..Len(rest) /\ DOMAIN todo_ = 1..Len(todo_)
      /\ \A i \in 1..Len(rest) : rest[i] = todo_[i + 1]
  OBVIOUS
<1>2. /\ more \in Seq(F) /\ Len(more) = Len(listed_) + 1 /\ Len(listed_) \in Nat
      /\ DOMAIN more = 1..Len(more) /\ DOMAIN listed_ = 1..Len(listed_)
      /\ more[Len(more)] = todo_[1]
      /\ \A i \in 1..Len(listed_) : more[i] = listed_[i]
  OBVIOUS
<1> HIDE DEF rest, more
<1>3. ASSUME NEW x \in F PROVE x \in Range(rest) \cup Range(more)
  <2>1. CASE x \in Range(listed_)
    <3>1. PICK i \in 1..Len(listed_) : x = listed_[i]
      BY <1>2, <2>1 DEF Range
    <3>2. i \in DOMAIN more /\ more[i] = x
      BY <1>2, <3>1
    <3> QED BY <3>2 DEF Range
  <2>2. CASE x \in Range(todo_)
    <3>1. PICK i \in 1..Len(todo_) : x = todo_[i]
      BY <1>1, <2>2 DEF Range
    <3>2. CASE i = 1
      <4>1. Len(more) \in DOMAIN more /\ more[Len(more)] = x
        BY <1>2, <3>1, <3>2
      <4> QED BY <4>1 DEF Range
    <3>3. CASE i # 1
      <4>1. i - 1 \in DOMAIN rest /\ rest[i - 1] = x
        BY <1>1, <3>1, <3>3
      <4> QED BY <4>1 DEF Range
    <3> QED BY <3>2, <3>3
  <2> QED BY <1>3, <2>1, <2>2
<1> QED
  BY <1>1, <1>2, <1>3 DEF rest, more

LEMMA TemplatesKeep ==
  ASSUME CrateInv, FilesInv, WriteTemplates
  PROVE  FilesInv'
<1>1. /\ phase = "templates" /\ phase' = "proofs" /\ scope' = scope /\ trait_impls' = trait_impls
      /\ templates' = Inserted(templates, Templates)
      /\ todo_proofs' = ProofFiles /\ listed' = << >>
  BY DEF WriteTemplates, memory
<1>2. templates = NoFiles /\ trait_impls \subseteq Impls
  BY <1>1 DEF FilesInv
<1>3. scope.translated_functions \subseteq Bodies
  BY <1>1 DEF CrateInv, Outputs, TranslatedRight
<1>4. ProofFiles \in Seq(Range(ProofFiles))
  BY <1>2, <1>3, TranslatedIn, ProofsOf
<1>5. templates' = Templates
  <2>1. Templates = [n \in DOMAIN Templates |-> Templates[n]]
    BY DEF Templates
  <2>2. DOMAIN NoFiles = {}
    BY DEF NoFiles
  <2>3. Inserted(NoFiles, Templates) = [n \in DOMAIN Templates |-> Templates[n]]
    BY <2>2 DEF Inserted
  <2> QED BY <1>1, <1>2, <2>1, <2>3
<1>6. Templates' = Templates /\ ProofFiles' = ProofFiles
  BY <1>1, SameFiles
<1> QED
  BY <1>1, <1>2, <1>4, <1>5, <1>6 DEF FilesInv

LEMMA FilesNext ==
  CrateInv /\ FilesInv /\ [Next]_allvars => FilesInv'
<1> SUFFICES ASSUME CrateInv, FilesInv, [Next]_allvars
             PROVE  FilesInv'
  OBVIOUS
<1> DEFINE Clean == {"specs", "templates", "proofs", "fill", "done"}
<1>1. ASSUME phase' \notin Clean, trait_impls' \subseteq Impls PROVE FilesInv'
  BY <1>1 DEF FilesInv
<1>2. ASSUME phase' = phase, scope' = scope, trait_impls' = trait_impls, templates' = templates,
             todo_proofs' = todo_proofs, listed' = listed, modules' = modules
      PROVE  FilesInv'
  BY <1>2, SameFiles DEF FilesInv
<1>3. CASE UNCHANGED allvars \/ EditProof
  <2>1. /\ phase' = phase /\ scope' = scope /\ trait_impls' = trait_impls /\ templates' = templates
        /\ todo_proofs' = todo_proofs /\ listed' = listed /\ modules' = modules
    BY <1>3 DEF EditProof, allvars, files, process, cratevars
  <2> QED BY <1>2, <2>1
<1>4. CASE Edit
  <2>1. phase' = phase /\ phase = "idle" /\ trait_impls' = trait_impls
    BY <1>4 DEF Edit, cratevars
  <2> QED BY <1>1, <2>1 DEF FilesInv
<1>5. CASE Start \/ WriteInterface
  BY <1>1, <1>5 DEF Start, Begin, WriteInterface, memory, FilesInv
<1>6. CASE Exit \/ Kill
  BY <1>1, <1>6 DEF Exit, Kill, Forget
<1>7. CASE TranslateCrate
  <2>1. phase' \notin Clean
    <3>1. CASE LoadLibraries
      BY <3>1 DEF LoadLibraries, cratevars
    <3>2. CASE RegisterShims \/ RegisterFunctions \/ RegisterTraits \/ RegisterImpls \/ TranslateEnd \/ Assemble
      BY <3>2 DEF RegisterShims, RegisterFunctions, RegisterTraits, RegisterImpls, TranslateEnd, Assemble
    <3>3. CASE TranslateNext
      <4>1. phase = "translate"
        BY <3>3 DEF TranslateNext
      <4>2. CASE phase' = phase
        BY <4>1, <4>2
      <4>3. CASE phase' # phase
        <5>1. \E outcome : translate_function(Head(todo), outcome)
          BY <3>3, <4>3 DEF TranslateNext
        <5>2. PICK outcome : translate_function(Head(todo), outcome)
          BY <5>1
        <5> QED BY <4>1, <5>2 DEF translate_function
      <4> QED BY <4>2, <4>3
    <3> QED BY <1>7, <3>1, <3>2, <3>3 DEF TranslateCrate
  <2>2. trait_impls' \subseteq Impls
    <3>1. CASE Assemble
      BY <3>1 DEF Assemble, assemble_trait_impls
    <3>2. CASE ~Assemble
      <4>1. trait_impls' = trait_impls
        BY <1>7, <3>2 DEF TranslateCrate, LoadLibraries, cratevars, RegisterShims, RegisterFunctions,
           RegisterTraits, RegisterImpls, TranslateNext, TranslateEnd
      <4> QED BY <4>1 DEF FilesInv
    <3> QED BY <3>1, <3>2
  <2> QED BY <1>1, <2>1, <2>2
<1>8. CASE PurgeGenerated
  <2>1. phase' = "specs" /\ templates' = NoFiles /\ trait_impls' = trait_impls
    BY <1>8 DEF PurgeGenerated, memory
  <2> QED BY <2>1 DEF FilesInv
<1>9. CASE WriteSpecifications
  <2>1. phase = "specs" /\ phase' = "templates" /\ templates' = templates /\ trait_impls' = trait_impls
    BY <1>9 DEF WriteSpecifications, memory
  <2> QED BY <2>1 DEF FilesInv
<1>10. CASE WriteTemplates
  BY <1>10, TemplatesKeep
<1> DEFINE F == Range(ProofFiles)
<1>11. CASE CreateProof
  <2>1. /\ phase = "proofs" /\ todo_proofs # << >> /\ scope' = scope /\ trait_impls' = trait_impls
        /\ templates' = templates
        /\ \/ /\ todo_proofs' = Tail(todo_proofs) /\ listed' = Append(listed, Head(todo_proofs))
              /\ phase' = "proofs"
           \/ /\ todo_proofs' = todo_proofs /\ listed' = listed /\ phase' = "fill"
    BY <1>11 DEF CreateProof, memory
  <2>2. Templates' = Templates /\ F' = F
    BY <2>1, SameFiles
  <2>3. /\ trait_impls \subseteq Impls /\ templates = Templates
        /\ todo_proofs \in Seq(F) /\ listed \in Seq(F) /\ F \subseteq Range(todo_proofs) \cup Range(listed)
    BY <2>1 DEF FilesInv
  <2>4. /\ Tail(todo_proofs) \in Seq(F) /\ Append(listed, Head(todo_proofs)) \in Seq(F)
        /\ F \subseteq Range(Tail(todo_proofs)) \cup Range(Append(listed, Head(todo_proofs)))
    <3> HIDE DEF F
    <3> QED BY <2>1, <2>3, ListsNext
  <2>5. CASE phase' = "fill"
    BY <2>1, <2>2, <2>3, <2>5 DEF FilesInv
  <2>6. CASE phase' = "proofs"
    BY <2>1, <2>2, <2>3, <2>4, <2>6 DEF FilesInv
  <2> QED BY <2>1, <2>5, <2>6
<1>12. CASE FillProof
  <2>1. /\ phase = "fill" /\ phase' = "proofs" /\ scope' = scope /\ trait_impls' = trait_impls
        /\ templates' = templates
        /\ todo_proofs' = Tail(todo_proofs) /\ listed' = Append(listed, Head(todo_proofs))
    BY <1>12 DEF FillProof, memory
  <2>2. Templates' = Templates /\ F' = F
    BY <2>1, SameFiles
  <2>3. /\ trait_impls \subseteq Impls /\ templates = Templates /\ todo_proofs # << >>
        /\ todo_proofs \in Seq(F) /\ listed \in Seq(F) /\ F \subseteq Range(todo_proofs) \cup Range(listed)
    BY <2>1 DEF FilesInv
  <2>4. /\ Tail(todo_proofs) \in Seq(F) /\ Append(listed, Head(todo_proofs)) \in Seq(F)
        /\ F \subseteq Range(Tail(todo_proofs)) \cup Range(Append(listed, Head(todo_proofs)))
    <3> HIDE DEF F
    <3> QED BY <2>3, ListsNext
  <2> QED BY <2>1, <2>2, <2>3, <2>4 DEF FilesInv
<1>13. CASE WriteProofsDune
  <2>1. /\ phase = "proofs" /\ phase' = "done" /\ scope' = scope /\ trait_impls' = trait_impls
        /\ templates' = templates /\ modules' = listed /\ todo_proofs = << >>
    BY <1>13 DEF WriteProofsDune, memory
  <2>2. Templates' = Templates /\ F' = F
    BY <2>1, SameFiles
  <2>3. /\ trait_impls \subseteq Impls /\ templates = Templates
        /\ F \subseteq Range(todo_proofs) \cup Range(listed)
    BY <2>1 DEF FilesInv
  <2>4. Range(todo_proofs) = {}
    BY <2>1 DEF Range
  <2> QED BY <2>1, <2>2, <2>3, <2>4 DEF FilesInv
<1> QED
  BY <1>3, <1>4, <1>5, <1>6, <1>7, <1>8, <1>9, <1>10, <1>11, <1>12, <1>13 DEF Next, Write

LEMMA SpecsAreProved ==
  ASSUME NamesApart, CrateInv, SpecificationsInv, FilesInv
  PROVE  SpecsProvedOrAssumed
<1> SUFFICES ASSUME phase = "done"
             PROVE  /\ DepsEarlier(order, [t \in traits.decls |-> TraitDeps[t]])
                    /\ DOMAIN templates = {name(g) : g \in Range(Translated)}
                    /\ \A g \in specs \cup Range(Translated) :
                         (g[2] = "own" => ~is_assumed(mode(g[1]))) => Proved(g)
                    /\ \A i \in {Own(i) : i \in trait_impls} \cup Generated :
                         trait_incl(i) \in Range(modules)
  BY DEF SpecsProvedOrAssumed
<1>1. /\ TranslatedRight /\ TraitsOk /\ specs = SpecsWritten
      /\ order = order_defs_with_deps([t \in traits.decls |-> TraitDeps[t]])
  BY DEF CrateInv, SpecificationsInv, Outputs
<1>2. /\ trait_impls \subseteq Impls /\ templates = Templates
      /\ Range(ProofFiles) \subseteq Range(modules)
  BY DEF FilesInv
<1>3. /\ Translated \in Seq(Writable)
      /\ Range(Translated) = {Own(f) : f \in scope.translated_functions} \cup Generated
  <2>1. scope.translated_functions \subseteq Bodies
    BY <1>1 DEF TranslatedRight
  <2> QED BY <2>1, TranslatedIn
<1>4. DepsEarlier(order, [t \in traits.decls |-> TraitDeps[t]])
  <2>1. traits.decls \subseteq Traits
    BY <1>1 DEF TraitsOk
  <2> QED BY <1>1, <2>1, TraitsOrdered
<1>5. DOMAIN templates = {name(g) : g \in Range(Translated)}
  BY <1>2 DEF Templates
<1>6. ASSUME NEW g \in Range(Translated), g[2] = "own" => ~is_assumed(mode(g[1]))
      PROVE  Proved(g)
  <2>1. check_function_needs_proof(g)
    <3> SUFFICES ASSUME g[2] = "own" PROVE needs_proof(mode(g[1]))
      BY DEF check_function_needs_proof
    <3>1. PICK f \in scope.translated_functions : g = Own(f)
      BY <1>3, <1>6 DEF Generated, IsGenerated
    <3>2. g[1] = f
      BY <3>1 DEF Own
    <3>3. mode(f) \in {"prove", "trust_me", "code_shim"}
      BY <1>1 DEF TranslatedRight
    <3> QED BY <1>6, <3>2, <3>3 DEF is_assumed, needs_proof
  <2>2. templates[name(g)] = Lemma(g)
    BY <1>2, <1>3, <1>6, <2>1, TemplateOf
  <2>3. proof_file(name(g)) \in Range(modules)
    BY <1>2, <1>3, <2>1, ProofsOf
  <2> QED BY <2>2, <2>3 DEF Proved
<1>7. ASSUME NEW g \in specs, g[2] = "own" => ~is_assumed(mode(g[1]))
      PROVE  g \in Range(Translated)
  <2>1. CASE g \in Generated
    BY <1>3, <2>1
  <2>2. CASE g \notin Generated
    <3>1. PICK f \in Written : g = Own(f)
      BY <1>1, <1>7, <2>2 DEF SpecsWritten
    <3>2. g[1] = f /\ g[2] = "own"
      BY <3>1 DEF Own
    <3>3. f \notin scope.specced_functions
      BY <1>1, <1>7, <3>2 DEF TranslatedRight, is_assumed
    <3> QED BY <1>3, <3>1, <3>3 DEF Written
  <2> QED BY <2>1, <2>2
<1>8. \A i \in {Own(i) : i \in trait_impls} \cup Generated : trait_incl(i) \in Range(modules)
  BY <1>2, <1>3, ProofsOf
<1> QED
  BY <1>4, <1>5, <1>6, <1>7, <1>8

\* What a finished run leaves is all that there is to be proved, provided that
\* no two items have the same name: each function that is specified and not
\* trusted has its lemma and a proof that is built, each impl the proof that it
\* meets its trait, and nothing is left of an earlier run, of this crate or of
\* what it was before it was edited, and however that run ended.
THEOREM SpecificationsAreProved ==
  ASSUME NamesApart PROVE Spec => []SpecsProvedOrAssumed
<1> DEFINE Inv == CrateInv /\ LibrariesInv /\ SpecificationsInv /\ FilesInv
<1>1. Init => Inv
  BY CrateInit, LibrariesInit, SpecificationsInit, FilesInit
<1>2. Inv /\ [Next]_allvars => Inv'
  BY CrateNext, LibrariesNext, SpecificationsNext, FilesNext
<1>3. Inv => SpecsProvedOrAssumed
  BY SpecsAreProved
<1> HIDE DEF Inv
<1> QED
  BY <1>1, <1>2, <1>3, PTL DEF Spec
=============================================================================
