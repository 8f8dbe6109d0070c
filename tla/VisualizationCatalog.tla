------------------------- MODULE VisualizationCatalog -------------------------
(***************************************************************************)
(* VisualizationManifest.h: the catalog of a solver's results, as a call   *)
(* of WriteOutputManifest completes it, validates it and writes it, while  *)
(* the files it names may change.  One step validates one axis, quantity   *)
(* or variant.                                                             *)
(*                                                                         *)
(* A text is itself, or one that is wrong in one way: NotUtf8, Padded with *)
(* whitespace at an end, or WithNul.  An optional number is Missing or has *)
(* a value.  A path is a text, what it is lexically, and the file it leads *)
(* to.                                                                     *)
(***************************************************************************)
EXTENDS Integers, Sequences, FiniteSets, Functions

CONSTANTS
    Catalogs,       \* what solvers hand over, with the solver's name
    Files,          \* what the paths of variants lead to
    NumericKeys,    \* the texts that are finite decimal numbers
    NotUtf8, Padded, WithNul,
    Infinite,       \* a double that is infinite or no number
    Missing,        \* no number, no document
    MaxChanges      \* bound: changes of files during the call

\* A target is not there, a regular file within the output directory, or one
\* outside of it that a link leads to.
Wheres == {"absent", "inside", "outside"}

IsList(list) == list \in Seq({list[i] : i \in 1 .. Len(list)})

\* The lists of a catalog, and what the variants say in numbers and paths.
IsCatalog(c) ==
    /\ {"name", "family", "variant", "runId", "axes", "quantities", "variants"} \subseteq DOMAIN c
    /\ IsList(c.axes) /\ IsList(c.quantities) /\ IsList(c.variants)
    /\ \A i \in 1 .. Len(c.axes) : IsList(c.axes[i].values)
    /\ \A i \in 1 .. Len(c.variants) :
           /\ c.variants[i].step \in Int
           /\ c.variants[i].path.file \in Files
           /\ IsList(c.variants[i].quantities)

ASSUME CatalogAssumption ==
    /\ MaxChanges \in Nat
    /\ Missing # Infinite
    /\ {NotUtf8, Padded, WithNul} \cap {"", "raw", "structured", "made"} = {}
    /\ \A c \in Catalogs : IsCatalog(c)

VARIABLES
    disk,       \* disk[f]: where file f is
    touched,    \* (history) the files that changed since the call began
    changes,    \* how often
    catalog,    \* the catalog of the call
    pc,         \* the list that is validated, or what comes after
    at,         \* the index in that list
    document    \* what was written

catalogVars == <<disk, touched, changes, catalog, pc, at, document>>

-----------------------------------------------------------------------------
(* Texts and numbers *)

Utf8(text) == text # NotUtf8
HasBoundaryWhitespace(text) == text = Padded
Identifier(text) == Utf8(text) /\ text # "" /\ ~HasBoundaryWhitespace(text)
PlainText(text) == Utf8(text) /\ text # WithNul /\ ~HasBoundaryWhitespace(text)
Finite(number) == number # Infinite
Supported(association) == association \in {"point", "cell"}
AllUtf8(texts) == \A text \in texts : Utf8(text)

\* The indices of a list that were validated before.
Before == 1 .. at - 1

\* "NAME_raw", in any case, is the raw variant of NAME.
CanonicalSolverFamily(name) == name.family
SolverVariantFromName(name) == IF name.raw THEN "raw" ELSE "structured"

-----------------------------------------------------------------------------
(* ValidateVisualizationCatalog *)

ValidHead ==
    /\ Identifier(catalog.family) /\ Identifier(catalog.runId)
    /\ Utf8(catalog.variant) /\ ~HasBoundaryWhitespace(catalog.variant)

\* The keys of an axis differ; those of a numeric one are numbers or come with
\* one.
ValidValues(axis) ==
    LET values == axis.values
    IN  \A i \in 1 .. Len(values) :
            /\ Utf8(values[i].key) /\ values[i].key # ""
            /\ \A j \in 1 .. i - 1 : values[j].key # values[i].key
            /\ Finite(values[i].number)
            /\ axis.kind = "numeric" =>
                   values[i].number # Missing \/ values[i].key \in NumericKeys

ValidAxis(axis) ==
    /\ Identifier(axis.id) /\ AllUtf8(axis.texts) /\ Utf8(axis.default)
    /\ \A j \in Before : catalog.axes[j].id # axis.id
    /\ axis.kind \in {"fixed", "numeric"}
    /\ ValidValues(axis)
    /\ axis.default # "" => \E i \in 1 .. Len(axis.values) : axis.values[i].key = axis.default

ValidQuantity(quantity) ==
    /\ Identifier(quantity.id) /\ AllUtf8(quantity.texts)
    /\ \A j \in Before : catalog.quantities[j].id # quantity.id
    /\ PlainText(quantity.array)
    /\ Supported(quantity.association)

\* Mutated form: the names of selectors and their values are looked up apart.
ValidSelectorsApart(selectors) ==
    \A id \in DOMAIN selectors :
        /\ \E i \in 1 .. Len(catalog.axes) : catalog.axes[i].id = id
        /\ \E i \in 1 .. Len(catalog.axes) : \E j \in 1 .. Len(catalog.axes[i].values) :
               catalog.axes[i].values[j].key = selectors[id]

\* Mutated form: a variant names a value of every axis.
ValidSelectorsComplete(selectors) ==
    {catalog.axes[i].id : i \in 1 .. Len(catalog.axes)} \subseteq DOMAIN selectors

ValidSelectors(selectors) ==
    \A id \in DOMAIN selectors :
        \E i \in 1 .. Len(catalog.axes) :
            /\ catalog.axes[i].id = id
            /\ \E j \in 1 .. Len(catalog.axes[i].values) :
                   catalog.axes[i].values[j].key = selectors[id]

ValidMappings(mappings) ==
    \A i \in 1 .. Len(mappings) :
        /\ \E j \in 1 .. Len(catalog.quantities) :
               catalog.quantities[j].id = mappings[i].quantity
        /\ mappings[i].array # "" /\ PlainText(mappings[i].array)
        /\ Supported(mappings[i].association)
        /\ \A j \in 1 .. i - 1 : mappings[j].quantity # mappings[i].quantity

\* Lexically below the directory, and then a regular file within it, links
\* followed.
ValidPath(path) ==
    /\ path.text # "" /\ PlainText(path.text)
    /\ ~path.absolute /\ ~path.escapes
    /\ disk[path.file] = "inside"

ValidVariant(variant) ==
    /\ ValidPath(variant.path)
    /\ variant.step >= -1
    /\ Finite(variant.time)
    /\ ValidSelectors(variant.selectors)
    /\ \A j \in Before : catalog.variants[j].selectors # variant.selectors
    /\ ValidMappings(variant.quantities)
    /\ AllUtf8(variant.texts)

Throw == pc' = "refused" /\ UNCHANGED at

\* One round of the loop over list, or its end.
Loop(phase, list, IsValid(_), next) ==
    /\ pc = phase
    /\ IF at > Len(list) THEN pc' = next /\ at' = 1
       ELSE IF IsValid(list[at]) THEN at' = at + 1 /\ UNCHANGED pc
       ELSE Throw
    /\ UNCHANGED <<disk, touched, changes, catalog, document>>

ValidateAxis == Loop("axes", catalog.axes, ValidAxis, "quantities")
ValidateQuantity == Loop("quantities", catalog.quantities, ValidQuantity, "variants")
ValidateVariant == Loop("variants", catalog.variants, ValidVariant, "write")

-----------------------------------------------------------------------------
(* WriteOutputManifest's use of the catalog, and WriteVisualizationCatalog *)

\* What the solver left empty is filled in; MakeVisualizationRunId is never
\* empty (see OutputManifest).
Fill ==
    /\ pc = "fill"
    /\ catalog' = [catalog EXCEPT
           !.family = IF @ = "" THEN CanonicalSolverFamily(catalog.name) ELSE @,
           !.variant = IF @ = "" THEN SolverVariantFromName(catalog.name) ELSE @,
           !.runId = IF @ = "" THEN "made" ELSE @]
    /\ pc' = "head"
    /\ UNCHANGED <<disk, touched, changes, at, document>>

ValidateHead ==
    /\ pc = "head"
    /\ IF ValidHead THEN pc' = "axes" /\ UNCHANGED at ELSE Throw
    /\ UNCHANGED <<disk, touched, changes, catalog, document>>

\* The fields of a variant; those that may be left out are empty then.
WriteVariant(variant) ==
    [selectors |-> variant.selectors, path |-> variant.path,
     step_index |-> IF variant.step >= 0 THEN {variant.step} ELSE {},
     reader_time |-> IF variant.time # Missing THEN {variant.time} ELSE {},
     quantities |-> variant.quantities]

WriteVisualizationCatalog ==
    /\ pc = "write"
    /\ document' = [family |-> catalog.family, variant |-> catalog.variant,
                    axes |-> catalog.axes, quantities |-> catalog.quantities,
                    variants |-> [i \in 1 .. Len(catalog.variants) |->
                                     WriteVariant(catalog.variants[i])]]
    /\ pc' = "done"
    /\ UNCHANGED <<disk, touched, changes, catalog, at>>

Change(f, where) ==
    /\ pc \notin {"done", "refused"}
    /\ changes < MaxChanges
    /\ where # disk[f]
    /\ disk' = [disk EXCEPT ![f] = where]
    /\ touched' = touched \cup {f}
    /\ changes' = changes + 1
    /\ UNCHANGED <<catalog, pc, at, document>>

CatalogInit ==
    /\ disk \in [Files -> Wheres]
    /\ touched = {}
    /\ changes = 0
    /\ catalog \in Catalogs
    /\ pc = "fill"
    /\ at = 1
    /\ document = Missing

CatalogNext ==
    \/ Fill \/ ValidateHead \/ ValidateAxis \/ ValidateQuantity \/ ValidateVariant
    \/ WriteVisualizationCatalog
    \/ \E f \in Files, where \in Wheres : Change(f, where)

CatalogSpec == CatalogInit /\ [][CatalogNext]_catalogVars

-----------------------------------------------------------------------------
(* Properties, of what a consumer finds in the document *)

\* The values that a selector of a variant may stand for, with their numbers.
Meanings(id, key) ==
    UNION {{i} \X {j \in 1 .. Len(document.axes[i].values) :
                       document.axes[i].values[j].key = key} :
               i \in {k \in 1 .. Len(document.axes) : document.axes[k].id = id}}

HasNumber(value) == Finite(value.number) /\ (value.number # Missing \/ value.key \in NumericKeys)

ReadStep(variant) ==
    IF variant.step_index = {} THEN -1 ELSE CHOOSE step \in variant.step_index : TRUE

\* Whatever a solver registers, what is published means one thing: a selector
\* stands for one declared value, a numeric one for a number; a tuple leads to
\* one result, the step of which is the one that was registered, and which is a
\* file of the output directory unless it was touched during the call; and a
\* quantity of a result is one declared quantity, of an association that the
\* consumer supports (README.md:17-45).
PublishedMeansOneThing ==
    document # Missing => \A v \in 1 .. Len(document.variants) :
        LET variant == document.variants[v]
        IN  /\ \A id \in DOMAIN variant.selectors :
                  LET meanings == Meanings(id, variant.selectors[id])
                  IN  /\ Cardinality(meanings) = 1
                      /\ \A m \in meanings : document.axes[m[1]].kind = "numeric" =>
                             HasNumber(document.axes[m[1]].values[m[2]])
            /\ {w \in 1 .. Len(document.variants) :
                   document.variants[w].selectors = variant.selectors} = {v}
            /\ ReadStep(variant) = catalog.variants[v].step
            /\ variant.path.file \notin touched => disk[variant.path.file] = "inside"
            /\ \A m \in 1 .. Len(variant.quantities) :
                  LET mapping == variant.quantities[m]
                  IN  /\ Supported(mapping.association)
                      /\ Cardinality({q \in 1 .. Len(document.quantities) :
                             document.quantities[q].id = mapping.quantity}) = 1

\* What the README asks of a catalog (README.md:17-45): axes, their values and the
\* quantities are told apart by names, numeric values have numbers, every selector
\* names a declared axis and value, no two variants have one tuple, results are
\* regular files below the directory, texts are UTF-8.
Proper(name) == name \notin {"", NotUtf8, Padded}
NoText == {NotUtf8, Padded, WithNul}
Keys(axis) == [j \in 1 .. Len(axis.values) |-> axis.values[j].key]
Ids(list) == [i \in 1 .. Len(list) |-> list[i].id]

SoundIdentity(c) ==
    /\ \A text \in {c.family, c.variant, c.runId} : text \notin {NotUtf8, Padded}
    /\ c.family = "" => Proper(c.name.family)

SoundAxis(axis) ==
    /\ Proper(axis.id) /\ NotUtf8 \notin axis.texts
    /\ axis.kind \in {"fixed", "numeric"}
    /\ IsInjective(Keys(axis)) /\ {"", NotUtf8} \cap Range(Keys(axis)) = {}
    /\ axis.default \in Range(Keys(axis)) \cup {""}
    /\ \A j \in 1 .. Len(axis.values) :
          IF axis.kind = "numeric" THEN HasNumber(axis.values[j])
          ELSE Finite(axis.values[j].number)

SoundQuantity(quantity) ==
    /\ Proper(quantity.id) /\ NotUtf8 \notin quantity.texts
    /\ quantity.array \notin NoText /\ Supported(quantity.association)

SoundMappings(c, mappings) ==
    /\ IsInjective([m \in 1 .. Len(mappings) |-> mappings[m].quantity])
    /\ \A m \in 1 .. Len(mappings) :
          /\ mappings[m].quantity \in Range(Ids(c.quantities))
          /\ mappings[m].array \notin NoText \cup {""}
          /\ Supported(mappings[m].association)

SoundVariant(c, variant) ==
    /\ variant.path.text \notin NoText \cup {""}
    /\ ~variant.path.absolute /\ ~variant.path.escapes
    /\ \A id \in DOMAIN variant.selectors : \E i \in 1 .. Len(c.axes) :
          c.axes[i].id = id /\ variant.selectors[id] \in Range(Keys(c.axes[i]))
    /\ SoundMappings(c, variant.quantities)
    /\ variant.step >= -1 /\ Finite(variant.time) /\ NotUtf8 \notin variant.texts

Sound(c) ==
    /\ SoundIdentity(c)
    /\ IsInjective(Ids(c.axes)) /\ IsInjective(Ids(c.quantities))
    /\ IsInjective([v \in 1 .. Len(c.variants) |-> c.variants[v].selectors])
    /\ \A i \in 1 .. Len(c.axes) : SoundAxis(c.axes[i])
    /\ \A i \in 1 .. Len(c.quantities) : SoundQuantity(c.quantities[i])
    /\ \A v \in 1 .. Len(c.variants) : SoundVariant(c, c.variants[v])

\* What the README promises is not refused: a catalog with unset identities,
\* variants that omit axes, sparse tuples, several variants of one file, no
\* axes, no variants, as long as nothing happens to its files.
PromisedIsPublished ==
    pc = "refused" /\ Sound(catalog) =>
        \E i \in 1 .. Len(catalog.variants) :
            LET file == catalog.variants[i].path.file
            IN  file \in touched \/ disk[file] # "inside"

=============================================================================
