------------------------ MODULE VisualizationProofs ------------------------
(***************************************************************************)
(* Proofs about the two components that a program which shows results      *)
(* relies on: EnSightTimePolicy, for any contents of the file, printed     *)
(* with any rounding within the quantum, any replacements and selections;  *)
(* and VisualizationCatalog, for any catalogs that a solver may hand over  *)
(* and any changes of the files they name.                                 *)
(***************************************************************************)
EXTENDS EnSightTimePolicy, VisualizationCatalog, FiniteSetTheorems, WellFoundedInduction, TLAPS

-----------------------------------------------------------------------------
(* The time policy.                                                        *)
(* The inductive invariant: what a load has found out about an axis, and   *)
(* what of it is still so when the file has changed since.                 *)

Axes == [write : Nat, quantum : Int, span : Int, origin : Int, frameCount : Int]
Frames == [quantum : Int, span : Int, origin : Int, frameCount : Int, frameIndex : Nat]
Picks == [time : Numbers, frame : Frames, read : Nat, loaded : Nat]

TypeSound ==
    /\ file \in Sources
    /\ writes \in Nat
    /\ axis \in Axes \cup {None}
    /\ picked \in Seq(Picks)

AllFinite(times) == \A i \in 1 .. Len(times) : times[i] # NotFinite

\* An axis, or a frame's, that has been accepted, whatever the file was.
IsWorth(a) ==
    /\ a.quantum > 0 /\ a.span > 0 /\ a.frameCount >= 3
    /\ FineEnough(a.quantum, a.span, a.frameCount - 1)

\* It is the one that a load of source gives.
IsAxisOf(a, source) ==
    LET times == Times(source)
    IN  /\ a.quantum = DeclaredQuantum(source) /\ a.quantum \notin {None, Error}
        /\ AllFinite(times) /\ IsRounded(times, a.quantum)
        /\ a.frameCount = Len(times) /\ a.origin = times[1]
        /\ a.span = times[Len(times)] - times[1]

AxisSound ==
    axis # None =>
        /\ IsWorth(axis)
        /\ axis.write <= writes
        /\ axis.write = writes => IsAxisOf(axis, file)

\* What a frame says is about the content that its axis was loaded from, its time
\* about the content that it was read from.
PickSound(p) ==
    /\ IsWorth(p.frame)
    /\ p.frame.frameIndex < p.frame.frameCount
    /\ p.read <= writes /\ p.loaded <= writes
    /\ p.loaded = writes => IsAxisOf(p.frame, file)
    /\ p.read = writes => p.frame.frameIndex + 1 <= Len(file.tokens)
                          /\ p.time = Times(file)[p.frame.frameIndex + 1]
    /\ p.read = p.loaded => OnTheAxis(p.time, p.frame)

\* Two frames of a content that stayed as it was loaded have one axis, and come in
\* the order of their times.
PairSound(p, q) ==
    p.read = p.loaded /\ q.read = q.loaded /\ p.read = q.read =>
        /\ SameAxis(p.frame, q.frame)
        /\ p.frame.frameIndex < q.frame.frameIndex => p.time < q.time

IInv ==
    /\ TypeSound
    /\ AxisSound
    /\ \A i \in 1 .. Len(picked) : PickSound(picked[i])
    /\ \A i, j \in 1 .. Len(picked) : PairSound(picked[i], picked[j])

-----------------------------------------------------------------------------
(* Sums and orders along a sequence, by induction on its places             *)

\* Any numbers have a least one.
LEMMA NatLeast ==
    ASSUME NEW N \in SUBSET Nat, N # {}
    PROVE  \E m \in N : \A k \in N : m <= k
<1> DEFINE R == OpToRel(<, Nat)
<1>1. IsWellFoundedOn(R, Nat)
  BY NatLessThanWellFounded
<1>2. PICK m \in N : \A k \in N : <<k, m>> \notin R
  <2> HIDE DEF R
  <2> QED BY <1>1, WFMin
<1>3. \A k \in N : k \in Nat /\ m \in Nat /\ ~(k < m)
  BY <1>2 DEF OpToRel
<1> QED BY <1>3

\* What grows by d from place to place has grown by d for every place.
LEMMA GrowsEvenly ==
    ASSUME NEW n \in Nat, NEW f, \A i \in 1 .. n : f[i] \in Int, NEW d \in Int,
           \A i \in 2 .. n : f[i] - f[i - 1] = d
    PROVE  \A i \in 1 .. n : f[i] - f[1] = (i - 1) * d
<1> DEFINE Bad == {i \in 1 .. n : f[i] - f[1] # (i - 1) * d}
<1>1. SUFFICES ASSUME Bad # {} PROVE FALSE
  OBVIOUS
<1>2. PICK i \in Bad : \A j \in Bad : i <= j
  <2>1. Bad \in SUBSET Nat
    OBVIOUS
  <2> HIDE DEF Bad
  <2> QED BY <1>1, <2>1, NatLeast
<1>3. i \in 1 .. n /\ f[i] - f[1] # (i - 1) * d
  BY <1>2
<1>4. i # 1
  <2>1. f[1] \in Int => f[1] - f[1] = (1 - 1) * d
    OBVIOUS
  <2> QED BY <1>3, <2>1
<1>5. i - 1 \in 1 .. n /\ i \in 2 .. n /\ ~(i <= i - 1)
  BY <1>3, <1>4
<1>6. f[i - 1] - f[1] = (i - 1 - 1) * d
  <2>1. i - 1 \notin Bad
    BY <1>2, <1>5
  <2> QED BY <1>5, <2>1
<1>7. f[i] - f[i - 1] = d /\ f[i] \in Int /\ f[i - 1] \in Int /\ f[1] \in Int
  BY <1>5
<1>8. (i - 1 - 1) * d + d = (i - 1) * d
  BY <1>3
<1> QED BY <1>3, <1>6, <1>7, <1>8

\* What grows from place to place grows from any place to any later one.
LEMMA GrowsThroughout ==
    ASSUME NEW n \in Nat, NEW f, \A i \in 1 .. n : f[i] \in Int,
           \A i \in 2 .. n : f[i - 1] < f[i]
    PROVE  \A i, j \in 1 .. n : i < j => f[i] < f[j]
<1> DEFINE Bad == {j \in 1 .. n : \E i \in 1 .. n : i < j /\ ~(f[i] < f[j])}
<1>1. SUFFICES ASSUME Bad # {} PROVE FALSE
  OBVIOUS
<1>2. PICK j \in Bad : \A k \in Bad : j <= k
  <2>1. Bad \in SUBSET Nat
    OBVIOUS
  <2> HIDE DEF Bad
  <2> QED BY <1>1, <2>1, NatLeast
<1>3. PICK i \in 1 .. n : i < j /\ ~(f[i] < f[j])
  BY <1>2
<1>4. j \in 2 .. n /\ j - 1 \in 1 .. n /\ ~(j <= j - 1)
  BY <1>2, <1>3
<1>5. f[j - 1] < f[j] /\ f[j - 1] \in Int /\ f[j] \in Int /\ f[i] \in Int
  BY <1>3, <1>4
<1>6. CASE i = j - 1
  BY <1>3, <1>5, <1>6
<1>7. CASE i # j - 1
  <2>1. i < j - 1
    BY <1>3, <1>4, <1>7
  <2>2. f[i] < f[j - 1]
    BY <1>2, <1>4, <2>1
  <2> QED BY <1>3, <1>5, <2>2
<1> QED BY <1>6, <1>7

-----------------------------------------------------------------------------
(* Distances from a line, times the number of its steps                     *)

\* Two points that are near a line are, from one another, near a line as steep.
LEMMA NearOneAnother ==
    ASSUME NEW t \in Int, NEW u \in Int, NEW origin \in Int, NEW span \in Int,
           NEW k \in Int, NEW l \in Int, NEW b \in Int,
           NEW s \in Int,
           Abs((t - origin) * s - k * span) <= b, Abs((u - origin) * s - l * span) <= b
    PROVE  Abs((u - t) * s - (l - k) * span) <= 2 * b
<1>1. (u - t) * s - (l - k) * span
         = ((u - origin) * s - l * span) - ((t - origin) * s - k * span)
  OBVIOUS
<1> DEFINE x == (u - origin) * s - l * span
           y == (t - origin) * s - k * span
<1>2. x \in Int /\ y \in Int /\ Abs(x) <= b /\ Abs(y) <= b
  OBVIOUS
<1> HIDE DEF x, y
<1>3. Abs(x - y) <= 2 * b
  BY <1>2 DEF Abs
<1> QED BY <1>1, <1>3 DEF x, y

\* A time that is off by e, next to a point that is near a line, is near it.
LEMMA NearTheTruth ==
    ASSUME NEW t \in Int, NEW u \in Int, NEW s \in Nat, NEW place \in Int,
           NEW q \in Int, NEW e \in Int,
           Abs(t * s - place) <= q * s, Abs(t - u) <= e
    PROVE  Abs(u * s - place) <= (q + e) * s
<1>1. /\ Abs(t - u) * s <= e * s /\ t * s \in Int /\ u * s \in Int /\ e * s \in Int
      /\ q * s \in Int /\ (q + e) * s = q * s + e * s
  <2>1. Abs(t - u) \in Int
    BY DEF Abs
  <2>2. \A x \in Int : x <= e => x * s <= e * s
    OBVIOUS
  <2> QED BY <2>1, <2>2
<1>2. Abs(t * s - u * s) <= e * s
  <2>1. CASE t - u < 0
    <3>1. Abs(t - u) * s = u * s - t * s
      BY <2>1 DEF Abs
    <3> QED BY <1>1, <2>1, <3>1 DEF Abs
  <2>2. CASE ~(t - u < 0)
    <3>1. Abs(t - u) * s = t * s - u * s
      BY <2>2 DEF Abs
    <3> QED BY <1>1, <2>2, <3>1 DEF Abs
  <2> QED BY <2>1, <2>2
<1> QED BY <1>1, <1>2 DEF Abs

-----------------------------------------------------------------------------
(* The quantum of a source is the one that it declares                      *)

\* The times of a file are those of its tokens, frame by frame.
LEMMA TimesType ==
    ASSUME NEW source \in Sources
    PROVE  /\ Len(source.tokens) \in Nat /\ Times(source) \in Seq(Numbers)
           /\ Len(Times(source)) = Len(source.tokens)
           /\ \A i \in 1 .. Len(source.tokens) :
                 Times(source)[i] = source.tokens[i].time /\ source.tokens[i].time \in Numbers
<1>1. source.tokens \in Seq(Tokens)
  BY SourceAssumption
<1>2. ASSUME NEW i \in 1 .. Len(source.tokens) PROVE source.tokens[i].time \in Numbers
  <2>1. source.tokens[i] \in Tokens
    BY <1>1
  <2> QED BY <2>1 DEF Tokens
<1> QED BY <1>1, <1>2 DEF Times

\* The first place of a document that is not a complete comment or instruction.
LEMMA FirstStop ==
    ASSUME NEW n \in Nat, NEW S \in SUBSET (1 .. n), S # {}
    PROVE  Min(S) \in S /\ \A i \in S : Min(S) <= i
<1>1. \E m \in S : \A k \in S : m <= k
  BY NatLeast
<1> QED BY <1>1 DEF Min

\* A root has the quantum of its one attribute for it.
LEMMA RootQuantumIsDeclared ==
    ASSUME NEW root \in Markup, root.kind = "element", root.vtkfile,
           RootTimeQuantum(root) \notin {None, Error}
    PROVE  /\ RootTimeQuantum(root) \in Int /\ IsQuantum(RootTimeQuantum(root))
           /\ RootDeclares(root, RootTimeQuantum(root))
<1> DEFINE declared == {i \in 1 .. Len(root.attributes) : root.attributes[i].quantum}
           q == RootTimeQuantum(root)
           i == CHOOSE i \in declared : TRUE
<1>1. /\ root.closed /\ \A j \in 1 .. Len(root.attributes) : root.attributes[j].wellFormed
      /\ ~(Cardinality(declared) > 1) /\ declared # {}
      /\ \A j \in declared : IsQuantum(root.attributes[j].value)
      /\ q = root.attributes[i].value
  BY DEF RootTimeQuantum
<1>2. i \in declared
  BY <1>1
<1>3. \A j \in 1 .. Len(root.attributes) : root.attributes[j] \in Attributes
  BY DEF Markup
<1>4. IsFiniteSet(declared) /\ Cardinality(declared) \in Nat
  <2>1. Len(root.attributes) \in Nat
    BY DEF Markup
  <2>2. IsFiniteSet(1 .. Len(root.attributes))
    BY <2>1, FS_Interval
  <2> QED BY <2>2, FS_Subset, FS_CardinalityType
<1>5. ASSUME NEW j \in declared PROVE j = i
  <2>1. Cardinality(declared) = 0 \/ Cardinality(declared) = 1
    BY <1>1, <1>4
  <2>2. Cardinality(declared) # 0
    BY <1>1, <1>4, FS_EmptySet
  <2>3. PICK x : declared = {x}
    BY <2>1, <2>2, <1>4, FS_Singleton
  <2> QED BY <1>2, <1>5, <2>3
<1>6. q \in Int /\ IsQuantum(q)
  <2>1. q \in Numbers /\ IsQuantum(q)
    BY <1>1, <1>2, <1>3 DEF Attributes
  <2> QED BY <2>1 DEF IsQuantum, Numbers
<1>7. \A j \in 1 .. Len(root.attributes) : root.attributes[j].quantum <=> j = i
  BY <1>2, <1>5
<1> QED BY <1>1, <1>2, <1>6, <1>7 DEF RootDeclares

\* A quantum that a reader gets of a file is one that the file's root, or its group,
\* declares: the scan of the .pvd stops at the first element.
LEMMA QuantumIsDeclared ==
    ASSUME NEW source \in Sources, DeclaredQuantum(source) \notin {None, Error}
    PROVE  /\ DeclaredQuantum(source) \in Int /\ DeclaredQuantum(source) > 0
           /\ Declares(source, DeclaredQuantum(source))
<1> DEFINE q == DeclaredQuantum(source)
<1>1. CASE source.pvd
  <2> DEFINE xml == source.xml
             stops == {i \in 1 .. Len(xml) : xml[i].kind = "element" \/ ~xml[i].closed}
             root == xml[Min(stops)]
  <2>1. xml \in Seq(Markup) /\ Len(xml) \in Nat
    BY <1>1, SourceAssumption
  <2>2. stops # {} /\ root.kind = "element" /\ root.vtkfile /\ q = RootTimeQuantum(root)
    BY <1>1 DEF DeclaredQuantum, PvdTimeQuantum
  <2>3. Min(stops) \in stops /\ \A i \in stops : Min(stops) <= i
    BY <2>1, <2>2, FirstStop
  <2>4. root \in Markup
    <3>1. Min(stops) \in 1 .. Len(xml)
      BY <2>3
    <3> HIDE DEF stops, xml
    <3> QED BY <2>1, <3>1
  <2>5. q \in Int /\ IsQuantum(q) /\ RootDeclares(root, q)
    BY <2>2, <2>4, RootQuantumIsDeclared
  <2>6. ASSUME NEW i \in 1 .. Min(stops) - 1
        PROVE  xml[i].kind # "element" /\ xml[i].closed
    <3>1. i \in 1 .. Len(xml) /\ ~(Min(stops) <= i)
      BY <2>1, <2>3
    <3> QED BY <2>3, <3>1
  <2>7. Min(stops) \in 1 .. Len(xml)
    BY <2>3
  <2> HIDE DEF stops
  <2> QED BY <1>1, <2>5, <2>6, <2>7 DEF Declares, IsQuantum
<1>2. CASE ~source.pvd
  <2>1. source.group \in Groups
    BY <1>2, SourceAssumption
  <2>2. /\ source.group.readable /\ source.group.present /\ source.group.scalarDouble
        /\ IsQuantum(q) /\ q = source.group.value
    BY <1>2 DEF DeclaredQuantum, EnSightTimeQuantum
  <2>3. q \in Int
    BY <2>1, <2>2 DEF Groups, Numbers, IsQuantum
  <2> QED BY <1>2, <2>2, <2>3 DEF Declares, IsQuantum
<1> QED BY <1>1, <1>2

\* A quantum that is declared is read.
LEMMA DeclaredIsRead ==
    ASSUME NEW source \in Sources, NEW q \in Int, Declares(source, q)
    PROVE  DeclaredQuantum(source) = q
<1>1. CASE source.pvd
  <2> DEFINE xml == source.xml
             stops == {i \in 1 .. Len(xml) : xml[i].kind = "element" \/ ~xml[i].closed}
  <2>1. xml \in Seq(Markup) /\ Len(xml) \in Nat
    BY <1>1, SourceAssumption
  <2>2. PICK r \in 1 .. Len(xml) :
            /\ RootDeclares(xml[r], q)
            /\ \A i \in 1 .. r - 1 : xml[i].kind # "element" /\ xml[i].closed
    BY <1>1 DEF Declares
  <2>3. r \in stops
    BY <2>2 DEF RootDeclares
  <2>4. Min(stops) = r
    <3>1. Min(stops) \in stops /\ Min(stops) <= r
      BY <2>1, <2>3, FirstStop
    <3>2. Min(stops) \notin 1 .. r - 1
      BY <2>2, <3>1
    <3> QED BY <2>1, <3>1, <3>2
  <2>5. xml[r] \in Markup /\ xml[r].kind = "element" /\ xml[r].vtkfile
    BY <2>1, <2>2 DEF RootDeclares
  <2>6. PvdTimeQuantum(xml) = RootTimeQuantum(xml[r])
    BY <2>3, <2>4, <2>5 DEF PvdTimeQuantum
  <2>7. RootTimeQuantum(xml[r]) = q
    <3> DEFINE root == xml[r]
               declared == {i \in 1 .. Len(root.attributes) : root.attributes[i].quantum}
    <3>1. PICK i \in 1 .. Len(root.attributes) :
              /\ root.attributes[i].value = q
              /\ \A j \in 1 .. Len(root.attributes) : root.attributes[j].quantum <=> j = i
      BY <2>2 DEF RootDeclares
    <3>2. declared = {i}
      BY <3>1
    <3>3. Cardinality(declared) = 1 /\ (CHOOSE j \in declared : TRUE) = i
      BY <3>2, FS_Singleton
    <3>4. \A j \in declared : IsQuantum(root.attributes[j].value)
      BY <3>1, <3>2, <1>1 DEF Declares
    <3>5. root.closed /\ \A j \in 1 .. Len(root.attributes) : root.attributes[j].wellFormed
      BY <2>2 DEF RootDeclares
    <3>6. /\ ~ \E j \in 1 .. Len(root.attributes) : ~root.attributes[j].wellFormed
          /\ ~ \E j \in declared : ~IsQuantum(root.attributes[j].value)
          /\ ~(Cardinality(declared) > 1) /\ declared # {}
      BY <3>2, <3>3, <3>4, <3>5
    <3> QED BY <3>1, <3>3, <3>5, <3>6 DEF RootTimeQuantum
  <2> QED BY <1>1, <2>6, <2>7 DEF DeclaredQuantum
<1>2. CASE ~source.pvd
  BY <1>2 DEF Declares, DeclaredQuantum, EnSightTimeQuantum
<1> QED BY <1>1, <1>2

-----------------------------------------------------------------------------
(* What an axis that was accepted says about the times                      *)

\* Times of which none is infinite are numbers.
LEMMA FiniteTimes ==
    ASSUME NEW source \in Sources, AllFinite(Times(source))
    PROVE  \A i \in 1 .. Len(source.tokens) : Times(source)[i] \in Int
BY TimesType DEF AllFinite, Numbers

\* What an axis that is taken for rounded has passed: every test of AssessTimeAxis.
LEMMA ApproximateIs ==
    ASSUME NEW times \in Seq(Numbers), NEW q \in Int, AssessTimeAxis(times, q).approximate
    PROVE  LET span == times[Len(times)] - times[1]
           IN  /\ AllFinite(times) /\ Len(times) >= 3 /\ q > 0 /\ IsRounded(times, q)
               /\ span \in Int /\ span > 0 /\ FineEnough(q, span, Len(times) - 1)
               /\ AssessTimeAxis(times, q).span = span
<1> DEFINE steps == Len(times) - 1
           first == times[2] - times[1]
           span == times[Len(times)] - times[1]
           exact == \A i \in 3 .. Len(times) : times[i] = times[1] + (i - 1) * first
           rounded == /\ q > 0
                      /\ span > 0 /\ FineEnough(q, span, steps)
                      /\ IsRounded(times, q)
<1>1. Len(times) \in Nat
  OBVIOUS
<1>2. AllFinite(times)
  BY DEF AssessTimeAxis, AllFinite, Invalid
<1>3. AssessTimeAxis(times, q) =
          IF steps < 1 THEN Valid(FALSE, 1)
          ELSE IF first <= 0 THEN Invalid
          ELSE IF exact THEN Valid(FALSE, first * steps)
          ELSE IF rounded THEN Valid(TRUE, span)
          ELSE Invalid
  BY <1>2 DEF AssessTimeAxis, AllFinite
<1>4. ~Invalid.approximate /\ ~Valid(FALSE, 1).approximate
      /\ ~Valid(FALSE, first * steps).approximate /\ Valid(TRUE, span).span = span
  BY DEF Invalid, Valid
<1>5. ~(steps < 1) /\ ~exact /\ rounded /\ AssessTimeAxis(times, q) = Valid(TRUE, span)
  <2> HIDE DEF steps, first, span, exact, rounded
  <2> QED BY <1>3, <1>4
<1>6. Len(times) >= 3
  BY <1>1, <1>5
<1>7. span \in Int
  <2>1. Len(times) \in 1 .. Len(times) /\ 1 \in 1 .. Len(times)
    BY <1>1, <1>6
  <2>2. times[Len(times)] \in Int /\ times[1] \in Int
    BY <1>2, <2>1 DEF AllFinite, Numbers
  <2> QED BY <2>2
<1> QED BY <1>2, <1>4, <1>5, <1>6, <1>7

\* An axis is one of the content that is in the file.
LEMMA LoadGivesTheAxis ==
    ASSUME TypeSound, Load, axis' # None
    PROVE  /\ axis' \in Axes /\ axis'.write = writes
           /\ IsWorth(axis') /\ IsAxisOf(axis', file)
<1> DEFINE declared == DeclaredQuantum(file)
           quantum == IF declared \in {None, Error} THEN 0 ELSE declared
           times == Times(file)
           assessed == AssessTimeAxis(times, quantum)
           span == times[Len(times)] - times[1]
<1>1. file \in Sources /\ writes \in Nat
  BY DEF TypeSound
<1>2. /\ declared # Error /\ assessed.approximate
      /\ axis' = [write |-> writes, quantum |-> quantum, span |-> assessed.span,
                  origin |-> times[1], frameCount |-> Len(times)]
  BY DEF Load
<1>3. times \in Seq(Numbers) /\ Len(times) = Len(file.tokens) /\ Len(times) \in Nat
  BY <1>1, TimesType
<1>4. quantum \in Int
  BY <1>1, QuantumIsDeclared
<1>5. /\ AllFinite(times) /\ Len(times) >= 3 /\ quantum > 0 /\ IsRounded(times, quantum)
      /\ span \in Int /\ span > 0 /\ FineEnough(quantum, span, Len(times) - 1)
      /\ assessed.span = span
  <2> HIDE DEF quantum, times
  <2> QED BY <1>2, <1>3, <1>4, ApproximateIs
<1>6. declared \notin {None, Error} /\ quantum = declared
  BY <1>5
<1>7. times[1] \in Int
  BY <1>1, <1>3, <1>5, FiniteTimes
<1> HIDE DEF declared, quantum, times, assessed
<1>8. axis' \in Axes /\ axis'.write = writes
  BY <1>1, <1>2, <1>3, <1>4, <1>5, <1>7 DEF Axes
<1>9. IsWorth(axis')
  BY <1>2, <1>5 DEF IsWorth
<1>10. IsAxisOf(axis', file)
  BY <1>2, <1>5, <1>6 DEF IsAxisOf, declared, times
<1> QED BY <1>8, <1>9, <1>10

\* The times of an accepted axis grow.
LEMMA AxisGrows ==
    ASSUME NEW source \in Sources, NEW a, IsAxisOf(a, source)
    PROVE  \A i, j \in 1 .. Len(source.tokens) :
               i < j => Times(source)[i] < Times(source)[j]
<1> DEFINE times == Times(source)
<1>1. Len(times) \in Nat /\ Len(times) = Len(source.tokens)
  BY TimesType
<1>2. \A i \in 1 .. Len(times) : times[i] \in Int
  BY <1>1, FiniteTimes DEF IsAxisOf
<1>3. \A i \in 2 .. Len(times) : times[i - 1] < times[i]
  <2>1. TAKE i \in 2 .. Len(times)
  <2>2. i \in 1 .. Len(times) /\ i - 1 \in 1 .. Len(times) /\ i > 1
    BY <1>1
  <2>3. times[i] - times[i - 1] > 0
    BY <2>2 DEF IsAxisOf, IsRounded
  <2>4. times[i] \in Int /\ times[i - 1] \in Int
    BY <1>2, <2>2
  <2> HIDE DEF times
  <2> QED BY <2>3, <2>4
<1> HIDE DEF times
<1>4. \A i, j \in 1 .. Len(times) : i < j => times[i] < times[j]
  BY <1>1, <1>2, <1>3, GrowsThroughout
<1> QED BY <1>1, <1>4 DEF times

\* A frame of an accepted axis is on it.
LEMMA AxisFits ==
    ASSUME NEW source \in Sources, NEW f \in Frames, IsAxisOf(f, source),
           f.frameIndex + 1 <= Len(source.tokens)
    PROVE  OnTheAxis(Times(source)[f.frameIndex + 1], f)
<1> DEFINE times == Times(source)
           i == f.frameIndex + 1
<1>1. Len(times) \in Nat /\ Len(times) = Len(source.tokens) /\ f.frameIndex \in Nat
      /\ f.frameCount = Len(times)
  BY TimesType DEF Frames, IsAxisOf
<1>2. i \in 1 .. Len(times) /\ i - 1 = f.frameIndex /\ f.frameIndex < f.frameCount
  BY <1>1
<1>3. /\ f.origin = times[1] /\ f.span = times[Len(times)] - times[1]
      /\ AllFinite(times) /\ IsRounded(times, f.quantum)
  BY DEF IsAxisOf
<1>4. Abs((times[i] - times[1]) * (Len(times) - 1) - (i - 1) * (times[Len(times)] - times[1]))
         <= f.quantum * (Len(times) - 1)
  BY <1>2, <1>3 DEF IsRounded
<1>5. times[i] # NotFinite
  BY <1>2, <1>3 DEF AllFinite
<1> HIDE DEF times, i
<1>6. OnTheAxis(times[i], f)
  BY <1>1, <1>2, <1>3, <1>4, <1>5 DEF OnTheAxis
<1> QED BY <1>6 DEF times, i

-----------------------------------------------------------------------------
(* The steps                                                                *)

\* Nothing is loaded or selected yet.
LEMMA InitSound == Init => IInv
<1>1. SUFFICES ASSUME Init PROVE IInv
  OBVIOUS
<1>2. picked = <<>> /\ Len(picked) = 0 /\ picked \in Seq(Picks)
  BY <1>1 DEF Init
<1> QED BY <1>1, <1>2 DEF Init, IInv, TypeSound, AxisSound

\* A new content leaves what was loaded from older ones worth what it was: nothing
\* more is claimed of it.
LEMMA WriteKeeps ==
    ASSUME IInv, NEW source \in Sources, Write(source)
    PROVE  IInv'
<1>1. /\ writes \in Nat /\ writes' = writes + 1 /\ file' = source
      /\ axis' = axis /\ picked' = picked
  BY DEF Write, IInv, TypeSound
<1>2. TypeSound'
  BY <1>1 DEF IInv, TypeSound
<1>3. AxisSound'
  <2>1. SUFFICES ASSUME axis # None
                 PROVE  IsWorth(axis) /\ axis.write <= writes + 1 /\ axis.write # writes + 1
    BY <1>1 DEF AxisSound
  <2>2. IsWorth(axis) /\ axis.write <= writes /\ axis.write \in Nat
    BY <2>1 DEF IInv, TypeSound, AxisSound, Axes
  <2> QED BY <1>1, <2>2
<1>4. ASSUME NEW i \in 1 .. Len(picked) PROVE PickSound(picked[i])'
  <2>1. PickSound(picked[i]) /\ picked[i] \in Picks
    BY DEF IInv, TypeSound
  <2>2. /\ picked[i].read \in Nat /\ picked[i].loaded \in Nat
        /\ picked[i].read <= writes /\ picked[i].loaded <= writes
    BY <2>1 DEF PickSound, Picks
  <2>3. /\ picked[i].read <= writes + 1 /\ picked[i].loaded <= writes + 1
        /\ picked[i].read # writes + 1 /\ picked[i].loaded # writes + 1
    BY <1>1, <2>2
  <2> QED BY <1>1, <2>1, <2>3 DEF PickSound
<1>5. \A i, j \in 1 .. Len(picked) : PairSound(picked[i], picked[j])'
  BY <1>1 DEF IInv, PairSound
<1> QED BY <1>1, <1>2, <1>3, <1>4, <1>5 DEF IInv

\* The axis that a load gives is that of the content that is there.
LEMMA LoadKeeps ==
    ASSUME IInv, Load
    PROVE  IInv'
<1>1. file' = file /\ writes' = writes /\ picked' = picked
  BY DEF Load
<1>2. axis' # None => /\ axis' \in Axes /\ axis'.write = writes
                      /\ IsWorth(axis') /\ IsAxisOf(axis', file)
  BY LoadGivesTheAxis DEF IInv
<1>3. TypeSound'
  BY <1>1, <1>2 DEF IInv, TypeSound
<1>4. AxisSound'
  BY <1>1, <1>2 DEF AxisSound, IInv, TypeSound
<1>5. \A i \in 1 .. Len(picked) : PickSound(picked[i])'
  BY <1>1 DEF IInv, PickSound
<1>6. \A i, j \in 1 .. Len(picked) : PairSound(picked[i], picked[j])'
  BY <1>1 DEF IInv, PairSound
<1> QED BY <1>1, <1>3, <1>4, <1>5, <1>6 DEF IInv

\* Nothing is selected any more.
LEMMA DeselectKeeps ==
    ASSUME IInv, Deselect
    PROVE  IInv'
<1>1. /\ file' = file /\ writes' = writes /\ axis' = axis
      /\ picked' = <<>> /\ Len(picked') = 0 /\ picked' \in Seq(Picks)
  BY DEF Deselect
<1>2. TypeSound' /\ AxisSound'
  BY <1>1 DEF IInv, TypeSound, AxisSound
<1> QED BY <1>1, <1>2 DEF IInv

\* Two frames of the content that is in the file.
LEMMA PairOfTheFile ==
    ASSUME TypeSound, NEW p \in Picks, NEW q \in Picks, PickSound(p), PickSound(q),
           p.read = writes \/ q.read = writes
    PROVE  PairSound(p, q)
<1>1. SUFFICES ASSUME p.read = p.loaded, q.read = q.loaded, p.read = q.read
               PROVE  /\ SameAxis(p.frame, q.frame)
                      /\ p.frame.frameIndex < q.frame.frameIndex => p.time < q.time
  BY DEF PairSound
<1>2. IsAxisOf(p.frame, file) /\ IsAxisOf(q.frame, file) /\ file \in Sources
  BY <1>1 DEF PickSound, TypeSound
<1>3. SameAxis(p.frame, q.frame)
  BY <1>2 DEF IsAxisOf, SameAxis
<1>4. ASSUME p.frame.frameIndex < q.frame.frameIndex PROVE p.time < q.time
  <2> DEFINE i == p.frame.frameIndex + 1
             j == q.frame.frameIndex + 1
  <2>1. p.frame.frameIndex \in Nat /\ q.frame.frameIndex \in Nat
    BY DEF Picks, Frames
  <2>2. /\ i <= Len(file.tokens) /\ p.time = Times(file)[i]
        /\ j <= Len(file.tokens) /\ q.time = Times(file)[j]
    BY <1>1 DEF PickSound
  <2>3. Len(file.tokens) \in Nat
    BY <1>2, TimesType
  <2>4. i \in 1 .. Len(file.tokens) /\ j \in 1 .. Len(file.tokens) /\ i < j
    BY <1>4, <2>1, <2>2, <2>3
  <2>5. Times(file)[i] < Times(file)[j]
    BY <1>2, <2>4, AxisGrows
  <2> QED BY <2>2, <2>5
<1> QED BY <1>3, <1>4

\* A frame that is selected is tagged with the content its time was read from and the
\* one its axis was loaded from; it is sound together with all frames before it.
LEMMA PickKeeps ==
    ASSUME IInv, NEW i \in 1 .. Len(file.tokens), Pick(i)
    PROVE  IInv'
<1> DEFINE p == [time |-> Times(file)[i], frame |-> Provenance(i),
                 read |-> writes, loaded |-> axis.write]
           n == Len(picked)
<1>1. /\ file' = file /\ writes' = writes /\ axis' = axis
      /\ axis # None /\ i <= axis.frameCount /\ picked' = Append(picked, p)
  BY DEF Pick
<1>2. /\ axis \in Axes /\ file \in Sources /\ writes \in Nat /\ picked \in Seq(Picks)
      /\ IsWorth(axis) /\ axis.write <= writes
      /\ axis.write = writes => IsAxisOf(axis, file)
  BY <1>1 DEF IInv, TypeSound, AxisSound
<1>3. Len(file.tokens) \in Nat /\ Times(file)[i] \in Numbers
  BY <1>2, TimesType
<1>4. p.frame \in Frames /\ p.frame.frameIndex = i - 1
  BY <1>2, <1>3 DEF Provenance, Frames, Axes
<1>5. p \in Picks
  BY <1>2, <1>3, <1>4 DEF Picks, Axes
<1>6. PickSound(p)
  <2>1. IsWorth(p.frame)
    BY <1>2 DEF IsWorth, Provenance
  <2>2. p.frame.frameIndex < p.frame.frameCount
    BY <1>1, <1>2, <1>3 DEF Provenance, Axes
  <2>3. p.loaded = writes => IsAxisOf(p.frame, file)
    BY <1>2 DEF IsAxisOf, Provenance
  <2>4. p.frame.frameIndex + 1 = i
    BY <1>3, <1>4
  <2>5. p.read = p.loaded => OnTheAxis(p.time, p.frame)
    <3>1. SUFFICES ASSUME p.read = p.loaded PROVE OnTheAxis(p.time, p.frame)
      OBVIOUS
    <3>2. IsAxisOf(p.frame, file) /\ p.frame.frameIndex + 1 <= Len(file.tokens)
      BY <1>3, <2>3, <2>4, <3>1
    <3>3. OnTheAxis(Times(file)[p.frame.frameIndex + 1], p.frame)
      <4> HIDE DEF p
      <4> QED BY <1>2, <1>4, <3>2, AxisFits
    <3> QED BY <2>4, <3>3
  <2>6. p.frame.frameIndex + 1 <= Len(file.tokens) /\ p.time = Times(file)[p.frame.frameIndex + 1]
    BY <1>3, <2>4
  <2>7. p.read <= writes /\ p.loaded <= writes
    BY <1>2
  <2> QED BY <2>1, <2>2, <2>3, <2>5, <2>6, <2>7 DEF PickSound
<1> HIDE DEF p
<1>7. /\ picked' \in Seq(Picks) /\ Len(picked') = n + 1 /\ n \in Nat
      /\ \A j \in 1 .. n : picked'[j] = picked[j] /\ picked[j] \in Picks
      /\ picked'[n + 1] = p
  BY <1>1, <1>2, <1>5
<1>8. \A j \in 1 .. Len(picked') : j \in 1 .. n \/ j = n + 1
  BY <1>7
<1>9. TypeSound' /\ AxisSound'
  BY <1>1, <1>7 DEF IInv, TypeSound, AxisSound
<1>10. ASSUME NEW j \in 1 .. Len(picked')
       PROVE  picked'[j] \in Picks /\ PickSound(picked'[j])
                /\ (j \in 1 .. n \/ picked'[j].read = writes)
  <2>1. CASE j \in 1 .. n
    BY <1>7, <2>1 DEF IInv
  <2>2. CASE j = n + 1
    BY <1>5, <1>6, <1>7, <2>2 DEF p
  <2> QED BY <1>8, <2>1, <2>2
<1>11. ASSUME NEW j \in 1 .. Len(picked'), NEW k \in 1 .. Len(picked')
       PROVE  PairSound(picked'[j], picked'[k])
  <2>1. CASE j \in 1 .. n /\ k \in 1 .. n
    BY <1>7, <2>1 DEF IInv
  <2>2. CASE ~(j \in 1 .. n /\ k \in 1 .. n)
    BY <1>10, <2>2, PairOfTheFile DEF IInv
  <2> QED BY <2>1, <2>2
<1>12. ASSUME NEW j \in 1 .. Len(picked') PROVE PickSound(picked[j])'
  BY <1>1, <1>10 DEF PickSound
<1>13. ASSUME NEW j \in 1 .. Len(picked'), NEW k \in 1 .. Len(picked')
       PROVE  PairSound(picked[j], picked[k])'
  BY <1>11 DEF PairSound
<1> QED BY <1>9, <1>12, <1>13 DEF IInv

\* What a load has found out about an axis is so, in any run.
THEOREM Invariance == Spec => []IInv
<1>1. IInv /\ [Next]_vars => IInv'
  <2>1. SUFFICES ASSUME IInv, [Next]_vars PROVE IInv'
    OBVIOUS
  <2>2. CASE UNCHANGED vars
    BY <2>1, <2>2 DEF vars, IInv, TypeSound, AxisSound, PickSound, PairSound
  <2>3. CASE Next
    BY <2>1, <2>3, WriteKeeps, LoadKeeps, PickKeeps, DeselectKeeps DEF Next
  <2> QED BY <2>1, <2>2, <2>3
<1> QED BY <1>1, InitSound, PTL DEF Spec

-----------------------------------------------------------------------------
(* A selection that gets a step                                             *)

\* A selection, its times and its provenance are of one length.
LEMMA PickedTypes ==
    ASSUME IInv
    PROVE  /\ Len(picked) \in Nat
           /\ Len(PickedTimes) = Len(picked) /\ Len(PickedFrames) = Len(picked)
           /\ (PickedTimes = <<>>) <=> (Len(picked) = 0)
           /\ (picked = <<>>) <=> (Len(picked) = 0)
           /\ \A i \in 1 .. Len(picked) :
                 /\ picked[i] \in Picks
                 /\ PickedTimes[i] = picked[i].time /\ PickedFrames[i] = picked[i].frame
                 /\ picked[i].time \in Numbers /\ picked[i].frame \in Frames
                 /\ picked[i].frame.quantum \in Int /\ picked[i].frame.span \in Int
                 /\ picked[i].frame.origin \in Int /\ picked[i].frame.frameCount \in Int
                 /\ picked[i].frame.frameIndex \in Nat
<1>1. Len(picked) \in Nat /\ picked \in Seq(Picks)
  BY DEF IInv, TypeSound
<1>2. Len(PickedTimes) = Len(picked) /\ Len(PickedFrames) = Len(picked)
  BY <1>1 DEF PickedTimes, PickedFrames
<1>3. (PickedTimes = <<>>) <=> (Len(picked) = 0)
  BY <1>1 DEF PickedTimes
<1>4. (picked = <<>>) <=> (Len(picked) = 0)
  BY <1>1
<1>5. ASSUME NEW i \in 1 .. Len(picked)
      PROVE  /\ picked[i] \in Picks
             /\ PickedTimes[i] = picked[i].time /\ PickedFrames[i] = picked[i].frame
             /\ picked[i].time \in Numbers /\ picked[i].frame \in Frames
  <2>1. picked[i] \in Picks
    BY <1>1
  <2> QED BY <2>1 DEF PickedTimes, PickedFrames, Picks
<1> QED BY <1>1, <1>2, <1>3, <1>4, <1>5 DEF Frames

\* What a step of a selection means.
LEMMA StepMeans ==
    ASSUME IInv, TimeStep # None
    PROVE  LET f == picked[1].frame
               d == Stride(PickedFrames)
           IN  /\ 1 \in 1 .. Len(picked) /\ f.frameCount >= 3 /\ f.quantum > 0
               /\ d \in Nat \ {0} /\ TimeStep = f.span * d
               /\ \A i \in 1 .. Len(picked) :
                     /\ SameAxis(picked[i].frame, f)
                     /\ picked[i].time \in Int
                     /\ OnTheAxis(picked[i].time, picked[i].frame)
               /\ \A i \in 2 .. Len(picked) :
                     picked[i].frame.frameIndex - picked[i - 1].frame.frameIndex = d
<1> DEFINE f == picked[1].frame
           d == Stride(PickedFrames)
<1>1. /\ PickedTimes # <<>> /\ PickedFrames[1].frameCount >= 3 /\ PickedFrames[1].quantum > 0
      /\ \A i \in 1 .. Len(PickedTimes) :
            SameAxis(PickedFrames[i], PickedFrames[1]) /\ OnTheAxis(PickedTimes[i], PickedFrames[i])
      /\ Evenly(PickedTimes, PickedFrames)
      /\ TimeStep = SelectedSpan(PickedTimes, PickedFrames)
  BY DEF TimeStep, ValidatedTimeStep
<1>2. 1 \in 1 .. Len(picked) /\ PickedFrames[1] = f
  BY <1>1, PickedTypes
<1>3. d \in Nat \ {0}
  <2>1. CASE Len(picked) > 1
    <3>1. 2 \in 1 .. Len(picked)
      BY <2>1, PickedTypes
    <3>2. PickedFrames[2].frameIndex \in Nat /\ PickedFrames[1].frameIndex \in Nat
      BY <1>2, <3>1, PickedTypes
    <3> QED BY <3>2 DEF Stride
  <2>2. CASE ~(Len(picked) > 1)
    BY <2>2, PickedTypes DEF Stride
  <2> QED BY <2>1, <2>2
<1>4. ASSUME NEW i \in 1 .. Len(picked)
      PROVE  /\ SameAxis(picked[i].frame, f) /\ picked[i].time \in Int
             /\ OnTheAxis(picked[i].time, picked[i].frame)
  <2>1. SameAxis(picked[i].frame, f) /\ OnTheAxis(picked[i].time, picked[i].frame)
    BY <1>1, <1>2, PickedTypes
  <2>2. picked[i].time # NotFinite /\ picked[i].time \in Numbers
    BY <2>1, PickedTypes DEF OnTheAxis
  <2> QED BY <2>1, <2>2 DEF Numbers
<1>5. ASSUME NEW i \in 2 .. Len(picked)
      PROVE  picked[i].frame.frameIndex - picked[i - 1].frame.frameIndex = d
  <2>1. i \in 1 .. Len(picked) /\ i - 1 \in 1 .. Len(picked)
    BY PickedTypes
  <2> QED BY <1>1, <2>1, PickedTypes DEF Evenly
<1>6. TimeStep = f.span * d /\ f.frameCount >= 3 /\ f.quantum > 0
  BY <1>1, <1>2 DEF SelectedSpan
<1> QED BY <1>2, <1>3, <1>4, <1>5, <1>6

\* In any run, of any frames of any contents, a step that a selection gets is as
\* long as the time between its frames, within two quanta of the axis.
THEOREM SelectionCorrect == Spec => []SelectionFitsItsStep
<1>1. ASSUME IInv PROVE SelectionFitsItsStep
  <2>1. SUFFICES ASSUME TimeStep # None,
                        NEW i \in 1 .. Len(picked), NEW j \in 1 .. Len(picked), i < j
                 PROVE  LET steps == picked[1].frame.frameCount - 1
                        IN  Distance(picked[j].time, j - i, picked[i].time, TimeStep, steps)
                               <= 2 * picked[1].frame.quantum * steps
    BY DEF SelectionFitsItsStep
  <2> DEFINE f == picked[1].frame
             d == Stride(PickedFrames)
             s == f.frameCount - 1
             k == picked[i].frame.frameIndex
             l == picked[j].frame.frameIndex
             index == [m \in 1 .. Len(picked) |-> picked[m].frame.frameIndex]
  <2>2. /\ 1 \in 1 .. Len(picked) /\ f.frameCount >= 3 /\ f.quantum > 0
        /\ d \in Nat \ {0} /\ TimeStep = f.span * d
        /\ picked[i].time \in Int /\ picked[j].time \in Int
        /\ SameAxis(picked[i].frame, f) /\ OnTheAxis(picked[i].time, picked[i].frame)
        /\ SameAxis(picked[j].frame, f) /\ OnTheAxis(picked[j].time, picked[j].frame)
    BY <1>1, <2>1, StepMeans
  <2>3. /\ k \in Nat /\ l \in Nat /\ f.span \in Int /\ f.origin \in Int
        /\ f.frameCount \in Int /\ f.quantum \in Int /\ s \in Int
    BY <1>1, <2>2, PickedTypes
  <2>4. l - k = (j - i) * d
    <3>1. \A m \in 1 .. Len(picked) : index[m] \in Int
      BY <1>1, PickedTypes
    <3>2. \A m \in 2 .. Len(picked) : index[m] - index[m - 1] = d
      <4>1. TAKE m \in 2 .. Len(picked)
      <4>2. m \in 1 .. Len(picked) /\ m - 1 \in 1 .. Len(picked)
        BY <1>1, PickedTypes
      <4>3. picked[m].frame.frameIndex - picked[m - 1].frame.frameIndex = d
        BY <1>1, <2>1, StepMeans
      <4> QED BY <4>2, <4>3
    <3>3. d \in Int /\ Len(picked) \in Nat
      BY <1>1, <2>2, PickedTypes
    <3>4. \A m \in 1 .. Len(picked) : index[m] - index[1] = (m - 1) * d
      <4> HIDE DEF index, d
      <4> QED BY <3>1, <3>2, <3>3, GrowsEvenly
    <3>5. index[i] = k /\ index[j] = l /\ index[1] \in Int
      BY <2>2, <3>1
    <3>6. k - index[1] = (i - 1) * d /\ l - index[1] = (j - 1) * d
      BY <3>4, <3>5
    <3>7. (j - 1) * d - (i - 1) * d = (j - i) * d
      BY <3>3
    <3> HIDE DEF index, d, k, l
    <3> QED BY <2>3, <3>3, <3>5, <3>6, <3>7
  <2>5. /\ Abs((picked[i].time - f.origin) * s - k * f.span) <= f.quantum * s
        /\ Abs((picked[j].time - f.origin) * s - l * f.span) <= f.quantum * s
    BY <2>2 DEF OnTheAxis, SameAxis
  <2> HIDE DEF f, d, s, k, l, index
  <2>6. Abs((picked[j].time - picked[i].time) * s - (l - k) * f.span) <= 2 * (f.quantum * s)
    <3> DEFINE t == picked[i].time
               u == picked[j].time
               b == f.quantum * s
    <3>1. /\ b \in Int /\ k \in Int /\ l \in Int /\ s \in Int /\ t \in Int /\ u \in Int
          /\ f.origin \in Int /\ f.span \in Int
      BY <2>2, <2>3
    <3>2. Abs((t - f.origin) * s - k * f.span) <= b /\ Abs((u - f.origin) * s - l * f.span) <= b
      BY <2>5
    <3> HIDE DEF t, u, b
    <3>3. Abs((u - t) * s - (l - k) * f.span) <= 2 * b
      BY <3>1, <3>2, NearOneAnother
    <3> QED BY <3>3 DEF t, u, b
  <2>7. (l - k) * f.span = (j - i) * TimeStep
    BY <2>2, <2>3, <2>4
  <2>8. 2 * (f.quantum * s) = 2 * f.quantum * s
    BY <2>3
  <2> QED BY <2>6, <2>7, <2>8 DEF Distance, f, s
<1> QED BY <1>1, Invariance, PTL

-----------------------------------------------------------------------------
(* The physical times of a run                                              *)

\* How far the printed times of a source are off.
LEMMA PrintedTimes ==
    ASSUME NEW source \in Sources, AllFinite(Times(source))
    PROVE  LET n == Len(source.tokens)
               t == Times(source)
               quantum(i) == TokenQuantum(source.tokens[i])
           IN  /\ n \in Nat /\ Len(source.truth) = n
               /\ \A i \in 1 .. n :
                     /\ t[i] \in Int /\ source.truth[i] \in Int /\ quantum(i) \in Nat \ {0}
                     /\ Abs(t[i] - source.truth[i]) <= quantum(i)
               /\ \A i, j \in 1 .. n :
                     \/ Abs((t[i] - source.truth[i]) - (t[j] - source.truth[j])) <= quantum(i)
                     \/ Abs((t[i] - source.truth[i]) - (t[j] - source.truth[j])) <= quantum(j)
<1> DEFINE n == Len(source.tokens)
           t == Times(source)
           quantum(i) == TokenQuantum(source.tokens[i])
<1>1. /\ n \in Nat /\ Len(source.truth) = n
      /\ \A i \in 1 .. n : t[i] = source.tokens[i].time /\ t[i] \in Int /\ t[i] # NotFinite
  BY TimesType, FiniteTimes, SourceAssumption DEF AllFinite
<1>2. ASSUME NEW i \in 1 .. n
      PROVE  /\ source.truth[i] \in Int /\ quantum(i) \in Nat \ {0}
             /\ Abs(t[i] - source.truth[i]) <= quantum(i)
  <2>1. source.truth \in Seq(Int)
    BY SourceAssumption
  <2>2. source.truth[i] \in Int
    BY <1>1, <2>1
  <2> QED BY <1>1, <2>2, SourceAssumption
<1>3. ASSUME NEW i \in 1 .. n, NEW j \in 1 .. n
      PROVE  \/ Abs((t[i] - source.truth[i]) - (t[j] - source.truth[j])) <= quantum(i)
             \/ Abs((t[i] - source.truth[i]) - (t[j] - source.truth[j])) <= quantum(j)
  BY <1>1, SourceAssumption
<1> HIDE DEF n, t, quantum
<1> QED BY <1>1, <1>2, <1>3 DEF n, t, quantum

\* An axis of the content that is in the file is what the root says, and the run's.
THEOREM AxisCorrect == Spec => []AxisIsTheRuns
<1>1. ASSUME IInv PROVE AxisIsTheRuns
  <2>1. SUFFICES ASSUME axis # None, axis.write = writes
                 PROVE  /\ Declares(file, axis.quantum)
                        /\ \A i \in 1 .. Len(file.tokens) :
                              Distance(file.truth[i], i - 1, axis.origin, axis.span,
                                       axis.frameCount - 1)
                                 <= (axis.quantum + TokenQuantum(file.tokens[i]))
                                       * (axis.frameCount - 1)
    BY DEF AxisIsTheRuns
  <2>2. /\ axis \in Axes /\ file \in Sources /\ IsWorth(axis) /\ IsAxisOf(axis, file)
    BY <1>1, <2>1 DEF IInv, TypeSound, AxisSound
  <2>3. Declares(file, axis.quantum)
    BY <2>2, QuantumIsDeclared DEF IsAxisOf
  <2>4. ASSUME NEW i \in 1 .. Len(file.tokens)
        PROVE  Distance(file.truth[i], i - 1, axis.origin, axis.span, axis.frameCount - 1)
                  <= (axis.quantum + TokenQuantum(file.tokens[i])) * (axis.frameCount - 1)
    <3> DEFINE time == Times(file)[i]
               truth == file.truth[i]
               s == axis.frameCount - 1
               place == (i - 1) * axis.span
               e == TokenQuantum(file.tokens[i])
               t == time - axis.origin
               u == truth - axis.origin
    <3>1. /\ axis.quantum \in Int /\ axis.span \in Int /\ axis.origin \in Int
          /\ axis.frameCount \in Int /\ s \in Nat
      BY <2>2 DEF Axes, IsWorth
    <3>2. /\ time \in Int /\ truth \in Int /\ e \in Int /\ Abs(time - truth) <= e
      BY <2>2, PrintedTimes DEF IsAxisOf
    <3>3. Abs(t * s - place) <= axis.quantum * s
      <4>1. /\ axis.frameCount = Len(Times(file)) /\ axis.origin = Times(file)[1]
            /\ axis.span = Times(file)[Len(Times(file))] - Times(file)[1]
            /\ IsRounded(Times(file), axis.quantum) /\ i \in 1 .. Len(Times(file))
        BY <2>2, TimesType DEF IsAxisOf
      <4> QED BY <4>1 DEF IsRounded
    <3>4. place \in Int /\ t \in Int /\ u \in Int /\ t - u = time - truth
      BY <3>1, <3>2
    <3> HIDE DEF time, truth, s, place, e, t, u
    <3>5. Abs(u * s - place) <= (axis.quantum + e) * s
      BY <3>1, <3>2, <3>3, <3>4, NearTheTruth
    <3> QED BY <3>5 DEF Distance, truth, s, place, e, u
  <2> QED BY <2>3, <2>4
<1> QED BY <1>1, Invariance, PTL

\* One of finitely many numbers is the greatest.
LEMMA GreatestOf ==
    ASSUME NEW n \in Nat \ {0}, NEW f, \A i \in 1 .. n : f[i] \in Int
    PROVE  \E i \in 1 .. n : \A j \in 1 .. n : f[i] >= f[j]
<1> DEFINE Greatest(m) == \E i \in 1 .. m : \A j \in 1 .. m : f[i] >= f[j]
           Bad == {m \in 1 .. n : ~Greatest(m)}
<1>1. SUFFICES ASSUME n \in Bad PROVE FALSE
  OBVIOUS
<1>2. PICK m \in Bad : \A k \in Bad : m <= k
  <2>1. Bad \in SUBSET Nat
    OBVIOUS
  <2> HIDE DEF Bad
  <2> QED BY <1>1, <2>1, NatLeast
<1>3. m \in 1 .. n /\ ~Greatest(m)
  BY <1>2
<1>4. m # 1
  <2>1. \A j \in 1 .. 1 : j = 1
    OBVIOUS
  <2>2. f[1] \in Int => f[1] >= f[1]
    OBVIOUS
  <2>3. Greatest(1)
    BY <1>3, <2>1, <2>2
  <2> QED BY <1>3, <2>3
<1>5. m - 1 \in 1 .. n /\ ~(m <= m - 1)
  BY <1>3, <1>4
<1>6. PICK i \in 1 .. m - 1 : \A j \in 1 .. m - 1 : f[i] >= f[j]
  <2>1. m - 1 \notin Bad
    BY <1>2, <1>5
  <2> QED BY <1>5, <2>1
<1>7. /\ i \in 1 .. n /\ i \in 1 .. m /\ m \in 1 .. m /\ f[i] \in Int /\ f[m] \in Int
      /\ \A j \in 1 .. m : f[j] \in Int /\ (j = m \/ f[i] >= f[j])
  BY <1>3, <1>5, <1>6
<1>8. CASE f[m] >= f[i]
  <2>1. \A j \in 1 .. m : f[m] >= f[j]
    BY <1>7, <1>8
  <2> QED BY <1>3, <1>7, <2>1
<1>9. CASE ~(f[m] >= f[i])
  <2>1. \A j \in 1 .. m : f[i] >= f[j]
    BY <1>7, <1>9
  <2> QED BY <1>3, <1>7, <2>1
<1> QED BY <1>8, <1>9

\* The roundings of finitely many frames have a greatest one.
LEMMA GreatestRounding ==
    ASSUME NEW source \in Sources, Len(source.tokens) >= 1
    PROVE  /\ Max(Rounding(source)) \in Int
           /\ \A i \in 1 .. Len(source.tokens) :
                 TokenQuantum(source.tokens[i]) <= Max(Rounding(source))
<1> DEFINE n == Len(source.tokens)
           f == [i \in 1 .. n |-> TokenQuantum(source.tokens[i])]
           R == Rounding(source)
<1>1. n \in Nat \ {0} /\ \A i \in 1 .. n : f[i] \in Int
  BY TimesType, SourceAssumption
<1>2. PICK i \in 1 .. n : \A j \in 1 .. n : f[i] >= f[j]
  <2> HIDE DEF f, n
  <2> QED BY <1>1, GreatestOf
<1>3. R = {f[j] : j \in 1 .. n}
  BY DEF Rounding
<1>4. f[i] \in R /\ \A y \in R : f[i] >= y
  BY <1>2, <1>3
<1>5. Max(R) \in R /\ \A y \in R : Max(R) >= y
  BY <1>4 DEF Max
<1>6. \A y \in R : y \in Int
  BY <1>1, <1>3
<1>7. ASSUME NEW j \in 1 .. n PROVE f[j] <= Max(R)
  BY <1>1, <1>3, <1>5, <1>6
<1> QED BY <1>5, <1>6, <1>7

\* A run of equal steps has come as far as their number says.
LEMMA UniformTruth ==
    ASSUME NEW source \in Sources, AllFinite(Times(source)), IsUniform(source)
    PROVE  /\ Len(source.tokens) >= 2 /\ UniformStep(source) \in Int
           /\ \A i \in 1 .. Len(source.tokens) :
                 source.truth[i] - source.truth[1] = (i - 1) * UniformStep(source)
<1> DEFINE n == Len(source.tokens)
           truth == source.truth
           d == UniformStep(source)
<1>1. n \in Nat /\ Len(truth) = n /\ \A i \in 1 .. n : truth[i] \in Int
  BY PrintedTimes
<1>2. n >= 2
  BY <1>1 DEF IsUniform
<1>3. d \in Int /\ d = truth[2] - truth[1]
  BY <1>1, <1>2 DEF UniformStep
<1>4. \A i \in 2 .. n : truth[i] - truth[i - 1] = d
  <2>1. TAKE i \in 2 .. n
  <2>2. CASE i = 2
    BY <1>3, <2>2
  <2>3. CASE i # 2
    <3>1. i \in 3 .. Len(truth)
      BY <1>1, <2>3
    <3> QED BY <1>3, <3>1 DEF IsUniform
  <2> QED BY <2>2, <2>3
<1> HIDE DEF n, truth, d
<1>5. \A i \in 1 .. n : truth[i] - truth[1] = (i - 1) * d
  BY <1>1, <1>3, <1>4, GrowsEvenly
<1> QED BY <1>2, <1>3, <1>5 DEF n, truth, d

\* While the file is as it was loaded, the step of a selection is the solver's, up
\* to the rounding of the ends of the axis, whichever frames are selected.
THEOREM StepCorrect == Spec => []StepIsTheSolvers
<1>1. ASSUME IInv PROVE StepIsTheSolvers
  <2> DEFINE f == picked[1].frame
             d == Stride(PickedFrames)
             n == Len(file.tokens)
             U == UniformStep(file)
             M == Max(Rounding(file))
             t == Times(file)
             truth == file.truth
             x == f.span - (n - 1) * U
  <2>1. SUFFICES ASSUME TimeStep # None, IsUniform(file),
                        \A i \in 1 .. Len(picked) :
                            picked[i].read = writes /\ picked[i].loaded = writes
                 PROVE  Abs(TimeStep - d * U * (n - 1)) <= d * M
    BY DEF StepIsTheSolvers
  <2>2. /\ 1 \in 1 .. Len(picked) /\ d \in Nat \ {0} /\ TimeStep = f.span * d
    BY <1>1, <2>1, StepMeans
  <2>3. IsAxisOf(f, file) /\ file \in Sources
    BY <1>1, <2>1, <2>2 DEF IInv, TypeSound, PickSound
  <2>4. /\ AllFinite(t) /\ Len(t) = n /\ n \in Nat /\ f.span = t[n] - t[1]
    BY <2>3, TimesType DEF IsAxisOf
  <2>5. /\ n >= 2 /\ U \in Int /\ \A i \in 1 .. n : truth[i] - truth[1] = (i - 1) * U
    BY <2>1, <2>3, <2>4, UniformTruth
  <2>6. 1 \in 1 .. n /\ n \in 1 .. n
    BY <2>4, <2>5
  <2>7. /\ t[1] \in Int /\ t[n] \in Int /\ truth[1] \in Int /\ truth[n] \in Int
        /\ truth[n] - truth[1] = (n - 1) * U
    BY <2>3, <2>4, <2>5, <2>6, PrintedTimes
  <2>8. M \in Int /\ \A i \in 1 .. n : TokenQuantum(file.tokens[i]) \in Int
                                        /\ TokenQuantum(file.tokens[i]) <= M
    <3>1. n >= 1
      BY <2>4, <2>5
    <3>2. \A i \in 1 .. n : TokenQuantum(file.tokens[i]) \in Int
      BY <2>3, <2>4, PrintedTimes
    <3> QED BY <2>3, <3>1, <3>2, GreatestRounding
  <2>9. \/ Abs((t[n] - truth[n]) - (t[1] - truth[1])) <= TokenQuantum(file.tokens[n])
        \/ Abs((t[n] - truth[n]) - (t[1] - truth[1])) <= TokenQuantum(file.tokens[1])
    BY <2>3, <2>4, <2>6, PrintedTimes
  <2>10. x = (t[n] - truth[n]) - (t[1] - truth[1]) /\ x \in Int /\ (n - 1) * U \in Int
    <3>1. (n - 1) * U \in Int
      BY <2>4, <2>5
    <3> QED BY <2>4, <2>7, <3>1
  <2>11. Abs(x) <= M
    <3>1. Abs(x) \in Int
      BY <2>10 DEF Abs
    <3> QED BY <2>6, <2>8, <2>9, <2>10, <3>1
  <2>12. TimeStep - d * U * (n - 1) = d * x
    <3>1. f.span \in Int
      BY <2>4, <2>7
    <3>2. f.span * d - d * U * (n - 1) = d * (f.span - (n - 1) * U)
      <4> HIDE DEF f, d, n, U
      <4> QED BY <2>2, <2>4, <2>5, <3>1
    <3> QED BY <2>2, <3>2
  <2> HIDE DEF f, d, n, U, M, t, truth, x
  <2>13. Abs(d * x) <= d * M
    <3>1. d \in Nat /\ x \in Int /\ M \in Int /\ x <= M /\ -x <= M
      BY <2>2, <2>8, <2>10, <2>11 DEF Abs
    <3>2. d * x \in Int /\ d * M \in Int /\ d * x <= d * M /\ -(d * x) <= d * M
      <4>1. \A y \in Int : y <= M => d * y <= d * M
        BY <3>1
      <4>2. d * (-x) = -(d * x) /\ -x \in Int
        BY <3>1
      <4>3. d * x <= d * M /\ d * (-x) <= d * M
        BY <3>1, <4>1, <4>2
      <4> QED BY <3>1, <4>2, <4>3
    <3> QED BY <3>2 DEF Abs
  <2> QED BY <2>12, <2>13
<1> QED BY <1>1, Invariance, PTL

-----------------------------------------------------------------------------
(* Nothing sound is refused                                                 *)

\* A mean of two numbers within q of 0 is within q of 0.
LEMMA MeanIsBetween ==
    ASSUME NEW a \in Int, NEW b \in Int, NEW q \in Int, Abs(a) <= q, Abs(b) <= q,
           NEW s \in Nat, NEW k \in Nat, k <= s
    PROVE  Abs(a * (s - k) + k * b) <= q * s
<1>1. a <= q /\ -a <= q /\ b <= q /\ -b <= q /\ s - k \in Nat
  BY DEF Abs
<1>2. \A x \in Int, m \in Nat : x <= q => x * m <= q * m
  OBVIOUS
<1>3. a * (s - k) <= q * (s - k) /\ (-a) * (s - k) <= q * (s - k)
  <2>1. -a \in Int
    OBVIOUS
  <2> QED BY <1>1, <1>2, <2>1
<1>4. b * k <= q * k /\ (-b) * k <= q * k
  <2>1. -b \in Int
    OBVIOUS
  <2> QED BY <1>1, <1>2, <2>1
<1>5. /\ q * (s - k) + q * k = q * s /\ (-a) * (s - k) = -(a * (s - k))
      /\ (-b) * k = -(b * k) /\ b * k = k * b
      /\ a * (s - k) \in Int /\ b * k \in Int /\ q * (s - k) \in Int /\ q * k \in Int
  BY <1>1
<1> DEFINE A == a * (s - k)
           B == b * k
           C == q * (s - k)
           D == q * k
<1>6. /\ A \in Int /\ B \in Int /\ C \in Int /\ D \in Int
      /\ A <= C /\ -A <= C /\ B <= D /\ -B <= D
  BY <1>3, <1>4, <1>5
<1>7. k * b = B /\ q * s = C + D
  BY <1>5
<1> HIDE DEF A, B, C, D
<1>8. Abs(A + B) <= C + D
  BY <1>6 DEF Abs
<1> QED BY <1>7, <1>8 DEF A

\* Two times differ by as much as the true ones and their errors.
LEMMA Offsets ==
    ASSUME NEW t \in Int, NEW t1 \in Int, NEW u \in Int, NEW u1 \in Int,
           NEW x \in Int, u - u1 = x
    PROVE  t - t1 = x + ((t - u) - (t1 - u1))
OBVIOUS

\* A difference, by way of a third number.
LEMMA Between ==
    ASSUME NEW u \in Int, NEW u0 \in Int, NEW u1 \in Int,
           NEW x \in Int, NEW x0 \in Int, u - u1 = x, u0 - u1 = x0
    PROVE  u - u0 = x - x0
OBVIOUS

\* An absolute value is bounded where both signs are.
LEMMA AbsWithin ==
    ASSUME NEW x \in Int, NEW y \in Int, NEW q \in Int, x - y <= q, y - x <= q
    PROVE  x - y \in Int /\ Abs(x - y) <= q /\ -(x - y) <= q
BY DEF Abs

\* Uniform times, with one quantum that is a hundredth of the step, are rounded.
LEMMA UniformIsRounded ==
    ASSUME NEW n \in Nat, n >= 2, NEW t, NEW truth, NEW U \in Int, NEW q \in Nat \ {0},
           100 * q <= U, Len(t) = n,
           \A i \in 1 .. n : t[i] \in Int /\ truth[i] \in Int,
           \A i \in 1 .. n : truth[i] - truth[1] = (i - 1) * U,
           \A i, j \in 1 .. n : Abs((t[i] - truth[i]) - (t[j] - truth[j])) <= q
    PROVE  /\ t[2] - t[1] > 0 /\ t[n] - t[1] > 0
           /\ FineEnough(q, t[n] - t[1], n - 1)
           /\ IsRounded(t, q)
<1> DEFINE s == n - 1
           span == t[n] - t[1]
           e == [i \in 1 .. n |-> t[i] - truth[i]]
<1>1. /\ 1 \in 1 .. n /\ n \in 1 .. n /\ 2 \in 1 .. n /\ s \in Nat /\ s >= 1
      /\ \A i \in 1 .. n : e[i] \in Int /\ e[i] = t[i] - truth[i]
  OBVIOUS
<1> HIDE DEF e
<1>2. \A i \in 1 .. n : t[i] - t[1] = (i - 1) * U + (e[i] - e[1]) /\ (i - 1) * U \in Int
  <2>1. TAKE i \in 1 .. n
  <2>2. (i - 1) * U \in Int
    OBVIOUS
  <2>3. truth[i] - truth[1] = (i - 1) * U /\ t[i] \in Int /\ truth[i] \in Int
        /\ t[1] \in Int /\ truth[1] \in Int
    BY <1>1
  <2>4. t[i] - t[1] = (i - 1) * U + ((t[i] - truth[i]) - (t[1] - truth[1]))
    BY <2>2, <2>3, Offsets
  <2> QED BY <1>1, <2>2, <2>4
<1>3. \A i, j \in 1 .. n : e[i] - e[j] <= q /\ e[j] - e[i] <= q
  <2>1. TAKE i \in 1 .. n, j \in 1 .. n
  <2>2. Abs(e[i] - e[j]) <= q /\ e[i] \in Int /\ e[j] \in Int
    BY <1>1
  <2> QED BY <2>2 DEF Abs
<1>4. t[2] - t[1] > 0
  <2>1. t[2] - t[1] = (2 - 1) * U + (e[2] - e[1]) /\ e[1] - e[2] <= q
        /\ e[1] \in Int /\ e[2] \in Int
    BY <1>1, <1>2, <1>3
  <2> HIDE DEF e
  <2> QED BY <2>1
<1>5. span = s * U + (e[n] - e[1]) /\ e[n] - e[1] <= q /\ e[1] - e[n] <= q /\ span \in Int
      /\ e[n] \in Int /\ e[1] \in Int
  BY <1>1, <1>2, <1>3
<1>6. s * (100 * q) <= s * U /\ s * q >= q /\ s * q \in Int /\ s * U \in Int
      /\ s * (100 * q) = 100 * (s * q)
  <2> HIDE DEF s
  <2>1. \A x \in Int : x <= U => s * x <= s * U
    BY <1>1
  <2>2. 100 * q \in Int /\ s * q \in Int
    BY <1>1
  <2>3. s * (100 * q) <= s * U
    BY <2>1, <2>2
  <2>4. (s - 1) * q >= 0 /\ (s - 1) * q = s * q - q
    <3>1. s - 1 \in Nat
      BY <1>1
    <3> QED BY <1>1, <3>1
  <2>5. s * (100 * q) = 100 * (s * q) /\ s * U \in Int
    BY <1>1
  <2> QED BY <2>2, <2>3, <2>4, <2>5
<1>7. span > 0
  <2> HIDE DEF e, s, span
  <2> QED BY <1>5, <1>6
<1>8. FineEnough(q, span, s)
  <2>1. 1000 * q * s = 1000 * (s * q)
    BY <1>1
  <2>2. 1000 * (s * q) <= 11 * span
    <3> DEFINE x == s * q
               y == s * U
    <3>1. x \in Int /\ y \in Int /\ 100 * x <= y /\ x >= q /\ span = y + (e[n] - e[1])
      BY <1>5, <1>6
    <3> HIDE DEF x, y, e, span
    <3>2. 1000 * x <= 11 * span
      BY <1>5, <3>1
    <3> QED BY <3>2 DEF x
  <2> QED BY <2>1, <2>2 DEF FineEnough
<1>9. ASSUME NEW i \in 1 .. n
      PROVE  Abs((t[i] - t[1]) * s - (i - 1) * span) <= q * s
  <2> DEFINE k == i - 1
             a == e[i] - e[1]
             b == e[i] - e[n]
  <2>1. /\ a \in Int /\ b \in Int /\ Abs(a) <= q /\ Abs(b) <= q
        /\ e[n] - e[1] = a - b
    <3>1. /\ e[i] \in Int /\ e[1] \in Int /\ e[n] \in Int /\ a <= q /\ -a <= q
          /\ b <= q /\ -b <= q
      <4>1. /\ e[i] - e[1] <= q /\ e[1] - e[i] <= q /\ e[i] - e[n] <= q /\ e[n] - e[i] <= q
            /\ e[i] \in Int /\ e[1] \in Int /\ e[n] \in Int
        BY <1>1, <1>3
      <4> QED BY <4>1
    <3> QED BY <3>1 DEF Abs
  <2>2. k \in Nat /\ k <= s
    BY <1>1
  <2>5. t[i] - t[1] = k * U + a /\ span = s * U + (a - b)
    <3> HIDE DEF span, s
    <3> QED BY <1>2, <1>5, <2>1
  <2> HIDE DEF a, b, k, s, span
  <2>3. (k * U + a) * s - k * (s * U + (a - b)) = a * (s - k) + k * b
    BY <1>1, <2>1, <2>2
  <2>4. Abs(a * (s - k) + k * b) <= q * s
    <3>1. q \in Int /\ s \in Nat
      BY <1>1
    <3> QED BY <2>1, <2>2, <3>1, MeanIsBetween
  <2> QED BY <2>3, <2>4, <2>5 DEF k
<1>10. ASSUME NEW i \in 1 .. n, i > 1
       PROVE  t[i] - t[i - 1] > 0 /\ Abs((t[i] - t[i - 1]) * s - span) <= 2 * q * s
  <2> DEFINE a == e[i] - e[i - 1]
             b == e[n] - e[1]
  <2>1. i - 1 \in 1 .. n
    BY <1>10
  <2>2. a \in Int /\ b \in Int /\ Abs(a) <= q /\ Abs(b) <= q /\ -a <= q
    <3>1. /\ e[i] - e[i - 1] <= q /\ e[i - 1] - e[i] <= q /\ e[n] - e[1] <= q
          /\ e[1] - e[n] <= q /\ e[i] \in Int /\ e[i - 1] \in Int /\ e[1] \in Int
          /\ e[n] \in Int /\ q \in Int
      BY <1>1, <1>3, <2>1
    <3> QED BY <3>1, AbsWithin
  <2>3. t[i] - t[i - 1] = U + a /\ span = s * U + b
    <3> DEFINE A == (i - 1) * U
               B == (i - 1 - 1) * U
               x == t[i]
               x0 == t[i - 1]
               u == truth[i]
               u0 == truth[i - 1]
               u1 == truth[1]
    <3>1. A - B = U /\ A \in Int /\ B \in Int
      OBVIOUS
    <3>2. /\ u - u1 = A /\ u0 - u1 = B /\ x \in Int /\ x0 \in Int
          /\ u \in Int /\ u0 \in Int /\ u1 \in Int
      BY <1>1, <2>1
    <3>3. a = (x - u) - (x0 - u0)
      BY <1>1, <2>1
    <3> HIDE DEF A, B, x, x0, u, u0, u1
    <3>4. u - u0 = A - B
      BY <3>1, <3>2, Between
    <3>5. x - x0 = U + ((x - u) - (x0 - u0))
      BY <3>1, <3>2, <3>4, Offsets
    <3> QED BY <1>5, <3>3, <3>5 DEF x, x0
  <2>4. U + a > 0
    <3> HIDE DEF a
    <3> QED BY <2>2
  <2> HIDE DEF a, b, e, s, span
  <2>5. (U + a) * s - (s * U + b) = a * s - b
    BY <1>1, <2>2
  <2>6. Abs(a * s - b) <= 2 * q * s
    <3>1. a * s <= q * s /\ -(a * s) <= q * s /\ a * s \in Int /\ q * s \in Int
      <4>1. a <= q /\ -a <= q /\ -a \in Int /\ (-a) * s = -(a * s)
        BY <1>1, <2>2 DEF Abs
      <4>2. \A x \in Int : x <= q => x * s <= q * s
        BY <1>1
      <4>3. a * s <= q * s /\ (-a) * s <= q * s
        BY <2>2, <4>1, <4>2
      <4>4. a * s \in Int /\ q * s \in Int
        BY <1>1, <2>2
      <4> QED BY <4>1, <4>3, <4>4
    <3>2. q * s = s * q /\ 2 * q * s = q * s + q * s
      BY <1>1
    <3>3. b <= q * s /\ -b <= q * s
      BY <1>6, <2>2, <3>1, <3>2 DEF Abs
    <3> DEFINE x == a * s
               y == q * s
    <3>4. x \in Int /\ y \in Int /\ x <= y /\ -x <= y /\ b <= y /\ -b <= y
      BY <3>1, <3>3
    <3> HIDE DEF x, y
    <3>5. Abs(x - b) <= y + y
      BY <2>2, <3>4 DEF Abs
    <3> QED BY <3>2, <3>5 DEF x, y
  <2> QED BY <2>3, <2>4, <2>5, <2>6
<1>11. IsRounded(t, q)
  BY <1>9, <1>10 DEF IsRounded
<1> QED BY <1>4, <1>7, <1>8, <1>11

\* A uniform run that declares how it was printed is accepted.
LEMMA SoundIsAccepted ==
    ASSUME NEW source \in Sources, NEW q, IsUniform(source),
           \A i \in 1 .. Len(source.tokens) : source.tokens[i].time # NotFinite,
           Rounding(source) = {q}, Declares(source, q), 100 * q <= UniformStep(source)
    PROVE  AssessTimeAxis(Times(source), DeclaredQuantum(source)).valid
<1> DEFINE n == Len(source.tokens)
           t == Times(source)
           truth == source.truth
           U == UniformStep(source)
<1>1. AllFinite(t) /\ Len(t) = n /\ n \in Nat
  BY TimesType DEF AllFinite
<1>2. n >= 2 /\ U \in Int /\ \A i \in 1 .. n : truth[i] - truth[1] = (i - 1) * U
  BY <1>1, UniformTruth
<1>3. \A i \in 1 .. n : t[i] \in Int /\ truth[i] \in Int
  BY <1>1, PrintedTimes
<1>4. \A i \in 1 .. n : TokenQuantum(source.tokens[i]) = q
  BY DEF Rounding
<1>5. q \in Nat \ {0}
  <2>1. 1 \in 1 .. n
    BY <1>1, <1>2
  <2> QED BY <1>1, <1>4, <2>1, PrintedTimes
<1>6. \A i, j \in 1 .. n : Abs((t[i] - truth[i]) - (t[j] - truth[j])) <= q
  BY <1>1, <1>4, PrintedTimes
<1>7. DeclaredQuantum(source) = q
  BY <1>5, DeclaredIsRead
<1> HIDE DEF n, t, truth, U
<1>8. /\ t[2] - t[1] > 0 /\ t[n] - t[1] > 0
      /\ FineEnough(q, t[n] - t[1], n - 1) /\ IsRounded(t, q)
  <2>1. 100 * q <= U
    BY DEF U
  <2> QED BY <1>1, <1>2, <1>3, <1>5, <1>6, <2>1, UniformIsRounded
<1>9. AssessTimeAxis(t, q).valid
  <2> DEFINE first == t[2] - t[1]
             exact == \A i \in 3 .. Len(t) : t[i] = t[1] + (i - 1) * first
  <2>1. ~ \E i \in 1 .. Len(t) : t[i] = NotFinite
    BY <1>1 DEF AllFinite
  <2>2. first > 0 /\ first \in Int /\ ~(first <= 0) /\ ~(n - 1 < 1) /\ q > 0
    <3>1. 1 \in 1 .. n /\ 2 \in 1 .. n
      BY <1>1, <1>2
    <3> QED BY <1>1, <1>2, <1>3, <1>5, <1>8, <3>1
  <2> HIDE DEF first
  <2>3. AssessTimeAxis(t, q) = IF exact THEN Valid(FALSE, first * (n - 1))
                               ELSE Valid(TRUE, t[n] - t[1])
    BY <1>1, <1>8, <2>1, <2>2 DEF AssessTimeAxis, first
  <2> QED BY <2>3 DEF Valid
<1> QED BY <1>7, <1>9 DEF t

\* Frames at equal distances, of a content that stayed as it was loaded, have a
\* step.
LEMMA EvenFramesHaveAStep ==
    ASSUME IInv, picked # <<>>,
           \A i \in 1 .. Len(picked) :
               {picked[i].read, picked[i].loaded} = {picked[1].read},
           NEW stride \in Nat \ {0},
           \A i \in 2 .. Len(picked) :
               picked[i].frame.frameIndex - picked[i - 1].frame.frameIndex = stride
    PROVE  TimeStep # None
<1>1. 1 \in 1 .. Len(picked)
  BY PickedTypes
<1>2. \A i \in 1 .. Len(picked) : /\ picked[i].read = picked[1].read
                                  /\ picked[i].loaded = picked[i].read
  OBVIOUS
<1>3. /\ PickedTimes # <<>> /\ Len(PickedTimes) = Len(PickedFrames)
      /\ Len(PickedTimes) = Len(picked) /\ PickedFrames[1] = picked[1].frame
      /\ Len(picked) \in Nat
  BY <1>1, PickedTypes
<1>4. /\ PickedFrames[1].quantum > 0 /\ PickedFrames[1].span > 0
      /\ PickedFrames[1].frameCount >= 3
      /\ FineEnough(PickedFrames[1].quantum, PickedFrames[1].span,
                    PickedFrames[1].frameCount - 1)
  BY <1>1, <1>3 DEF IInv, PickSound, IsWorth
<1>5. ASSUME NEW i \in 1 .. Len(PickedTimes)
      PROVE  SameAxis(PickedFrames[i], PickedFrames[1]) /\ OnTheAxis(PickedTimes[i], PickedFrames[i])
  <2>1. PickSound(picked[i]) /\ PairSound(picked[i], picked[1])
    BY <1>1, <1>3 DEF IInv
  <2>2. SameAxis(picked[i].frame, picked[1].frame) /\ OnTheAxis(picked[i].time, picked[i].frame)
    BY <1>1, <1>2, <1>3, <2>1 DEF PickSound, PairSound
  <2> QED BY <1>3, <2>2, PickedTypes
<1>6. Evenly(PickedTimes, PickedFrames)
  <2>1. SUFFICES ASSUME NEW i \in 2 .. Len(picked)
                 PROVE  /\ PickedFrames[i].frameIndex - PickedFrames[i - 1].frameIndex
                             = Stride(PickedFrames)
                        /\ PickedTimes[i] > PickedTimes[i - 1]
    BY <1>3, PickedTypes DEF Evenly
  <2>2. i \in 1 .. Len(picked) /\ i - 1 \in 1 .. Len(picked)
        /\ 2 \in 2 .. Len(picked) /\ 2 \in 1 .. Len(picked) /\ Len(picked) > 1
    BY <1>3
  <2>3. Stride(PickedFrames) = stride
    <3>1. PickedFrames[2].frameIndex - PickedFrames[1].frameIndex = stride
      BY <1>1, <1>3, <2>2, PickedTypes
    <3>2. PickedFrames[2].frameIndex \in Nat /\ PickedFrames[1].frameIndex \in Nat
      BY <1>1, <2>2, PickedTypes
    <3>3. PickedFrames[2].frameIndex > PickedFrames[1].frameIndex
      BY <3>1, <3>2
    <3> QED BY <1>3, <2>2, <3>1, <3>3 DEF Stride
  <2>4. picked[i].frame.frameIndex - picked[i - 1].frame.frameIndex = stride
    OBVIOUS
  <2>5. picked[i - 1].frame.frameIndex < picked[i].frame.frameIndex
    BY <2>2, <2>4, PickedTypes
  <2>6. PairSound(picked[i - 1], picked[i])
    BY <2>2 DEF IInv
  <2>7. picked[i - 1].time < picked[i].time
    BY <1>2, <2>2, <2>5, <2>6 DEF PairSound
  <2>8. picked[i].time \in Int /\ picked[i - 1].time \in Int
    <3>1. /\ picked[i].time # NotFinite /\ picked[i - 1].time # NotFinite
      BY <1>3, <1>5, <2>2, PickedTypes DEF OnTheAxis
    <3> QED BY <2>2, <3>1, PickedTypes DEF Numbers
  <2> QED BY <2>2, <2>3, <2>4, <2>7, <2>8, PickedTypes
<1>7. TimeStep = SelectedSpan(PickedTimes, PickedFrames)
  BY <1>3, <1>4, <1>5, <1>6 DEF TimeStep, ValidatedTimeStep
<1>8. SelectedSpan(PickedTimes, PickedFrames) \in Int
  <2>1. PickedFrames[1].span \in Int
    BY <1>1, <1>3, PickedTypes
  <2>2. Stride(PickedFrames) \in Int
    <3>1. CASE Len(picked) > 1
      <4>1. 2 \in 1 .. Len(picked)
        BY <1>3, <3>1
      <4>2. PickedFrames[2].frameIndex \in Nat /\ PickedFrames[1].frameIndex \in Nat
        BY <1>1, <4>1, PickedTypes
      <4> QED BY <4>2 DEF Stride
    <3>2. CASE ~(Len(picked) > 1)
      BY <1>3, <3>2 DEF Stride
    <3> QED BY <3>1, <3>2
  <2> QED BY <2>1, <2>2 DEF SelectedSpan
<1> QED BY <1>7, <1>8, PolicyAssumption

\* In any run, whatever way the solver rounds, nothing sound is refused.
THEOREM RefusalCorrect == Spec => []NothingSoundIsRefused
<1>1. ASSUME IInv PROVE NothingSoundIsRefused
  <2>1. ASSUME IsUniform(file),
               \A i \in 1 .. Len(file.tokens) :
                   file.tokens[i].decimal /\ file.tokens[i].time # NotFinite,
               NEW q \in Rounding(file), Rounding(file) = {q}, Declares(file, q),
               100 * q <= UniformStep(file)
        PROVE  AssessTimeAxis(Times(file), DeclaredQuantum(file)).valid
    <3>1. file \in Sources
      BY <1>1 DEF IInv, TypeSound
    <3> QED BY <2>1, <3>1, SoundIsAccepted
  <2>2. ASSUME picked # <<>>,
               \A i \in 1 .. Len(picked) :
                   {picked[i].read, picked[i].loaded} = {picked[1].read},
               NEW stride \in 1 .. Len(file.tokens),
               \A i \in 2 .. Len(picked) :
                   picked[i].frame.frameIndex - picked[i - 1].frame.frameIndex = stride
        PROVE  TimeStep # None
    <3>1. stride \in Nat \ {0}
      BY <1>1, TimesType DEF IInv, TypeSound
    <3> QED BY <1>1, <2>2, <3>1, EvenFramesHaveAStep
  <2> QED BY <2>1, <2>2 DEF NothingSoundIsRefused
<1> QED BY <1>1, Invariance, PTL

-----------------------------------------------------------------------------
(* The catalog.                                                            *)
(* The inductive invariant: what has been validated holds of every element  *)
(* before the one that is looked at, and goes on holding.                   *)

Phases == {"fill", "head", "axes", "quantities", "variants", "write", "done", "refused"}

AxisGood(i) ==
    /\ ValidValues(catalog.axes[i])
    /\ \A j \in 1 .. i - 1 : catalog.axes[j].id # catalog.axes[i].id

QuantityGood(i) ==
    \A j \in 1 .. i - 1 : catalog.quantities[j].id # catalog.quantities[i].id

VariantGood(i) ==
    LET variant == catalog.variants[i]
    IN  /\ variant.step >= -1
        /\ ValidSelectors(variant.selectors)
        /\ \A j \in 1 .. i - 1 : catalog.variants[j].selectors # variant.selectors
        /\ ValidMappings(variant.quantities)
        /\ variant.path.file \notin touched => disk[variant.path.file] = "inside"

Written ==
    [family |-> catalog.family, variant |-> catalog.variant,
     axes |-> catalog.axes, quantities |-> catalog.quantities,
     variants |-> [i \in 1 .. Len(catalog.variants) |->
                      WriteVariant(catalog.variants[i])]]

\* The elements of a list that were validated are good, and go on being so while
\* the later lists are validated against them.
CatalogInv ==
    /\ IsCatalog(catalog)
    /\ disk \in [Files -> Wheres]
    /\ pc \in Phases /\ at \in Nat
    /\ pc \in {"fill", "head"} => at = 1
    /\ \A i \in 1 .. Len(catalog.axes) :
          pc \in {"quantities", "variants", "write", "done"} \/ (pc = "axes" /\ i < at)
             => AxisGood(i)
    /\ \A i \in 1 .. Len(catalog.quantities) :
          pc \in {"variants", "write", "done"} \/ (pc = "quantities" /\ i < at)
             => QuantityGood(i)
    /\ \A i \in 1 .. Len(catalog.variants) :
          pc \in {"write", "done"} \/ (pc = "variants" /\ i < at)
             => VariantGood(i)
    /\ document = IF pc = "done" THEN Written ELSE Missing

-----------------------------------------------------------------------------
(* The steps                                                                *)

\* A call of the loop over a list, without the parameters.
LEMMA LoopStep ==
    ASSUME CatalogInv
    PROVE  /\ ValidateAxis =>
                  /\ pc = "axes" /\ UNCHANGED <<disk, touched, changes, catalog, document>>
                  /\ \/ at > Len(catalog.axes) /\ pc' = "quantities" /\ at' = 1
                     \/ ValidAxis(catalog.axes[at]) /\ at' = at + 1 /\ pc' = pc
                     \/ pc' = "refused" /\ at' = at
           /\ ValidateQuantity =>
                  /\ pc = "quantities" /\ UNCHANGED <<disk, touched, changes, catalog, document>>
                  /\ \/ at > Len(catalog.quantities) /\ pc' = "variants" /\ at' = 1
                     \/ ValidQuantity(catalog.quantities[at]) /\ at' = at + 1 /\ pc' = pc
                     \/ pc' = "refused" /\ at' = at
           /\ ValidateVariant =>
                  /\ pc = "variants" /\ UNCHANGED <<disk, touched, changes, catalog, document>>
                  /\ \/ at > Len(catalog.variants) /\ pc' = "write" /\ at' = 1
                     \/ ValidVariant(catalog.variants[at]) /\ at' = at + 1 /\ pc' = pc
                     \/ pc' = "refused" /\ at' = at
<1>1. ValidateAxis =>
          /\ pc = "axes" /\ UNCHANGED <<disk, touched, changes, catalog, document>>
          /\ \/ at > Len(catalog.axes) /\ pc' = "quantities" /\ at' = 1
             \/ ValidAxis(catalog.axes[at]) /\ at' = at + 1 /\ pc' = pc
             \/ pc' = "refused" /\ at' = at
  BY DEF ValidateAxis, Loop, Throw
<1>2. ValidateQuantity =>
          /\ pc = "quantities" /\ UNCHANGED <<disk, touched, changes, catalog, document>>
          /\ \/ at > Len(catalog.quantities) /\ pc' = "variants" /\ at' = 1
             \/ ValidQuantity(catalog.quantities[at]) /\ at' = at + 1 /\ pc' = pc
             \/ pc' = "refused" /\ at' = at
  BY DEF ValidateQuantity, Loop, Throw
<1>3. ValidateVariant =>
          /\ pc = "variants" /\ UNCHANGED <<disk, touched, changes, catalog, document>>
          /\ \/ at > Len(catalog.variants) /\ pc' = "write" /\ at' = 1
             \/ ValidVariant(catalog.variants[at]) /\ at' = at + 1 /\ pc' = pc
             \/ pc' = "refused" /\ at' = at
  BY DEF ValidateVariant, Loop, Throw
<1> QED BY <1>1, <1>2, <1>3

\* What is good about an element depends on the catalog, and that of a variant on
\* the files that nobody has touched.
LEMMA GoodStays ==
    ASSUME catalog' = catalog, disk' = disk, touched' = touched
    PROVE  /\ \A i : AxisGood(i)' <=> AxisGood(i)
           /\ \A i : QuantityGood(i)' <=> QuantityGood(i)
           /\ \A i : VariantGood(i)' <=> VariantGood(i)
BY DEF AxisGood, QuantityGood, VariantGood, ValidValues, ValidSelectors,
       ValidMappings

\* Nothing is validated yet.
LEMMA CatalogInitSound ==
    ASSUME CatalogInit
    PROVE  CatalogInv
<1>1. IsCatalog(catalog)
  BY CatalogAssumption DEF CatalogAssumption, CatalogInit
<1>2. disk \in [Files -> Wheres] /\ pc = "fill" /\ at = 1 /\ document = Missing
  BY DEF CatalogInit
<1> QED BY <1>1, <1>2 DEF CatalogInv, Phases

\* What a solver left empty is filled in before anything is validated.
LEMMA FillKeeps ==
    ASSUME CatalogInv, Fill
    PROVE  CatalogInv'
<1>1. /\ pc = "fill" /\ pc' = "head" /\ disk' = disk /\ touched' = touched
      /\ at' = at /\ document' = document
  BY DEF Fill
<1>2. /\ DOMAIN catalog' = DOMAIN catalog
      /\ catalog'.axes = catalog.axes /\ catalog'.quantities = catalog.quantities
      /\ catalog'.variants = catalog.variants
  BY DEF Fill, CatalogInv, IsCatalog
<1>3. IsCatalog(catalog)'
  BY <1>2 DEF CatalogInv, IsCatalog
<1>4. (disk \in [Files -> Wheres])' /\ pc' \in Phases /\ at' \in Nat
  BY <1>1 DEF CatalogInv, Phases, Wheres
<1>5. document' = IF pc' = "done" THEN Written' ELSE Missing
  BY <1>1 DEF CatalogInv
<1> QED BY <1>1, <1>3, <1>4, <1>5 DEF CatalogInv

\* The head says nothing of the lists.
LEMMA HeadKeeps ==
    ASSUME CatalogInv, ValidateHead
    PROVE  CatalogInv'
<1>1. /\ pc = "head" /\ pc' \in {"axes", "refused"} /\ at' = at
      /\ disk' = disk /\ touched' = touched /\ catalog' = catalog /\ document' = document
  BY DEF ValidateHead, Throw
<1>2. /\ IsCatalog(catalog)' /\ (disk \in [Files -> Wheres])'
      /\ pc' \in Phases /\ at' \in Nat /\ at' = 1
  BY <1>1 DEF CatalogInv, Phases
<1>3. document' = IF pc' = "done" THEN Written' ELSE Missing
  BY <1>1 DEF CatalogInv
<1> QED BY <1>1, <1>2, <1>3 DEF CatalogInv

\* A list that has been walked to its end is valid, and the next is begun.
LEMMA AxesKeep ==
    ASSUME CatalogInv, ValidateAxis
    PROVE  CatalogInv'
<1>1. /\ pc = "axes" /\ disk' = disk /\ touched' = touched /\ catalog' = catalog
      /\ document' = document /\ document = Missing
      /\ \/ at > Len(catalog.axes) /\ pc' = "quantities" /\ at' = 1
         \/ ValidAxis(catalog.axes[at]) /\ at' = at + 1 /\ pc' = pc
         \/ pc' = "refused" /\ at' = at
  BY LoopStep DEF CatalogInv
<1>2. \A i : AxisGood(i)' <=> AxisGood(i)
  BY <1>1, GoodStays
<1>3. at \in Nat /\ IsCatalog(catalog)
      /\ \A i \in 1 .. Len(catalog.axes) : i < at => AxisGood(i)
  BY <1>1 DEF CatalogInv
<1>4. ValidAxis(catalog.axes[at]) => AxisGood(at)
  BY DEF ValidAxis, Before, AxisGood
<1>5. \A i \in 1 .. Len(catalog'.axes) :
          pc' \in {"quantities", "variants", "write", "done"} \/ (pc' = "axes" /\ i < at')
             => AxisGood(i)'
  <2>1. TAKE i \in 1 .. Len(catalog'.axes)
  <2>2. i \in 1 .. Len(catalog.axes) /\ i \in Int /\ Len(catalog.axes) \in Nat
    BY <1>1, <1>3 DEF IsCatalog, IsList
  <2>3. CASE at > Len(catalog.axes) /\ pc' = "quantities" /\ at' = 1
    BY <1>2, <1>3, <2>2, <2>3
  <2>4. CASE ValidAxis(catalog.axes[at]) /\ at' = at + 1 /\ pc' = pc
    <3>1. SUFFICES ASSUME i < at + 1 PROVE AxisGood(i)
      BY <1>1, <1>2, <2>4
    <3>2. i < at \/ i = at
      BY <1>3, <2>2, <3>1
    <3> QED BY <1>3, <1>4, <2>2, <2>4, <3>2
  <2>5. CASE pc' = "refused"
    BY <2>5
  <2> QED BY <1>1, <2>3, <2>4, <2>5
<1>6. /\ IsCatalog(catalog)' /\ (disk \in [Files -> Wheres])'
      /\ pc' \in {"axes", "quantities", "refused"} /\ at' \in Nat
      /\ pc' = "quantities" => at' = 1
  BY <1>1, <1>3 DEF CatalogInv
<1>7. document' = IF pc' = "done" THEN Written' ELSE Missing
  BY <1>1, <1>6
<1> QED BY <1>5, <1>6, <1>7 DEF CatalogInv, Phases

\* A quantity that is accepted has an id that none before it has.
LEMMA QuantitiesKeep ==
    ASSUME CatalogInv, ValidateQuantity
    PROVE  CatalogInv'
<1>1. /\ pc = "quantities" /\ disk' = disk /\ touched' = touched /\ catalog' = catalog
      /\ document' = document /\ document = Missing
      /\ \/ at > Len(catalog.quantities) /\ pc' = "variants" /\ at' = 1
         \/ ValidQuantity(catalog.quantities[at]) /\ at' = at + 1 /\ pc' = pc
         \/ pc' = "refused" /\ at' = at
  BY LoopStep DEF CatalogInv
<1>2. /\ \A i : AxisGood(i)' <=> AxisGood(i)
      /\ \A i : QuantityGood(i)' <=> QuantityGood(i)
  BY <1>1, GoodStays
<1>3. /\ at \in Nat /\ IsCatalog(catalog)
      /\ \A i \in 1 .. Len(catalog.axes) : AxisGood(i)
      /\ \A i \in 1 .. Len(catalog.quantities) : i < at => QuantityGood(i)
  BY <1>1 DEF CatalogInv
<1>4. ValidQuantity(catalog.quantities[at]) => QuantityGood(at)
  BY DEF ValidQuantity, Before, QuantityGood
<1>5. \A i \in 1 .. Len(catalog'.quantities) :
          pc' \in {"variants", "write", "done"} \/ (pc' = "quantities" /\ i < at')
             => QuantityGood(i)'
  <2>1. TAKE i \in 1 .. Len(catalog'.quantities)
  <2>2. i \in 1 .. Len(catalog.quantities) /\ i \in Int /\ Len(catalog.quantities) \in Nat
    BY <1>1, <1>3 DEF IsCatalog, IsList
  <2>3. CASE at > Len(catalog.quantities) /\ pc' = "variants" /\ at' = 1
    BY <1>2, <1>3, <2>2, <2>3
  <2>4. CASE ValidQuantity(catalog.quantities[at]) /\ at' = at + 1 /\ pc' = pc
    <3>1. SUFFICES ASSUME i < at + 1 PROVE QuantityGood(i)
      BY <1>1, <1>2, <2>4
    <3>2. i < at \/ i = at
      BY <1>3, <2>2, <3>1
    <3> QED BY <1>3, <1>4, <2>2, <2>4, <3>2
  <2>5. CASE pc' = "refused"
    BY <2>5
  <2> QED BY <1>1, <2>3, <2>4, <2>5
<1>6. /\ IsCatalog(catalog)' /\ (disk \in [Files -> Wheres])'
      /\ pc' \in {"quantities", "variants", "refused"} /\ at' \in Nat
      /\ pc' = "variants" => at' = 1
  BY <1>1, <1>3 DEF CatalogInv
<1>7. document' = IF pc' = "done" THEN Written' ELSE Missing
  BY <1>1, <1>6
<1>8. \A i \in 1 .. Len(catalog'.axes) : AxisGood(i)'
  BY <1>1, <1>2, <1>3
<1> QED BY <1>5, <1>6, <1>7, <1>8 DEF CatalogInv, Phases

\* A variant that is accepted is good as the disk is now, and stays so while nobody
\* touches its file.
LEMMA VariantsKeep ==
    ASSUME CatalogInv, ValidateVariant
    PROVE  CatalogInv'
<1>1. /\ pc = "variants" /\ disk' = disk /\ touched' = touched /\ catalog' = catalog
      /\ document' = document /\ document = Missing
      /\ \/ at > Len(catalog.variants) /\ pc' = "write" /\ at' = 1
         \/ ValidVariant(catalog.variants[at]) /\ at' = at + 1 /\ pc' = pc
         \/ pc' = "refused" /\ at' = at
  BY LoopStep DEF CatalogInv
<1>2. /\ \A i : AxisGood(i)' <=> AxisGood(i)
      /\ \A i : QuantityGood(i)' <=> QuantityGood(i)
      /\ \A i : VariantGood(i)' <=> VariantGood(i)
  BY <1>1, GoodStays
<1>3. /\ at \in Nat /\ IsCatalog(catalog)
      /\ \A i \in 1 .. Len(catalog.axes) : AxisGood(i)
      /\ \A i \in 1 .. Len(catalog.quantities) : QuantityGood(i)
      /\ \A i \in 1 .. Len(catalog.variants) : i < at => VariantGood(i)
  BY <1>1 DEF CatalogInv
<1>4. ValidVariant(catalog.variants[at]) => VariantGood(at)
  BY DEF ValidVariant, ValidPath, Before, VariantGood
<1>5. \A i \in 1 .. Len(catalog'.variants) :
          pc' \in {"write", "done"} \/ (pc' = "variants" /\ i < at')
             => VariantGood(i)'
  <2>1. TAKE i \in 1 .. Len(catalog'.variants)
  <2>2. i \in 1 .. Len(catalog.variants) /\ i \in Int /\ Len(catalog.variants) \in Nat
    BY <1>1, <1>3 DEF IsCatalog, IsList
  <2>3. CASE at > Len(catalog.variants) /\ pc' = "write" /\ at' = 1
    BY <1>2, <1>3, <2>2, <2>3
  <2>4. CASE ValidVariant(catalog.variants[at]) /\ at' = at + 1 /\ pc' = pc
    <3>1. SUFFICES ASSUME i < at + 1 PROVE VariantGood(i)
      BY <1>1, <1>2, <2>4
    <3>2. i < at \/ i = at
      BY <1>3, <2>2, <3>1
    <3> QED BY <1>3, <1>4, <2>2, <2>4, <3>2
  <2>5. CASE pc' = "refused"
    BY <2>5
  <2> QED BY <1>1, <2>3, <2>4, <2>5
<1>6. /\ IsCatalog(catalog)' /\ (disk \in [Files -> Wheres])'
      /\ pc' \in {"variants", "write", "refused"} /\ at' \in Nat
  BY <1>1, <1>3 DEF CatalogInv
<1>7. document' = IF pc' = "done" THEN Written' ELSE Missing
  BY <1>1, <1>6
<1>8. /\ \A i \in 1 .. Len(catalog'.axes) : AxisGood(i)'
      /\ \A i \in 1 .. Len(catalog'.quantities) : QuantityGood(i)'
  BY <1>1, <1>2, <1>3
<1> QED BY <1>5, <1>6, <1>7, <1>8 DEF CatalogInv, Phases

\* What is written is the catalog that was validated, and nothing else.
LEMMA WriteCatalogKeeps ==
    ASSUME CatalogInv, WriteVisualizationCatalog
    PROVE  CatalogInv'
<1>1. /\ pc = "write" /\ pc' = "done" /\ disk' = disk /\ touched' = touched
      /\ catalog' = catalog /\ at' = at /\ document' = Written
  BY DEF WriteVisualizationCatalog, Written
<1>2. /\ \A i : AxisGood(i)' <=> AxisGood(i)
      /\ \A i : QuantityGood(i)' <=> QuantityGood(i)
      /\ \A i : VariantGood(i)' <=> VariantGood(i)
  BY <1>1, GoodStays
<1>3. /\ \A i \in 1 .. Len(catalog'.axes) : AxisGood(i)'
      /\ \A i \in 1 .. Len(catalog'.quantities) : QuantityGood(i)'
      /\ \A i \in 1 .. Len(catalog'.variants) : VariantGood(i)'
  BY <1>1, <1>2 DEF CatalogInv
<1>4. /\ IsCatalog(catalog)' /\ (disk \in [Files -> Wheres])' /\ at' \in Nat
  BY <1>1 DEF CatalogInv
<1>5. Written' = Written
  BY <1>1 DEF Written, WriteVariant
<1> QED BY <1>1, <1>3, <1>4, <1>5 DEF CatalogInv, Phases

\* A file that changes is touched, so nothing is claimed of it any more.
LEMMA ChangeKeeps ==
    ASSUME CatalogInv, NEW f \in Files, NEW where \in Wheres,
           Change(f, where)
    PROVE  CatalogInv'
<1>1. /\ pc # "done" /\ disk' = [disk EXCEPT ![f] = where] /\ touched' = touched \cup {f}
      /\ catalog' = catalog /\ pc' = pc /\ at' = at /\ document' = document
  BY DEF Change
<1>2. /\ \A i : AxisGood(i)' <=> AxisGood(i)
      /\ \A i : QuantityGood(i)' <=> QuantityGood(i)
  BY <1>1 DEF AxisGood, QuantityGood, ValidValues
<1>3. ASSUME NEW i \in 1 .. Len(catalog.variants), VariantGood(i) PROVE VariantGood(i)'
  <2> DEFINE variant == catalog.variants[i]
             g == variant.path.file
  <2>1. g \in Files /\ disk \in [Files -> Wheres]
    BY DEF CatalogInv, IsCatalog
  <2>2. g \notin touched' => disk'[g] = "inside"
    <3>1. SUFFICES ASSUME g \notin touched' PROVE disk'[g] = "inside"
      OBVIOUS
    <3>2. g \notin touched /\ g # f
      BY <1>1, <3>1
    <3>3. disk[g] = "inside"
      BY <1>3, <3>2 DEF VariantGood
    <3> QED BY <1>1, <2>1, <3>2, <3>3
  <2>3. /\ variant.step >= -1 /\ ValidSelectors(variant.selectors)
        /\ \A j \in 1 .. i - 1 : catalog.variants[j].selectors # variant.selectors
        /\ ValidMappings(variant.quantities)
    BY <1>3 DEF VariantGood
  <2> HIDE DEF g
  <2>4. /\ ValidSelectors(variant.selectors)'
        /\ ValidMappings(variant.quantities)'
    <3>1. catalog' = catalog
      BY <1>1
    <3>2. ValidSelectors(variant.selectors)'
      BY <2>3, <3>1 DEF ValidSelectors
    <3>3. ValidMappings(variant.quantities)'
      BY <2>3, <3>1 DEF ValidMappings
    <3> QED BY <3>2, <3>3
  <2> QED BY <1>1, <2>2, <2>3, <2>4 DEF VariantGood, g
<1>4. (disk \in [Files -> Wheres])'
  BY <1>1 DEF CatalogInv
<1>5. document' = IF pc' = "done" THEN Written' ELSE Missing
  BY <1>1 DEF CatalogInv
<1>6. /\ \A i \in 1 .. Len(catalog'.axes) :
            pc' \in {"quantities", "variants", "write", "done"} \/ (pc' = "axes" /\ i < at')
               => AxisGood(i)'
      /\ \A i \in 1 .. Len(catalog'.quantities) :
            pc' \in {"variants", "write", "done"} \/ (pc' = "quantities" /\ i < at')
               => QuantityGood(i)'
  BY <1>1, <1>2 DEF CatalogInv
<1>7. \A i \in 1 .. Len(catalog'.variants) :
          pc' \in {"write", "done"} \/ (pc' = "variants" /\ i < at') => VariantGood(i)'
  BY <1>1, <1>3 DEF CatalogInv
<1>8. /\ IsCatalog(catalog)' /\ pc' \in Phases /\ at' \in Nat
      /\ pc' \in {"fill", "head"} => at' = 1
  BY <1>1 DEF CatalogInv
<1> QED BY <1>4, <1>5, <1>6, <1>7, <1>8 DEF CatalogInv

\* In every call, whatever is handed over and whatever changes meanwhile.
LEMMA CatalogInvariance == CatalogSpec => []CatalogInv
<1>1. CatalogInit => CatalogInv
  BY CatalogInitSound
<1>2. CatalogInv /\ [CatalogNext]_catalogVars => CatalogInv'
  <2>1. SUFFICES ASSUME CatalogInv, [CatalogNext]_catalogVars PROVE CatalogInv'
    OBVIOUS
  <2>2. CASE UNCHANGED catalogVars
    <3>1. /\ disk' = disk /\ touched' = touched /\ catalog' = catalog /\ pc' = pc
          /\ at' = at /\ document' = document
      BY <2>2 DEF catalogVars
    <3>2. /\ \A i : AxisGood(i)' <=> AxisGood(i)
          /\ \A i : QuantityGood(i)' <=> QuantityGood(i)
          /\ \A i : VariantGood(i)' <=> VariantGood(i)
      BY <3>1, GoodStays
    <3>3. Written' = Written
      BY <3>1 DEF Written, WriteVariant
    <3> QED BY <2>1, <3>1, <3>2, <3>3 DEF CatalogInv
  <2>3. CASE CatalogNext
    BY <2>1, <2>3, FillKeeps, HeadKeeps, AxesKeep, QuantitiesKeep, VariantsKeep,
       WriteCatalogKeeps, ChangeKeeps DEF CatalogNext
  <2> QED BY <2>1, <2>2, <2>3
<1> QED BY <1>1, <1>2, PTL DEF CatalogSpec

-----------------------------------------------------------------------------
(* What is published means one thing                                        *)

\* Of places of which no later one is like an earlier one, no two are alike.
LEMMA PlacesDiffer ==
    ASSUME NEW n \in Nat, NEW f, \A i \in 1 .. n : \A j \in 1 .. i - 1 : f[j] # f[i]
    PROVE  \A i, j \in 1 .. n : f[i] = f[j] => i = j
<1>1. SUFFICES ASSUME NEW i \in 1 .. n, NEW j \in 1 .. n, f[i] = f[j], i # j PROVE FALSE
  OBVIOUS
<1>2. CASE i < j
  <2>1. i \in 1 .. j - 1
    BY <1>2
  <2> QED BY <1>1, <2>1
<1>3. CASE ~(i < j)
  <2>1. j \in 1 .. i - 1
    BY <1>1, <1>3
  <2> QED BY <1>1, <2>1
<1> QED BY <1>2, <1>3

\* A declared value is meant by its axis and its key alone.
LEMMA OneMeaning ==
    ASSUME CatalogInv, pc = "done", document = Written,
           NEW i \in 1 .. Len(catalog.axes), NEW j \in 1 .. Len(catalog.axes[i].values)
    PROVE  Meanings(catalog.axes[i].id, catalog.axes[i].values[j].key) = {<<i, j>>}
<1> DEFINE axes == catalog.axes
           n == Len(axes)
           values == axes[i].values
           ids == [k \in 1 .. n |-> axes[k].id]
           keys == [l \in 1 .. Len(values) |-> values[l].key]
<1>1. n \in Nat /\ Len(values) \in Nat
  BY DEF CatalogInv, IsCatalog, IsList
<1>2. \A k \in 1 .. n : AxisGood(k)
  BY DEF CatalogInv
<1>3. \A k, l \in 1 .. n : ids[k] = ids[l] => k = l
  <2>1. \A k \in 1 .. n : \A l \in 1 .. k - 1 : ids[l] # ids[k]
    BY <1>1, <1>2 DEF AxisGood
  <2> HIDE DEF ids, n
  <2> QED BY <1>1, <2>1, PlacesDiffer
<1>4. \A k, l \in 1 .. Len(values) : keys[k] = keys[l] => k = l
  <2>1. \A k \in 1 .. Len(values) : \A l \in 1 .. k - 1 : keys[l] # keys[k]
    <3>1. ValidValues(axes[i])
      BY <1>2 DEF AxisGood
    <3>2. \A k \in 1 .. Len(values) : \A l \in 1 .. k - 1 : values[l].key # values[k].key
      BY <3>1 DEF ValidValues
    <3>3. \A k \in 1 .. Len(values) : \A l \in 1 .. k - 1 : l \in 1 .. Len(values)
      <4> HIDE DEF values
      <4> QED BY <1>1
    <3> QED BY <3>2, <3>3
  <2> HIDE DEF keys, values
  <2> QED BY <1>1, <2>1, PlacesDiffer
<1>5. document.axes = axes
  BY DEF Written
<1>6. {k \in 1 .. Len(document.axes) : document.axes[k].id = axes[i].id} = {i}
  BY <1>3, <1>5
<1>7. {l \in 1 .. Len(document.axes[i].values) : document.axes[i].values[l].key = values[j].key}
         = {j}
  BY <1>4, <1>5
<1>8. Meanings(axes[i].id, values[j].key)
         = UNION {{k} \X {l \in 1 .. Len(document.axes[k].values) :
                             document.axes[k].values[l].key = values[j].key} : k \in {i}}
  BY <1>6 DEF Meanings
<1>9. UNION {{k} \X {l \in 1 .. Len(document.axes[k].values) :
                         document.axes[k].values[l].key = values[j].key} : k \in {i}}
         = {i} \X {j}
  BY <1>7
<1>10. {i} \X {j} = {<<i, j>>}
  OBVIOUS
<1> QED BY <1>8, <1>9, <1>10

\* A list has a length.
LEMMA ListLength ==
    ASSUME NEW list, IsList(list)
    PROVE  Len(list) \in Nat
BY DEF IsList

\* For any catalogs, and any changes of the files during the call, what is
\* published means one thing.
THEOREM PublishedCorrect == CatalogSpec => []PublishedMeansOneThing
<1>1. CatalogInv => PublishedMeansOneThing
  <2>1. SUFFICES ASSUME CatalogInv, document # Missing PROVE PublishedMeansOneThing
    BY DEF PublishedMeansOneThing
  <2> DEFINE variants == catalog.variants
             n == Len(variants)
  <2>2. pc = "done" /\ document = Written
    BY <2>1 DEF CatalogInv
  <2>3. IsCatalog(catalog) /\ n \in Nat /\ Len(catalog.quantities) \in Nat
    <3>1. IsCatalog(catalog)
      BY <2>1 DEF CatalogInv
    <3>2. IsList(variants) /\ IsList(catalog.quantities)
      BY <3>1 DEF IsCatalog
    <3> QED BY <3>1, <3>2, ListLength
  <2>4. /\ document.axes = catalog.axes /\ document.quantities = catalog.quantities
        /\ document.variants = [v \in 1 .. n |-> WriteVariant(variants[v])]
    BY <2>2 DEF Written
  <2>5. /\ Len(document.variants) = n
        /\ \A v \in 1 .. n :
              /\ document.variants[v].selectors = variants[v].selectors
              /\ document.variants[v].path = variants[v].path
              /\ document.variants[v].quantities = variants[v].quantities
              /\ document.variants[v].step_index
                    = IF variants[v].step >= 0 THEN {variants[v].step} ELSE {}
    BY <2>3, <2>4 DEF WriteVariant
  <2>6. SUFFICES ASSUME NEW v \in 1 .. Len(document.variants)
                 PROVE  LET variant == document.variants[v]
                        IN  /\ \A id \in DOMAIN variant.selectors :
                                  LET meanings == Meanings(id, variant.selectors[id])
                                  IN  /\ Cardinality(meanings) = 1
                                      /\ \A m \in meanings :
                                            document.axes[m[1]].kind = "numeric" =>
                                               HasNumber(document.axes[m[1]].values[m[2]])
                            /\ {w \in 1 .. Len(document.variants) :
                                   document.variants[w].selectors = variant.selectors} = {v}
                            /\ ReadStep(variant) = catalog.variants[v].step
                            /\ variant.path.file \notin touched
                                  => disk[variant.path.file] = "inside"
                            /\ \A m \in 1 .. Len(variant.quantities) :
                                  LET mapping == variant.quantities[m]
                                  IN  /\ Supported(mapping.association)
                                      /\ Cardinality({q \in 1 .. Len(document.quantities) :
                                             document.quantities[q].id = mapping.quantity}) = 1
    BY <2>1 DEF PublishedMeansOneThing
  <2> DEFINE variant == document.variants[v]
             selectors == variants[v].selectors
  <2>13. v \in 1 .. n
    BY <2>5
  <2>7. \A w \in 1 .. n : VariantGood(w)
    BY <2>1, <2>2 DEF CatalogInv
  <2>8. ASSUME NEW id \in DOMAIN selectors
        PROVE  LET meanings == Meanings(id, selectors[id])
               IN  /\ Cardinality(meanings) = 1
                   /\ \A m \in meanings : document.axes[m[1]].kind = "numeric" =>
                         HasNumber(document.axes[m[1]].values[m[2]])
    <3>1. PICK i \in 1 .. Len(catalog.axes) :
              /\ catalog.axes[i].id = id
              /\ \E j \in 1 .. Len(catalog.axes[i].values) :
                    catalog.axes[i].values[j].key = selectors[id]
      BY <2>7, <2>13 DEF VariantGood, ValidSelectors
    <3>2. PICK j \in 1 .. Len(catalog.axes[i].values) :
              catalog.axes[i].values[j].key = selectors[id]
      BY <3>1
    <3>3. Meanings(id, selectors[id]) = {<<i, j>>}
      BY <2>1, <2>2, <3>1, <3>2, OneMeaning
    <3>4. Cardinality({<<i, j>>}) = 1
      BY FS_Singleton
    <3>5. catalog.axes[i].kind = "numeric" => HasNumber(catalog.axes[i].values[j])
      <4>1. ValidValues(catalog.axes[i])
        BY <2>1, <2>2 DEF CatalogInv, AxisGood
      <4> QED BY <4>1 DEF ValidValues, HasNumber
    <3> QED BY <2>4, <3>3, <3>4, <3>5
  <2>9. {w \in 1 .. n : document.variants[w].selectors = variant.selectors} = {v}
    <3> DEFINE f == [w \in 1 .. n |-> variants[w].selectors]
    <3>1. \A w \in 1 .. n : \A u \in 1 .. w - 1 : f[u] # f[w]
      BY <2>3, <2>7 DEF VariantGood
    <3>2. \A u, w \in 1 .. n : f[u] = f[w] => u = w
      <4> HIDE DEF f, n
      <4> QED BY <2>3, <3>1, PlacesDiffer
    <3>3. \A u, w \in 1 .. n : variants[u].selectors = variants[w].selectors => u = w
      BY <3>2
    <3> QED BY <2>5, <2>13, <3>3
  <2>10. ReadStep(variant) = variants[v].step
    <3>1. variants[v].step \in Int /\ variants[v].step >= -1
      BY <2>3, <2>7, <2>13 DEF VariantGood, IsCatalog
    <3>2. variant.step_index = IF variants[v].step >= 0 THEN {variants[v].step} ELSE {}
      BY <2>5, <2>13
    <3>3. CASE variants[v].step >= 0
      BY <3>2, <3>3 DEF ReadStep
    <3>4. CASE ~(variants[v].step >= 0)
      <4>1. variants[v].step = -1
        BY <3>1, <3>4
      <4>2. variant.step_index = {}
        BY <3>2, <3>4
      <4> HIDE DEF variant, variants
      <4> QED BY <4>1, <4>2 DEF ReadStep
    <3> QED BY <3>3, <3>4
  <2>11. variant.path.file \notin touched => disk[variant.path.file] = "inside"
    BY <2>5, <2>7, <2>13 DEF VariantGood
  <2>12. ASSUME NEW m \in 1 .. Len(variants[v].quantities)
         PROVE  LET mapping == variants[v].quantities[m]
                IN  /\ Supported(mapping.association)
                    /\ Cardinality({q \in 1 .. Len(catalog.quantities) :
                           catalog.quantities[q].id = mapping.quantity}) = 1
    <3> DEFINE mapping == variants[v].quantities[m]
               f == [q \in 1 .. Len(catalog.quantities) |-> catalog.quantities[q].id]
    <3>1. Supported(mapping.association)
          /\ \E q \in 1 .. Len(catalog.quantities) : catalog.quantities[q].id = mapping.quantity
      BY <2>7, <2>13 DEF VariantGood, ValidMappings
    <3>2. PICK q \in 1 .. Len(catalog.quantities) : catalog.quantities[q].id = mapping.quantity
      BY <3>1
    <3>3. \A i \in 1 .. Len(catalog.quantities) : \A j \in 1 .. i - 1 : f[j] # f[i]
      <4>1. \A i \in 1 .. Len(catalog.quantities) : QuantityGood(i)
        BY <2>1, <2>2 DEF CatalogInv
      <4> QED BY <2>3, <4>1 DEF QuantityGood
    <3>4. \A i, j \in 1 .. Len(catalog.quantities) : f[i] = f[j] => i = j
      <4> HIDE DEF f
      <4> QED BY <2>3, <3>3, PlacesDiffer
    <3>5. {p \in 1 .. Len(catalog.quantities) : catalog.quantities[p].id = mapping.quantity} = {q}
      BY <3>2, <3>4
    <3>6. Cardinality({q}) = 1
      BY FS_Singleton
    <3> QED BY <3>1, <3>5, <3>6
  <2>14. variant.selectors = selectors /\ variant.quantities = variants[v].quantities
    BY <2>5, <2>13
  <2>15. \A id \in DOMAIN variant.selectors :
             LET meanings == Meanings(id, variant.selectors[id])
             IN  /\ Cardinality(meanings) = 1
                 /\ \A m \in meanings : document.axes[m[1]].kind = "numeric" =>
                        HasNumber(document.axes[m[1]].values[m[2]])
    BY <2>8, <2>14
  <2>16. \A m \in 1 .. Len(variant.quantities) :
             LET mapping == variant.quantities[m]
             IN  /\ Supported(mapping.association)
                 /\ Cardinality({q \in 1 .. Len(document.quantities) :
                        document.quantities[q].id = mapping.quantity}) = 1
    <3>1. document.quantities = catalog.quantities /\ variant.quantities = variants[v].quantities
      BY <2>4, <2>14
    <3> HIDE DEF variant, variants
    <3> QED BY <2>12, <3>1
  <2>17. {w \in 1 .. Len(document.variants) :
             document.variants[w].selectors = variant.selectors} = {v}
    BY <2>5, <2>9
  <2> HIDE DEF n
  <2> QED BY <2>10, <2>11, <2>15, <2>16, <2>17
<1> QED BY <1>1, CatalogInvariance, PTL

-----------------------------------------------------------------------------
(* What the README promises is published.                                   *)

\* Every element of a sound catalog passes its validation, so only the head's
\* identities have to be followed, which Fill completes, and the files.
Promised ==
    /\ at >= 1
    /\ pc # "fill" => /\ catalog.runId # ""
                      /\ catalog.family = "" => ~Proper(catalog.name.family)
    /\ PromisedIsPublished

\* What differs at any two places differs from what comes before it.
LEMMA InjectivePlaces ==
    ASSUME NEW n \in Nat, NEW f, IsInjective(f), DOMAIN f = 1 .. n
    PROVE  \A i \in 1 .. n : \A j \in 1 .. i - 1 : f[j] # f[i]
<1>1. \A i, j \in 1 .. n : f[i] = f[j] => i = j
  BY DEF IsInjective
<1> QED BY <1>1

\* The head of a sound catalog that was filled in.
LEMMA SoundHead ==
    ASSUME Sound(catalog), Promised, pc # "fill"
    PROVE  ValidHead
<1>1. SoundIdentity(catalog)
  BY DEF Sound
<1> QED BY <1>1 DEF Promised, SoundIdentity, ValidHead, Identifier, Utf8,
              HasBoundaryWhitespace

\* An axis, wherever it is in a sound catalog.
LEMMA SoundAxisIsValid ==
    ASSUME CatalogInv, Sound(catalog), at \in 1 .. Len(catalog.axes)
    PROVE  ValidAxis(catalog.axes[at])
<1> DEFINE sought == catalog.axes[at]
           n == Len(sought.values)
<1>1. SoundAxis(sought) /\ IsInjective(Ids(catalog.axes))
  BY DEF Sound
<1>2. Len(catalog.axes) \in Nat /\ n \in Nat
  BY ListLength DEF CatalogInv, IsCatalog
<1>3. \A j \in Before : catalog.axes[j].id # sought.id
  <2>1. \A i \in 1 .. Len(catalog.axes) : \A j \in 1 .. i - 1 :
            Ids(catalog.axes)[j] # Ids(catalog.axes)[i]
    <3>1. DOMAIN Ids(catalog.axes) = 1 .. Len(catalog.axes)
      BY DEF Ids
    <3> QED BY <1>1, <1>2, <3>1, InjectivePlaces
  <2>2. \A i \in 1 .. Len(catalog.axes) : Ids(catalog.axes)[i] = catalog.axes[i].id
    BY DEF Ids
  <2>3. \A j \in Before : j \in 1 .. Len(catalog.axes)
    BY <1>2 DEF Before
  <2> QED BY <2>1, <2>2, <2>3 DEF Before
<1>4. \A i \in 1 .. n : \A j \in 1 .. i - 1 : sought.values[j].key # sought.values[i].key
  <2>1. \A i \in 1 .. n : \A j \in 1 .. i - 1 : Keys(sought)[j] # Keys(sought)[i]
    <3>1. DOMAIN Keys(sought) = 1 .. n /\ IsInjective(Keys(sought))
      BY <1>1 DEF Keys, SoundAxis
    <3> HIDE DEF sought, n
    <3> QED BY <1>2, <3>1, InjectivePlaces
  <2>2. \A i \in 1 .. n : Keys(sought)[i] = sought.values[i].key
    BY DEF Keys
  <2>3. \A i \in 1 .. n : \A j \in 1 .. i - 1 : j \in 1 .. n
    BY <1>2
  <2> HIDE DEF sought, n
  <2> QED BY <2>1, <2>2, <2>3
<1>5. \A i \in 1 .. n : sought.values[i].key \notin {"", NotUtf8}
  BY <1>1 DEF SoundAxis, Keys, Range
<1>6. \A i \in 1 .. n : /\ Finite(sought.values[i].number)
                        /\ sought.kind = "numeric" => HasNumber(sought.values[i])
  BY <1>1 DEF SoundAxis, HasNumber
<1>7. ValidValues(sought)
  BY <1>4, <1>5, <1>6 DEF ValidValues, HasNumber, Utf8
<1>8. /\ sought.default # "" => \E i \in 1 .. n : sought.values[i].key = sought.default
      /\ Utf8(sought.default)
  <2>1. sought.default = "" \/ \E i \in 1 .. n : sought.values[i].key = sought.default
    BY <1>1 DEF SoundAxis, Keys, Range
  <2> QED BY <1>5, <2>1, CatalogAssumption DEF Utf8
<1>9. Identifier(sought.id) /\ AllUtf8(sought.texts) /\ sought.kind \in {"fixed", "numeric"}
  BY <1>1 DEF SoundAxis, Proper, Identifier, AllUtf8, Utf8, HasBoundaryWhitespace
<1> HIDE DEF sought
<1> QED BY <1>3, <1>7, <1>8, <1>9 DEF ValidAxis, sought

\* A quantity.
LEMMA SoundQuantityIsValid ==
    ASSUME CatalogInv, Sound(catalog), at \in 1 .. Len(catalog.quantities)
    PROVE  ValidQuantity(catalog.quantities[at])
<1>1. SoundQuantity(catalog.quantities[at]) /\ IsInjective(Ids(catalog.quantities))
  BY DEF Sound
<1>2. Len(catalog.quantities) \in Nat
  BY ListLength DEF CatalogInv, IsCatalog
<1>3. \A j \in Before : catalog.quantities[j].id # catalog.quantities[at].id
  <2>1. \A i \in 1 .. Len(catalog.quantities) : \A j \in 1 .. i - 1 :
            Ids(catalog.quantities)[j] # Ids(catalog.quantities)[i]
    <3>1. DOMAIN Ids(catalog.quantities) = 1 .. Len(catalog.quantities)
      BY DEF Ids
    <3> QED BY <1>1, <1>2, <3>1, InjectivePlaces
  <2>2. \A i \in 1 .. Len(catalog.quantities) :
            Ids(catalog.quantities)[i] = catalog.quantities[i].id
    BY DEF Ids
  <2>3. \A j \in Before : j \in 1 .. Len(catalog.quantities)
    BY <1>2 DEF Before
  <2> QED BY <2>1, <2>2, <2>3 DEF Before
<1> QED BY <1>1, <1>3 DEF SoundQuantity, Proper, NoText, ValidQuantity, Identifier,
              AllUtf8, Utf8, HasBoundaryWhitespace, PlainText

\* What a variant of a sound catalog shows is valid in any list of mappings.
LEMMA SoundMappingsAreValid ==
    ASSUME NEW mappings, Len(mappings) \in Nat, SoundMappings(catalog, mappings)
    PROVE  ValidMappings(mappings)
<1>1. ASSUME NEW i \in 1 .. Len(mappings)
      PROVE  \A j \in 1 .. i - 1 : mappings[j].quantity # mappings[i].quantity
  <2> DEFINE n == Len(mappings)
             f == [m \in 1 .. n |-> mappings[m].quantity]
  <2>1. IsInjective(f) /\ DOMAIN f = 1 .. n
    BY DEF SoundMappings
  <2>2. \A j \in 1 .. i - 1 : f[j] # f[i]
    <3> HIDE DEF f, n
    <3>1. n \in Nat /\ i \in 1 .. n
      BY <1>1 DEF n
    <3> QED BY <2>1, <3>1, InjectivePlaces
  <2>3. f[i] = mappings[i].quantity
    BY <1>1
  <2>4. \A j \in 1 .. i - 1 : f[j] = mappings[j].quantity
    BY <1>1
  <2> HIDE DEF f
  <2> QED BY <2>2, <2>3, <2>4
<1>2. ASSUME NEW i \in 1 .. Len(mappings)
      PROVE  \E j \in 1 .. Len(catalog.quantities) :
                 catalog.quantities[j].id = mappings[i].quantity
  BY <1>2 DEF SoundMappings, Range, Ids
<1>3. ASSUME NEW i \in 1 .. Len(mappings)
      PROVE  /\ mappings[i].array # "" /\ PlainText(mappings[i].array)
             /\ Supported(mappings[i].association)
  BY <1>3 DEF SoundMappings, NoText, PlainText, Utf8, HasBoundaryWhitespace
<1> QED BY <1>1, <1>2, <1>3 DEF ValidMappings

\* A variant is refused for its file only.
LEMMA SoundVariantIsValid ==
    ASSUME CatalogInv, Sound(catalog), at \in 1 .. Len(catalog.variants),
           disk[catalog.variants[at].path.file] = "inside"
    PROVE  ValidVariant(catalog.variants[at])
<1> DEFINE variant == catalog.variants[at]
<1>1. /\ SoundVariant(catalog, variant)
      /\ IsInjective([v \in 1 .. Len(catalog.variants) |-> catalog.variants[v].selectors])
  BY DEF Sound
<1>2. Len(catalog.variants) \in Nat /\ Len(variant.quantities) \in Nat
  BY ListLength DEF CatalogInv, IsCatalog
<1>3. \A j \in Before : catalog.variants[j].selectors # variant.selectors
  <2> DEFINE n == Len(catalog.variants)
             f == [v \in 1 .. n |-> catalog.variants[v].selectors]
  <2>1. IsInjective(f) /\ DOMAIN f = 1 .. n
    BY <1>1
  <2>2. \A i \in 1 .. n : \A j \in 1 .. i - 1 : f[j] # f[i]
    <3>1. n \in Nat
      BY <1>2
    <3> HIDE DEF f, n
    <3> QED BY <2>1, <3>1, InjectivePlaces
  <2>3. f[at] = variant.selectors
    OBVIOUS
  <2>4. \A j \in Before : f[j] = catalog.variants[j].selectors
    BY <1>2 DEF Before
  <2> HIDE DEF f
  <2> QED BY <2>2, <2>3, <2>4 DEF Before
<1>4. ValidSelectors(variant.selectors)
  <2>1. SUFFICES ASSUME NEW id \in DOMAIN variant.selectors
                 PROVE  \E i \in 1 .. Len(catalog.axes) :
                            /\ catalog.axes[i].id = id
                            /\ \E j \in 1 .. Len(catalog.axes[i].values) :
                                   catalog.axes[i].values[j].key = variant.selectors[id]
    BY DEF ValidSelectors
  <2>2. PICK i \in 1 .. Len(catalog.axes) :
            /\ catalog.axes[i].id = id
            /\ variant.selectors[id] \in Range(Keys(catalog.axes[i]))
    BY <1>1, <2>1 DEF SoundVariant
  <2>3. \E j \in 1 .. Len(catalog.axes[i].values) :
            catalog.axes[i].values[j].key = variant.selectors[id]
    BY <2>2 DEF Range, Keys
  <2> QED BY <2>2, <2>3
<1>5. ValidMappings(variant.quantities)
  BY <1>1, <1>2, SoundMappingsAreValid DEF SoundVariant
<1>6. ValidPath(variant.path)
  BY <1>1 DEF SoundVariant, NoText, ValidPath, PlainText, Utf8, HasBoundaryWhitespace
<1>7. variant.step >= -1 /\ Finite(variant.time) /\ AllUtf8(variant.texts)
  BY <1>1 DEF SoundVariant, AllUtf8, Utf8
<1> HIDE DEF variant
<1> QED BY <1>3, <1>4, <1>5, <1>6, <1>7 DEF ValidVariant, variant

\* Each step refuses only what the README does not promise.
LEMMA PromisedInductive ==
    ASSUME CatalogInv, Promised, [CatalogNext]_catalogVars
    PROVE  Promised'
<1>1. CASE UNCHANGED catalogVars
  BY <1>1 DEF catalogVars, Promised, PromisedIsPublished
<1>2. CASE Fill
  <2>1. /\ pc' = "head" /\ at' = at
        /\ {"name", "family", "runId"} \subseteq DOMAIN catalog
    BY <1>2 DEF Fill, CatalogInv, IsCatalog
  <2>2. /\ catalog'.name = catalog.name
        /\ catalog'.family = IF catalog.family = "" THEN catalog.name.family
                             ELSE catalog.family
        /\ catalog'.runId = IF catalog.runId = "" THEN "made" ELSE catalog.runId
    BY <1>2, <2>1 DEF Fill, CanonicalSolverFamily
  <2> QED BY <2>1, <2>2 DEF Promised, PromisedIsPublished, Proper
<1>3. CASE ValidateHead
  <2>1. catalog' = catalog /\ at' = at /\ pc = "head" /\ (pc' = "refused" => ~ValidHead)
    BY <1>3 DEF ValidateHead, Throw
  <2>2. ~(pc' = "refused" /\ Sound(catalog))
    BY <2>1, SoundHead
  <2> QED BY <2>1, <2>2 DEF Promised, PromisedIsPublished
<1>4. CASE ValidateAxis
  <2>1. /\ catalog' = catalog /\ at' \in {1, at, at + 1} /\ pc = "axes"
        /\ pc' = "refused" => at <= Len(catalog.axes) /\ ~ValidAxis(catalog.axes[at])
    BY <1>4 DEF ValidateAxis, Loop, Throw, CatalogInv
  <2>2. ~(pc' = "refused" /\ Sound(catalog))
    <3>1. at \in Nat /\ at >= 1 /\ Len(catalog.axes) \in Nat
      BY ListLength DEF CatalogInv, IsCatalog, Promised
    <3> QED BY <2>1, <3>1, SoundAxisIsValid
  <2>3. at \in Nat
    BY DEF CatalogInv
  <2>4. at' >= 1
    <3>1. at' = 1 \/ at' = at \/ at' = at + 1
      BY <2>1
    <3>2. at >= 1
      BY DEF Promised
    <3> QED BY <2>3, <3>1, <3>2
  <2>5. catalog'.runId # "" /\ (catalog'.family = "" => ~Proper(catalog'.name.family))
    BY <2>1 DEF Promised
  <2>6. PromisedIsPublished'
    BY <2>1, <2>2 DEF PromisedIsPublished
  <2> QED BY <2>4, <2>5, <2>6 DEF Promised, Proper
<1>5. CASE ValidateQuantity
  <2>1. /\ catalog' = catalog /\ at' \in {1, at, at + 1} /\ pc = "quantities"
        /\ pc' = "refused" => at <= Len(catalog.quantities)
                              /\ ~ValidQuantity(catalog.quantities[at])
    BY <1>5 DEF ValidateQuantity, Loop, Throw, CatalogInv
  <2>2. ~(pc' = "refused" /\ Sound(catalog))
    <3>1. at \in Nat /\ at >= 1 /\ Len(catalog.quantities) \in Nat
      BY ListLength DEF CatalogInv, IsCatalog, Promised
    <3> QED BY <2>1, <3>1, SoundQuantityIsValid
  <2>3. at \in Nat
    BY DEF CatalogInv
  <2>4. at' >= 1
    <3>1. at' = 1 \/ at' = at \/ at' = at + 1
      BY <2>1
    <3>2. at >= 1
      BY DEF Promised
    <3> QED BY <2>3, <3>1, <3>2
  <2>5. catalog'.runId # "" /\ (catalog'.family = "" => ~Proper(catalog'.name.family))
    BY <2>1 DEF Promised
  <2>6. PromisedIsPublished'
    BY <2>1, <2>2 DEF PromisedIsPublished
  <2> QED BY <2>4, <2>5, <2>6 DEF Promised, Proper
<1>6. CASE ValidateVariant
  <2>1. /\ catalog' = catalog /\ disk' = disk /\ at' \in {1, at, at + 1} /\ pc = "variants"
        /\ pc' = "refused" => at <= Len(catalog.variants)
                              /\ ~ValidVariant(catalog.variants[at])
    BY <1>6 DEF ValidateVariant, Loop, Throw, CatalogInv
  <2>2. pc' = "refused" /\ Sound(catalog) =>
            \E i \in 1 .. Len(catalog.variants) : disk[catalog.variants[i].path.file] # "inside"
    <3>1. at \in Nat /\ at >= 1 /\ Len(catalog.variants) \in Nat
      BY ListLength DEF CatalogInv, IsCatalog, Promised
    <3> QED BY <2>1, <3>1, SoundVariantIsValid
  <2>3. PromisedIsPublished'
    BY <2>1, <2>2 DEF PromisedIsPublished
  <2>4. at \in Nat
    BY DEF CatalogInv
  <2>5. at' >= 1
    <3>1. at' = 1 \/ at' = at \/ at' = at + 1
      BY <2>1
    <3>2. at >= 1
      BY DEF Promised
    <3> QED BY <2>4, <3>1, <3>2
  <2>6. catalog'.runId # "" /\ (catalog'.family = "" => ~Proper(catalog'.name.family))
    BY <2>1 DEF Promised
  <2> QED BY <2>3, <2>5, <2>6 DEF Promised, Proper
<1>7. CASE WriteVisualizationCatalog
  BY <1>7 DEF WriteVisualizationCatalog, Promised, PromisedIsPublished
<1>8. ASSUME NEW f \in Files, NEW where \in Wheres, Change(f, where) PROVE Promised'
  BY <1>8 DEF Change, Promised, PromisedIsPublished
<1> QED BY <1>1, <1>2, <1>3, <1>4, <1>5, <1>6, <1>7, <1>8 DEF CatalogNext

\* For any catalogs, and any changes of the files: what is refused is not what the
\* README describes, or names a file that is not there or was touched.
THEOREM PromiseKept == CatalogSpec => []PromisedIsPublished
<1>1. CatalogInit => Promised
  BY DEF CatalogInit, Promised, PromisedIsPublished
<1>2. CatalogInv /\ CatalogInv' /\ Promised /\ [CatalogNext]_catalogVars => Promised'
  BY PromisedInductive
<1>3. Promised => PromisedIsPublished
  BY DEF Promised
<1> QED BY <1>1, <1>2, <1>3, CatalogInvariance, PTL DEF CatalogSpec

=============================================================================
