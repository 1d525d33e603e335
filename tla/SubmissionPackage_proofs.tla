---------------------- MODULE SubmissionPackage_proofs ----------------------
(***************************************************************************)
(* Proofs about SubmissionPackage, for any benchmarks, reports and         *)
(* measurements, and any number of exports and builds.                     *)
(***************************************************************************)
EXTENDS SubmissionPackage, SequenceTheorems, FiniteSetTheorems, WellFoundedInduction, TLAPS

\* The strings of a step.
Word == {"main", "appendix", "", "figures", "tables", "boundary", "physical", "baseline",
         "world", "planner", "repeated", "transfer", "support", "protocol", "limitations",
         "manuscript", "experiments"}

\* A step as a record; the pieces of Steps are sequences of them.
StepRecord == [pack : {"main", "appendix"}, asset : Word, bundle : Word]

LEMMA StepOK ==
  ASSUME NEW p \in {"main", "appendix"}, NEW a \in Word, NEW b \in Word
  PROVE  S(p, a, b) \in StepRecord
  BY DEF S, StepRecord

LEMMA TablesOK ==
  /\ DOMAIN Tables = 1 .. 5 /\ Len(Tables) = 5
  /\ \A i \in 1 .. 5 : Tables[i] \in Word
  <1>1. DOMAIN Tables = 1 .. 5 /\ Len(Tables) = 5
    BY DEF Tables
  <1>2. ASSUME NEW i \in 1 .. 5 PROVE Tables[i] \in Word
    <2>1. Tables[i] \in {"baseline", "world", "planner", "repeated", "transfer"}
      BY DEF Tables
    <2> QED  BY <2>1 DEF Word
  <1> QED  BY <1>1, <1>2

LEMMA ConcatLeft ==
  ASSUME NEW X, NEW s \in Seq(X), NEW t \in Seq(X), NEW i \in DOMAIN s
  PROVE  i \in DOMAIN (s \o t) /\ (s \o t)[i] = s[i]
  <1>1. /\ s \o t \in Seq(X) /\ Len(s \o t) = Len(s) + Len(t)
        /\ \A k \in 1 .. Len(s) + Len(t) :
              (s \o t)[k] = IF k <= Len(s) THEN s[k] ELSE t[k - Len(s)]
    BY ConcatProperties
  <1>2. /\ Len(s) \in Nat /\ Len(t) \in Nat
        /\ i \in 1 .. Len(s) /\ DOMAIN (s \o t) = 1 .. Len(s) + Len(t)
    BY <1>1
  <1>3. i \in 1 .. Len(s) + Len(t) /\ i <= Len(s)
    BY <1>2
  <1> QED  BY <1>1, <1>2, <1>3

LEMMA ConcatRight ==
  ASSUME NEW X, NEW s \in Seq(X), NEW t \in Seq(X), NEW i \in DOMAIN t
  PROVE  Len(s) + i \in DOMAIN (s \o t) /\ (s \o t)[Len(s) + i] = t[i]
  <1>1. /\ s \o t \in Seq(X) /\ Len(s \o t) = Len(s) + Len(t)
        /\ \A k \in 1 .. Len(s) + Len(t) :
              (s \o t)[k] = IF k <= Len(s) THEN s[k] ELSE t[k - Len(s)]
    BY ConcatProperties
  <1>2. /\ Len(s) \in Nat /\ Len(t) \in Nat
        /\ i \in 1 .. Len(t) /\ DOMAIN (s \o t) = 1 .. Len(s) + Len(t)
    BY <1>1
  <1>3. /\ Len(s) + i \in 1 .. Len(s) + Len(t) /\ ~(Len(s) + i <= Len(s))
        /\ (Len(s) + i) - Len(s) = i
    BY <1>2
  <1>4. (s \o t)[Len(s) + i] = t[i]
    BY <1>1, <1>3
  <1> QED  BY <1>2, <1>3, <1>4

LEMMA ConcatType == ASSUME NEW X, NEW s \in Seq(X), NEW t \in Seq(X) PROVE s \o t \in Seq(X)
  OBVIOUS

\* Some of these steps freezes an asset for a pack.
Freezes(steps, p, a) == \E k \in DOMAIN steps : steps[k].pack = p /\ steps[k].asset = a

\* A pack freezes the figures and every table.
LEMMA FreezeHolds ==
  ASSUME NEW p \in {"main", "appendix"}, NEW f \in Word, NEW t \in Word
  PROVE  /\ Freeze(p, f, t) \in Seq(StepRecord)
         /\ \A a \in {"figures"} \cup ToSet(Tables) : Freezes(Freeze(p, f, t), p, a)
  <1> DEFINE first == <<S(p, "figures", f)>>
             rest == [i \in DOMAIN Tables |-> S(p, Tables[i], IF i = Len(Tables) THEN t ELSE "")]
  <1>1. {"figures", ""} \subseteq Word
    BY DEF Word
  <1>2. /\ first \in Seq(StepRecord) /\ DOMAIN first = {1}
        /\ first[1].pack = p /\ first[1].asset = "figures"
    <2>1. S(p, "figures", f) \in StepRecord
      BY <1>1, StepOK
    <2> QED  BY <2>1 DEF S
  <1>3. ASSUME NEW i \in 1 .. 5
        PROVE  S(p, Tables[i], IF i = Len(Tables) THEN t ELSE "") \in StepRecord
    <2>1. (IF i = Len(Tables) THEN t ELSE "") \in Word
      BY <1>1
    <2> QED  BY <2>1, StepOK, TablesOK
  <1>4. rest \in [1 .. 5 -> StepRecord]
    BY <1>3, TablesOK
  <1>5. rest \in Seq(StepRecord) /\ DOMAIN rest = 1 .. 5
    <2>1. rest \in Seq(StepRecord)
      BY <1>4, SeqDef
    <2>2. DOMAIN rest = 1 .. 5
      BY <1>4
    <2> QED  BY <2>1, <2>2
  <1>6. \A i \in 1 .. 5 : rest[i].pack = p /\ rest[i].asset = Tables[i]
    BY TablesOK DEF S
  <1> HIDE DEF first, rest
  <1>7. Freeze(p, f, t) = first \o rest
    BY DEF Freeze, first, rest
  <1>8. ASSUME NEW a \in {"figures"} \cup ToSet(Tables)
        PROVE  Freezes(Freeze(p, f, t), p, a)
    <2> USE DEF Freezes
    <2>1. CASE a = "figures"
      <3>1. 1 \in DOMAIN (first \o rest) /\ (first \o rest)[1] = first[1]
        BY <1>2, <1>5, ConcatLeft
      <3> QED  BY <2>1, <3>1, <1>2, <1>7
    <2>2. CASE a \in ToSet(Tables)
      <3>1. PICK i \in 1 .. 5 : a = Tables[i]
        BY <2>2, TablesOK DEF ToSet
      <3>2. /\ Len(first) + i \in DOMAIN (first \o rest)
            /\ (first \o rest)[Len(first) + i] = rest[i]
        BY <1>2, <1>5, ConcatRight
      <3> QED  BY <3>1, <3>2, <1>6, <1>7
    <2> QED  BY <2>1, <2>2
  <1>9. first \o rest \in Seq(StepRecord)
    BY <1>2, <1>5, ConcatType
  <1> QED  BY <1>7, <1>8, <1>9

\* The pieces the steps are put together from.
LEMMA StepsPieces ==
  /\ <<S("main", "boundary", "physical")>> \o Freeze("main", "figures", "tables")
        \o Freeze("appendix", "", "") \in Seq(StepRecord)
  /\ <<S("main", "boundary", "physical")>> \in Seq(StepRecord)
  /\ Freeze("main", "figures", "tables") \in Seq(StepRecord)
  /\ Freeze("appendix", "", "") \in Seq(StepRecord)
  /\ FromSupport \in Seq(StepRecord)
  <1> DEFINE s1 == <<S("main", "boundary", "physical")>>
             main == Freeze("main", "figures", "tables")
             appendix == Freeze("appendix", "", "")
  <1>1. {"main", "appendix", "figures", "tables", ""} \subseteq Word
    BY DEF Word
  <1>2. s1 \in Seq(StepRecord)
    <2>1. {"main", "boundary", "physical"} \subseteq Word
      BY DEF Word
    <2> QED  BY <2>1, StepOK
  <1>3. FromSupport \in Seq(StepRecord)
    <2>1. {"appendix", "support", "main", "protocol", "limitations", "manuscript", "experiments"}
            \subseteq Word
      BY DEF Word
    <2>2. /\ S("appendix", "support", "appendix") \in StepRecord
          /\ S("main", "protocol", "protocol") \in StepRecord
          /\ S("main", "limitations", "limitations") \in StepRecord
          /\ S("main", "manuscript", "manuscript") \in StepRecord
          /\ S("main", "experiments", "experiments") \in StepRecord
      BY <2>1, StepOK
    <2> QED  BY <2>2 DEF FromSupport
  <1>4. main \in Seq(StepRecord) /\ appendix \in Seq(StepRecord)
    <2>1. \A p \in {"main", "appendix"}, f, t \in Word : Freeze(p, f, t) \in Seq(StepRecord)
      BY FreezeHolds
    <2> QED  BY <1>1, <2>1
  <1> HIDE DEF s1, main, appendix
  <1>5. s1 \o main \in Seq(StepRecord) /\ (s1 \o main) \o appendix \in Seq(StepRecord)
    BY <1>2, <1>4, ConcatType
  <1> QED  BY <1>2, <1>3, <1>4, <1>5 DEF s1, main, appendix

\* The steps are those of a sequence, and each pack freezes every figure and table.
LEMMA StepsSequence ==
  /\ Steps \in Seq(StepRecord)
  /\ \A p \in {"main", "appendix"}, a \in {"figures"} \cup ToSet(Tables) :
        Freezes(Steps, p, a)
  <1> DEFINE s1 == <<S("main", "boundary", "physical")>>
             main == Freeze("main", "figures", "tables")
             appendix == Freeze("appendix", "", "")
  <1>1. {"main", "appendix", "figures", "tables", ""} \subseteq Word
    BY DEF Word
  <1>2. s1 \in Seq(StepRecord)
    BY StepsPieces
  <1>3. FromSupport \in Seq(StepRecord)
    BY StepsPieces
  <1>4. main \in Seq(StepRecord) /\ appendix \in Seq(StepRecord)
    BY StepsPieces
  <1>5. ASSUME NEW a \in {"figures"} \cup ToSet(Tables)
        PROVE  Freezes(main, "main", a) /\ Freezes(appendix, "appendix", a)
    <2>1. ASSUME NEW p \in {"main", "appendix"}, NEW f \in Word, NEW t \in Word
          PROVE  Freezes(Freeze(p, f, t), p, a)
      BY FreezeHolds
    <2> QED  BY <1>1, <2>1
  <1> HIDE DEF s1, main, appendix
  <1>6. /\ s1 \o main \in Seq(StepRecord)
        /\ (s1 \o main) \o appendix \in Seq(StepRecord)
        /\ ((s1 \o main) \o appendix) \o FromSupport \in Seq(StepRecord)
    BY <1>2, <1>3, <1>4, ConcatType
  <1>7. Steps = ((s1 \o main) \o appendix) \o FromSupport
    BY DEF Steps, s1, main, appendix
  <1>8. ASSUME NEW k \in DOMAIN main  PROVE \E i \in DOMAIN Steps : Steps[i] = main[k]
    <2>1. Len(s1) + k \in DOMAIN (s1 \o main) /\ (s1 \o main)[Len(s1) + k] = main[k]
      BY <1>2, <1>4, ConcatRight
    <2>2. /\ Len(s1) + k \in DOMAIN ((s1 \o main) \o appendix)
          /\ ((s1 \o main) \o appendix)[Len(s1) + k] = main[k]
      BY <1>4, <1>6, <2>1, ConcatLeft
    <2>3. /\ Len(s1) + k \in DOMAIN (((s1 \o main) \o appendix) \o FromSupport)
          /\ (((s1 \o main) \o appendix) \o FromSupport)[Len(s1) + k] = main[k]
      BY <1>3, <1>6, <2>2, ConcatLeft
    <2> QED  BY <1>7, <2>3
  <1>9. ASSUME NEW k \in DOMAIN appendix  PROVE \E i \in DOMAIN Steps : Steps[i] = appendix[k]
    <2> DEFINE n == Len(s1 \o main) + k
    <2>1. /\ n \in DOMAIN ((s1 \o main) \o appendix)
          /\ ((s1 \o main) \o appendix)[n] = appendix[k]
      BY <1>4, <1>6, ConcatRight
    <2> HIDE DEF n
    <2>2. /\ n \in DOMAIN (((s1 \o main) \o appendix) \o FromSupport)
          /\ (((s1 \o main) \o appendix) \o FromSupport)[n] = appendix[k]
      BY <1>3, <1>6, <2>1, ConcatLeft
    <2> QED  BY <1>7, <2>2
  <1>10. ASSUME NEW p \in {"main", "appendix"}, NEW a \in {"figures"} \cup ToSet(Tables)
         PROVE  Freezes(Steps, p, a)
    <2>1. CASE p = "main"
      BY <2>1, <1>5, <1>8 DEF Freezes
    <2>2. CASE p = "appendix"
      BY <2>2, <1>5, <1>9 DEF Freezes
    <2> QED  BY <2>1, <2>2
  <1> QED  BY <1>6, <1>7, <1>10

\* What the machine needs to know of them: a build takes the steps 1 to Len(Steps).
LEMMA StepsNumbered ==
  /\ Close \in Nat /\ 1 <= Close
  /\ \A i \in DOMAIN Steps : i \in Nat /\ 1 <= i /\ i < Close
  <1>1. ASSUME NEW X, Steps \in Seq(X)
        PROVE  Len(Steps) \in Nat /\ DOMAIN Steps = 1 .. Len(Steps)
    BY <1>1
  <1>2. Steps \in Seq(StepRecord)
    BY StepsSequence
  <1>3. Len(Steps) \in Nat /\ DOMAIN Steps = 1 .. Len(Steps)
    BY <1>1, <1>2
  <1> QED  BY <1>3 DEF Close

LEMMA StepsPacks == \A i \in DOMAIN Steps : Steps[i].pack \in {"main", "appendix"}
  <1>1. \A i \in DOMAIN Steps : Steps[i] \in StepRecord
    BY StepsSequence
  <1> QED  BY <1>1 DEF StepRecord

\* What the archive, the counters and the bundles are.
PackageTypes ==
    /\ archive \in [File -> {Absent, Torn, 1, 2}]
    /\ pc \in 0..Close /\ builds \in 0..MaxBuilds /\ events \in 0..MaxEvents
    /\ bundles \in [Bundle -> Nat] /\ \A b \in Bundle : bundles[b] <= builds
    /\ final.build \in 0..builds

\* No bundle is older than the package that is there, and the bundles of the steps this
\* build has taken are its own.
BundlesInvariant ==
    /\ \A b \in Bundle : bundles[b] >= final.build
    /\ \A i \in DOMAIN Steps :
          i < pc /\ Steps[i].bundle # "" => bundles[Steps[i].bundle] = builds

PackageInvariant == PackageTypes /\ BundlesInvariant

LEMMA Bounds == MaxBuilds \in Nat /\ MaxEvents \in Nat 
  BY PackageAssumption

LEMMA PackageInitHolds == PackageInit => PackageInvariant
  <1> SUFFICES ASSUME PackageInit PROVE PackageInvariant
    OBVIOUS
  <1>1. archive \in [File -> {Absent, Torn, 1, 2}]
    BY DEF PackageInit
  <1>2. pc = 0 /\ builds = 0 /\ events = 0 /\ final.build = 0 /\ bundles = [b \in Bundle |-> 0]
    BY DEF PackageInit, NoFinal
  <1>3. PackageTypes
    BY <1>1, <1>2, StepsNumbered, Bounds DEF PackageTypes
  <1>4. \A b \in Bundle : bundles[b] >= final.build
    BY <1>2
  <1>5. \A i \in DOMAIN Steps : ~(i < pc)
    BY <1>2, StepsNumbered
  <1>6. BundlesInvariant
    BY <1>4, <1>5 DEF BundlesInvariant
  <1> QED  BY <1>3, <1>6 DEF PackageInvariant

LEMMA PackageStep == PackageInvariant /\ [PackageNext]_vars => PackageInvariant'
  <1> SUFFICES ASSUME PackageInvariant, [PackageNext]_vars PROVE PackageInvariant'
    OBVIOUS
  <1> USE DEF PackageInvariant
  <1>1. CASE \E e \in Exporter : Export(e)
    <2>1. PICK e \in Exporter : Export(e)
      BY <1>1
    <2>2. \E v \in {1, 2} : archive' = [f \in File |-> IF f \in Writes(e) THEN v ELSE archive[f]]
      BY <2>1 DEF Export
    <2>3. archive' \in [File -> {Absent, Torn, 1, 2}]
      BY <2>2 DEF PackageTypes
    <2>4. /\ events' \in 0..MaxEvents
          /\ UNCHANGED <<pc, bundles, final, builds>>
      BY <2>1, StepsNumbered, Bounds DEF Export, PackageTypes
    <2> QED  BY <2>3, <2>4 DEF PackageTypes, BundlesInvariant
  <1>2. CASE \E e \in Exporter : \E f \in Writes(e) : ExportDies(e, f)
    <2>1. PICK e \in Exporter : \E f \in Writes(e) : ExportDies(e, f)
      BY <1>2
    <2>2. PICK f \in Writes(e) : ExportDies(e, f)
      BY <2>1
    <2>3. archive' = [archive EXCEPT ![f] = Torn]
      BY <2>2 DEF ExportDies
    <2>4. archive' \in [File -> {Absent, Torn, 1, 2}]
      BY <2>3 DEF PackageTypes
    <2>5. /\ events' \in 0..MaxEvents
          /\ UNCHANGED <<pc, bundles, final, builds>>
      BY <2>2, StepsNumbered, Bounds DEF ExportDies, PackageTypes
    <2> QED  BY <2>4, <2>5 DEF PackageTypes, BundlesInvariant
  <1>3. CASE Begin
    <2>1. /\ pc' = 1 /\ builds' = builds + 1 /\ builds < MaxBuilds
          /\ UNCHANGED <<archive, bundles, final, events>>
      BY <1>3 DEF Begin
    <2>2. PackageTypes'
      BY <2>1, StepsNumbered, Bounds DEF PackageTypes
    <2>3. BundlesInvariant'
      <3>1. \A b \in Bundle : bundles'[b] >= final'.build
        BY <2>1 DEF BundlesInvariant
      <3>2. \A i \in DOMAIN Steps : ~(i < pc')
        BY <2>1, StepsNumbered
      <3> QED  BY <3>1, <3>2 DEF BundlesInvariant
    <2> QED  BY <2>2, <2>3
  <1>4. CASE TakeStep
    <2> DEFINE s == Steps[pc]
    <2>1. /\ pc \in DOMAIN Steps /\ pc' = pc + 1
          /\ bundles' = IF s.bundle = "" THEN bundles ELSE [bundles EXCEPT ![s.bundle] = builds]
          /\ UNCHANGED <<archive, final, builds, events>>
      BY <1>4 DEF TakeStep
    <2>2. s.bundle # "" => s.bundle \in Bundle
      BY <2>1 DEF Bundle
    <2>3. builds \in Nat /\ final.build \in Nat /\ final.build <= builds
      BY StepsNumbered, Bounds DEF PackageTypes
    <2>4. /\ bundles' \in [Bundle -> Nat]
          /\ \A b \in Bundle : bundles'[b] = bundles[b] \/ bundles'[b] = builds
          /\ s.bundle # "" => bundles'[s.bundle] = builds
      BY <2>1, <2>2, <2>3 DEF PackageTypes
    <2>5. PackageTypes'
      <3>1. pc' \in 0..Close
        <4>1. pc \in Nat /\ pc < Close /\ Close \in Nat
          BY <2>1, StepsNumbered
        <4>2. pc' = pc + 1
          BY <2>1
        <4> QED  BY <4>1, <4>2
      <3>2. ASSUME NEW b \in Bundle PROVE bundles'[b] <= builds
        <4>1. bundles[b] <= builds
          BY DEF PackageTypes
        <4>2. bundles'[b] = bundles[b] \/ bundles'[b] = builds
          BY <2>4
        <4> QED  BY <2>3, <4>1, <4>2
      <3> QED  BY <2>1, <2>4, <3>1, <3>2 DEF PackageTypes
    <2>6. ASSUME NEW i \in DOMAIN Steps, i < pc', Steps[i].bundle # ""
          PROVE  bundles'[Steps[i].bundle] = builds'
      <3>1. Steps[i].bundle \in Bundle
        BY <2>6 DEF Bundle
      <3>2. i < pc \/ i = pc
        <4>1. i \in Nat /\ pc \in Nat
          BY <2>1, StepsNumbered
        <4>2. pc' = pc + 1 /\ i < pc'
          BY <2>1, <2>6
        <4> QED  BY <4>1, <4>2
      <3> QED  BY <2>1, <2>4, <2>6, <3>1, <3>2 DEF BundlesInvariant
    <2>7. BundlesInvariant'
      BY <2>1, <2>3, <2>4, <2>6 DEF BundlesInvariant
    <2> QED  BY <2>5, <2>7
  <1>5. CASE BuildDies
    <2>1. pc' = 0 /\ UNCHANGED <<archive, bundles, final, builds, events>>
      BY <1>5 DEF BuildDies
    <2>2. PackageTypes'
      BY <2>1, StepsNumbered DEF PackageTypes
    <2>3. \A i \in DOMAIN Steps : ~(i < pc')
      BY <2>1, StepsNumbered
    <2> QED  BY <2>1, <2>2, <2>3 DEF BundlesInvariant
  <1>6. CASE Finish
    <2>1. /\ pc = Close /\ pc' = 0 /\ final'.build = builds
          /\ UNCHANGED <<archive, bundles, builds, events>>
      BY <1>6 DEF Finish
    <2>2. ASSUME NEW b \in Bundle PROVE bundles[b] = builds
      <3>1. PICK i \in DOMAIN Steps : Steps[i].bundle = b /\ b # ""
        BY DEF Bundle
      <3>2. i < pc
        BY <2>1, StepsNumbered
      <3> QED  BY <3>1, <3>2 DEF BundlesInvariant
    <2>3. builds \in 0..MaxBuilds
      BY DEF PackageTypes
    <2>4. PackageTypes'
      BY <2>1, <2>3, StepsNumbered, Bounds DEF PackageTypes
    <2>5. BundlesInvariant'
      <3>1. \A b \in Bundle : bundles'[b] >= final'.build
        BY <2>1, <2>2, <2>3
      <3>2. \A i \in DOMAIN Steps : ~(i < pc')
        BY <2>1, StepsNumbered
      <3> QED  BY <3>1, <3>2 DEF BundlesInvariant
    <2> QED  BY <2>4, <2>5
  <1>7. CASE UNCHANGED vars
    BY <1>7 DEF vars, PackageTypes, BundlesInvariant
  <1> QED  BY <1>1, <1>2, <1>3, <1>4, <1>5, <1>6, <1>7 DEF PackageNext

LEMMA PackageInvariantImplies == PackageInvariant => ArchiveSound
  <1> SUFFICES ASSUME PackageInvariant PROVE ArchiveSound
    OBVIOUS
  <1>1. PackageTypes /\ BundlesInvariant
    BY DEF PackageInvariant
  <1>2. DOMAIN archive = File /\ \A f \in File : archive[f] \in {Absent, Torn, 1, 2}
    BY <1>1 DEF PackageTypes
  <1>3. DOMAIN bundles = Bundle /\ \A b \in Bundle : bundles[b] \in 0..builds
    BY <1>1, Bounds DEF PackageTypes
  <1>4. PackageTypeOK
    BY <1>1, <1>2, <1>3 DEF PackageTypes, PackageTypeOK
  <1>5. BundlesNotOlder
    BY <1>1 DEF BundlesInvariant, BundlesNotOlder
  <1> QED  BY <1>4, <1>5 DEF ArchiveSound

\* However exports, builds and failures interleave: a final package never lists a bundle
\* that is older than itself, whichever later builds ended early.
THEOREM ArchiveCorrect == PackageSpec => []ArchiveSound
  BY PackageInitHolds, PackageStep, PackageInvariantImplies, PTL DEF PackageSpec

\* The root of the papers is there while a build inside it runs, and what a package
\* inside it was called ready for is still in the archive.
PapersInvariant ==
    /\ pc # 0 /\ inside => papers
    /\ ReadyMeansReports

\* However builds and exports interleave: a package that was built inside the root of the
\* papers and says it is ready has every report in the archive, for good.
THEOREM ReadyCorrect == PackageSpec => []ReadyMeansReports
  <1> DEFINE Inv == PackageInvariant /\ PapersInvariant
  <1>1. PackageInit => PapersInvariant
    BY DEF PackageInit, PapersInvariant, ReadyMeansReports, NoFinal
  <1>2. PackageInvariant /\ PapersInvariant /\ [PackageNext]_vars => PapersInvariant'
    <2> SUFFICES ASSUME PackageInvariant, PapersInvariant, [PackageNext]_vars
                 PROVE  PapersInvariant'
      OBVIOUS
    <2>1. archive \in [File -> {Absent, Torn, 1, 2}] /\ Close # 0
      BY StepsNumbered DEF PackageInvariant, PackageTypes
    <2>2. \A r \in Reports : <<"report", r>> \in File
      BY DEF File, Exporter
    <2>3. CASE \E e \in Exporter : Export(e)
      <3>1. PICK e \in Exporter : Export(e)
        BY <2>3
      <3>2. \E v \in {1, 2} : archive' = [f \in File |-> IF f \in Writes(e) THEN v ELSE archive[f]]
        BY <3>1 DEF Export
      <3>3. \A f \in File : archive[f] # Absent => archive'[f] # Absent
        BY <3>2 DEF Absent
      <3>4. (papers => papers') /\ UNCHANGED <<pc, inside, final>>
        BY <3>1 DEF Export
      <3> QED  BY <2>2, <3>3, <3>4 DEF PapersInvariant, ReadyMeansReports
    <2>4. CASE \E e \in Exporter : \E f \in Writes(e) : ExportDies(e, f)
      <3>1. PICK e \in Exporter : \E f \in Writes(e) : ExportDies(e, f)
        BY <2>4
      <3>2. PICK f \in Writes(e) : ExportDies(e, f)
        BY <3>1
      <3>3. /\ archive' = [archive EXCEPT ![f] = Torn]
            /\ papers => papers'
            /\ UNCHANGED <<pc, inside, final>>
        BY <3>2 DEF ExportDies
      <3>4. \A g \in File : archive[g] # Absent => archive'[g] # Absent
        BY <2>1, <3>3 DEF Absent, Torn
      <3> QED  BY <2>2, <3>3, <3>4 DEF PapersInvariant, ReadyMeansReports
    <2>5. CASE Begin
      BY <2>5 DEF Begin, PapersInvariant, ReadyMeansReports
    <2>6. CASE TakeStep
      <3>1. pc \in DOMAIN Steps
        BY <2>6 DEF TakeStep
      <3>2. pc # 0
        BY <3>1, StepsNumbered
      <3> QED  BY <2>6, <3>2 DEF TakeStep, PapersInvariant, ReadyMeansReports
    <2>7. CASE BuildDies
      BY <2>7 DEF BuildDies, PapersInvariant, ReadyMeansReports
    <2>8. CASE Finish
      <3>1. /\ pc' = 0 /\ (inside => papers) /\ UNCHANGED archive
            /\ final'.ready = ReadyForStageF /\ final'.inside = inside
        BY <2>1, <2>8 DEF Finish, PapersInvariant
      <3> QED  BY <3>1 DEF ReadyForStageF, PapersMissing, PapersInvariant, ReadyMeansReports
    <2>9. CASE UNCHANGED vars
      BY <2>9 DEF vars, PapersInvariant, ReadyMeansReports
    <2> QED  BY <2>3, <2>4, <2>5, <2>6, <2>7, <2>8, <2>9 DEF PackageNext
  <1>3. Inv => ReadyMeansReports
    BY DEF PapersInvariant
  <1> QED  BY <1>1, <1>2, <1>3, PackageInitHolds, PackageStep, PTL DEF PackageSpec

\* While nothing is exported a build reads an archive that stands still: every asset it
\* has frozen, in either pack, is what the archive holds now, and it could be parsed.
Assets == {Steps[i].asset : i \in DOMAIN Steps}
ReadingInvariant ==
    /\ DOMAIN frozen = {"main", "appendix"}
    /\ \A p \in {"main", "appendix"} : DOMAIN frozen[p] = Assets
    /\ quiet => \A i \in DOMAIN Steps :
          i < pc => /\ frozen[Steps[i].pack][Steps[i].asset] = Reading(Steps[i])
                    /\ Parsable(Steps[i])

LEMMA ReadingInit == PackageInit => ReadingInvariant
  <1> SUFFICES ASSUME PackageInit PROVE ReadingInvariant
    OBVIOUS
  <1>1. pc = 0 /\ frozen = Unread
    BY DEF PackageInit
  <1>2. \A i \in DOMAIN Steps : ~(i < pc)
    BY <1>1, StepsNumbered
  <1>3. DOMAIN frozen = {"main", "appendix"} /\ \A p \in {"main", "appendix"} : DOMAIN frozen[p] = Assets
    BY <1>1 DEF Unread, Assets
  <1> QED  BY <1>2, <1>3 DEF ReadingInvariant

LEMMA ReadingStep ==
  PackageInvariant /\ ReadingInvariant /\ [PackageNext]_vars => ReadingInvariant'
  <1> SUFFICES ASSUME PackageInvariant, ReadingInvariant, [PackageNext]_vars
               PROVE  ReadingInvariant'
    OBVIOUS
  <1>1. CASE \E e \in Exporter : Export(e)
    <2>1. ~quiet' /\ frozen' = frozen
      BY <1>1 DEF Export
    <2> QED  BY <2>1 DEF ReadingInvariant
  <1>2. CASE \E e \in Exporter : \E f \in Writes(e) : ExportDies(e, f)
    <2>1. ~quiet' /\ frozen' = frozen
      BY <1>2 DEF ExportDies
    <2> QED  BY <2>1 DEF ReadingInvariant
  <1>3. CASE Begin
    <2>1. pc' = 1 /\ frozen' = Unread
      BY <1>3 DEF Begin
    <2>2. \A i \in DOMAIN Steps : ~(i < pc')
      BY <2>1, StepsNumbered
    <2>3. /\ DOMAIN frozen' = {"main", "appendix"}
          /\ \A p \in {"main", "appendix"} : DOMAIN frozen'[p] = Assets
      BY <2>1 DEF Unread, Assets
    <2> QED  BY <2>2, <2>3 DEF ReadingInvariant
  <1>4. CASE TakeStep
    <2> DEFINE p == Steps[pc].pack
               a == Steps[pc].asset
               r == Reading(Steps[pc])
    <2>1. /\ pc \in DOMAIN Steps /\ pc' = pc + 1 /\ archive' = archive /\ quiet' = quiet
          /\ frozen' = [frozen EXCEPT ![p][a] = r]
      BY <1>4 DEF TakeStep
    <2>2. \A i \in DOMAIN Steps : Steps[i].pack \in {"main", "appendix"} /\ Steps[i].asset \in Assets
      BY StepsPacks DEF Assets
    <2>3. p \in {"main", "appendix"} /\ a \in Assets
      BY <2>1, <2>2
    <2>4. \A i \in DOMAIN Steps : /\ Reading(Steps[i])' = Reading(Steps[i])
                                  /\ Parsable(Steps[i])' <=> Parsable(Steps[i])
      BY <2>1 DEF Reading, Parsable
    <2>5. ASSUME NEW i \in DOMAIN Steps, NEW k \in DOMAIN Steps, Steps[i].asset = Steps[k].asset
          PROVE  Reading(Steps[i]) = Reading(Steps[k])
      BY <2>5 DEF Reading
    <2> HIDE DEF p, a, r
    <2>6. /\ DOMAIN frozen' = {"main", "appendix"}
          /\ \A q \in {"main", "appendix"} : DOMAIN frozen'[q] = Assets
          /\ frozen'[p][a] = r
          /\ \A q \in {"main", "appendix"}, b \in Assets :
                q # p \/ b # a => frozen'[q][b] = frozen[q][b]
      BY <2>1, <2>3 DEF ReadingInvariant
    <2>7. ASSUME quiet, NEW i \in DOMAIN Steps, i < pc'
          PROVE  frozen'[Steps[i].pack][Steps[i].asset] = Reading(Steps[i])
      <3>1. i < pc \/ i = pc
        <4>1. i \in Nat /\ pc \in Nat
          BY <2>1, StepsNumbered
        <4>2. pc' = pc + 1 /\ i < pc'
          BY <2>1, <2>7
        <4> QED  BY <4>1, <4>2
      <3>2. CASE Steps[i].pack = p /\ Steps[i].asset = a
        <4>1. Reading(Steps[i]) = r
          BY <2>1, <2>5, <3>2 DEF a, r
        <4> QED  BY <3>2, <2>6, <4>1
      <3>3. CASE ~(Steps[i].pack = p /\ Steps[i].asset = a)
        <4>1. i < pc
          BY <3>1, <3>3 DEF p, a
        <4>2. frozen[Steps[i].pack][Steps[i].asset] = Reading(Steps[i])
          BY <2>7, <4>1 DEF ReadingInvariant
        <4> QED  BY <3>3, <2>2, <2>6, <4>2
      <3> QED  BY <3>2, <3>3
    <2>8. ASSUME quiet, NEW i \in DOMAIN Steps, i < pc'
          PROVE  Parsable(Steps[i])
      <3>1. Parsable(Steps[pc])
        BY <1>4 DEF TakeStep
      <3>2. i < pc \/ i = pc
        <4>1. i \in Nat /\ pc \in Nat
          BY <2>1, StepsNumbered
        <4>2. pc' = pc + 1 /\ i < pc'
          BY <2>1, <2>8
        <4> QED  BY <4>1, <4>2
      <3> QED  BY <3>1, <3>2, <2>8 DEF ReadingInvariant
    <2> QED  BY <2>1, <2>4, <2>6, <2>7, <2>8 DEF ReadingInvariant
  <1>5. CASE BuildDies \/ Finish
    <2>1. pc' = 0 /\ frozen' = frozen
      BY <1>5 DEF BuildDies, Finish
    <2>2. \A i \in DOMAIN Steps : ~(i < pc')
      BY <2>1, StepsNumbered
    <2> QED  BY <2>1, <2>2 DEF ReadingInvariant
  <1>6. CASE UNCHANGED vars
    BY <1>6 DEF vars, ReadingInvariant, Reading, Parsable
  <1> QED  BY <1>1, <1>2, <1>3, <1>4, <1>5, <1>6 DEF PackageNext

LEMMA ReadingAgrees == ReadingInvariant => AppendixAgrees
  <1> SUFFICES ASSUME ReadingInvariant, pc = Close, quiet,
                      NEW a \in {"figures"} \cup ToSet(Tables)
               PROVE  frozen["main"][a] = frozen["appendix"][a]
    BY DEF AppendixAgrees
  <1>1. PICK i \in DOMAIN Steps : Steps[i].pack = "main" /\ Steps[i].asset = a
    BY StepsSequence DEF Freezes
  <1>2. PICK j \in DOMAIN Steps : Steps[j].pack = "appendix" /\ Steps[j].asset = a
    BY StepsSequence DEF Freezes
  <1>3. i < pc /\ j < pc
    BY StepsNumbered
  <1>4. /\ frozen["main"][a] = Reading(Steps[i])
        /\ frozen["appendix"][a] = Reading(Steps[j])
    BY <1>1, <1>2, <1>3 DEF ReadingInvariant
  <1>5. Reading(Steps[i]) = Reading(Steps[j])
    BY <1>1, <1>2 DEF Reading
  <1> QED  BY <1>4, <1>5

\* However builds, exports and failures interleave: a build during which nothing was
\* exported has frozen the same evidence in its main part and in its appendix.
THEOREM AppendixCorrect == PackageSpec => []AppendixAgrees
  BY ReadingInit, ReadingStep, ReadingAgrees, PackageInitHolds, PackageStep, PTL DEF PackageSpec

\* What a bundle was computed from is known, and what it was computed from has the modes
\* the exporter reads: a world-model bundle that can be parsed was written by an export.
Known == 1 .. 2
EvidenceInvariant ==
    /\ DOMAIN input = Known /\ \A v \in Known : input[v] \in DOMAIN Measured
    /\ \A b \in Benchmarks : archive[WorldPath(b)] \in Known =>
          WorldBundle(Evidence(archive[WorldPath(b)]).suite,
                      Evidence(archive[WorldPath(b)]).base) # NoBundle

\* Only the exporter of a benchmark writes its world-model bundle.
LEMMA WorldWriter ==
  ASSUME NEW e \in Exporter, NEW b \in Benchmarks, WorldPath(b) \in Writes(e)
  PROVE  e = WorldPath(b) /\ e[1] = "world"
  <1>1. e[1] # "chapter" /\ e[1] # "memory_package"
    BY DEF Writes, WorldPath
  <1>2. Writes(e) = {e}
    BY <1>1 DEF Writes
  <1> QED  BY <1>2 DEF WorldPath

LEMMA WorldFile == ASSUME NEW b \in Benchmarks PROVE WorldPath(b) \in File
  BY DEF WorldPath, File, Exporter

LEMMA EvidenceInit == PackageInit => EvidenceInvariant
  <1> SUFFICES ASSUME PackageInit PROVE EvidenceInvariant
    OBVIOUS
  <1>1. PICK h \in Histories :
          /\ input = <<h.measured, Remeasured>>
          /\ archive = [f \in File |-> IF \E e \in h.ran : f \in Writes(e) /\ Exports(e, Measured[h.measured])
                                      THEN 1 ELSE Absent]
    BY DEF PackageInit
  <1>2. h.measured \in DOMAIN Measured /\ h.ran \subseteq Exporter /\ Remeasured \in DOMAIN Measured
    BY PackageAssumption
  <1>3. DOMAIN input = Known /\ input[1] = h.measured /\ input[2] = Remeasured
    BY <1>1 DEF Known
  <1>4. \A v \in Known : input[v] \in DOMAIN Measured
    BY <1>2, <1>3 DEF Known
  <1>5. ASSUME NEW b \in Benchmarks, archive[WorldPath(b)] \in Known
        PROVE  WorldBundle(Evidence(archive[WorldPath(b)]).suite,
                           Evidence(archive[WorldPath(b)]).base) # NoBundle
    <2>1. WorldPath(b) \in File
      BY WorldFile
    <2>2. Absent \notin Known
      BY DEF Absent, Known
    <2>3. /\ archive[WorldPath(b)] = 1
          /\ \E e \in h.ran : WorldPath(b) \in Writes(e) /\ Exports(e, Measured[h.measured])
      BY <1>1, <1>5, <2>1, <2>2
    <2>4. PICK e \in h.ran : WorldPath(b) \in Writes(e) /\ Exports(e, Measured[h.measured])
      BY <2>3
    <2>5. e \in Exporter
      BY <1>2
    <2>6. e[1] = "world"
      BY <2>4, <2>5, WorldWriter
    <2>7. WorldBundle(Measured[h.measured].suite, Measured[h.measured].base) # NoBundle
      BY <2>4, <2>6 DEF Exports
    <2> QED  BY <1>3, <2>3, <2>7 DEF Evidence
  <1> QED  BY <1>3, <1>4, <1>5 DEF EvidenceInvariant

LEMMA EvidenceStep ==
  PackageInvariant /\ EvidenceInvariant /\ [PackageNext]_vars => EvidenceInvariant'
  <1> SUFFICES ASSUME PackageInvariant, EvidenceInvariant, [PackageNext]_vars
               PROVE  EvidenceInvariant'
    OBVIOUS
  <1>1. archive \in [File -> {Absent, Torn, 1, 2}]
    BY DEF PackageInvariant, PackageTypes
  <1>2. CASE \E e \in Exporter : Export(e)
    <2>1. PICK e \in Exporter : Export(e)
      BY <1>2
    <2>2. PICK v \in Known : /\ Exports(e, Evidence(v))
                            /\ archive' = [f \in File |-> IF f \in Writes(e) THEN v ELSE archive[f]]
      BY <2>1 DEF Export, Known
    <2>3. input' = input
      BY <2>1 DEF Export
    <2>4. ASSUME NEW b \in Benchmarks, archive'[WorldPath(b)] \in Known
          PROVE  WorldBundle(Evidence(archive'[WorldPath(b)]).suite,
                             Evidence(archive'[WorldPath(b)]).base) # NoBundle
      <3>1. WorldPath(b) \in File
        BY WorldFile
      <3>2. CASE WorldPath(b) \in Writes(e)
        <4>1. e[1] = "world"
          BY <3>2, WorldWriter
        <4>2. archive'[WorldPath(b)] = v
          BY <2>2, <3>1, <3>2
        <4> QED  BY <2>2, <4>1, <4>2 DEF Exports
      <3>3. CASE WorldPath(b) \notin Writes(e)
        <4>1. archive'[WorldPath(b)] = archive[WorldPath(b)]
          BY <2>2, <3>1, <3>3
        <4> QED  BY <2>4, <4>1 DEF EvidenceInvariant
      <3> QED  BY <3>2, <3>3
    <2> QED  BY <2>3, <2>4 DEF EvidenceInvariant, Evidence
  <1>3. CASE \E e \in Exporter : \E f \in Writes(e) : ExportDies(e, f)
    <2>1. PICK e \in Exporter : \E f \in Writes(e) : ExportDies(e, f)
      BY <1>3
    <2>2. PICK f \in Writes(e) : ExportDies(e, f)
      BY <2>1
    <2>3. input' = input /\ archive' = [archive EXCEPT ![f] = Torn]
      BY <2>2 DEF ExportDies
    <2>4. \A b \in Benchmarks : archive'[WorldPath(b)] \in Known =>
              archive'[WorldPath(b)] = archive[WorldPath(b)]
      BY <1>1, <2>3, WorldFile DEF Torn, Known
    <2> QED  BY <2>3, <2>4 DEF EvidenceInvariant, Evidence
  <1>4. CASE Begin \/ TakeStep \/ BuildDies \/ Finish \/ UNCHANGED vars
    <2>1. input' = input /\ archive' = archive
      BY <1>4 DEF Begin, TakeStep, BuildDies, Finish, vars
    <2> QED  BY <2>1 DEF EvidenceInvariant, Evidence
  <1> QED  BY <1>2, <1>3, <1>4 DEF PackageNext

\* A world-model bundle says of the calls what its budget rows show.
LEMMA BundleReduces ==
  ASSUME NEW s, NEW base, WorldBundle(s, base) # NoBundle
  PROVE  WorldBundle(s, base).summary.reduces_simulations
            <=> BudgetRows(base)["full_system"].calls
                   < BudgetRows(base)["no_world_model_baseline"].calls
  <1>1. WorldBundle(s, base).summary = WorldSummary(s, base)
    BY DEF WorldBundle
  <1>2. WorldSummary(s, base).reduces_simulations
           <=> base["full_system"].calls < base["no_world_model_baseline"].calls
    BY DEF WorldSummary, FewerCalls
  <1>3. /\ BudgetRows(base)["full_system"].calls = base["full_system"].calls
        /\ BudgetRows(base)["no_world_model_baseline"].calls = base["no_world_model_baseline"].calls
    BY DEF BudgetRows, Budgeted
  <1> QED  BY <1>1, <1>2, <1>3

LEMMA TablesHold ==
  PackageInvariant /\ ReadingInvariant /\ EvidenceInvariant => TablesAgree
  <1> SUFFICES ASSUME PackageInvariant, ReadingInvariant, EvidenceInvariant, pc = Close, quiet,
                      NEW b \in Benchmarks,
                      frozen["main"]["baseline"][WorldPath(b)] # Absent
               PROVE  LET read == frozen["main"]["baseline"][WorldPath(b)]
                          rows == BudgetShown(b, read)
                      IN  ReducesShown(b, frozen["main"]["world"][WorldPath(b)])
                          <=> rows["full_system"].calls < rows["no_world_model_baseline"].calls
    BY DEF TablesAgree
  <1>1. {"baseline", "world"} \subseteq ToSet(Tables)
    <2>1. Tables[1] = "baseline" /\ Tables[2] = "world"
      BY DEF Tables
    <2> QED  BY <2>1, TablesOK DEF ToSet
  <1>2. PICK i \in DOMAIN Steps : Steps[i].pack = "main" /\ Steps[i].asset = "baseline"
    BY <1>1, StepsSequence DEF Freezes
  <1>3. PICK j \in DOMAIN Steps : Steps[j].pack = "main" /\ Steps[j].asset = "world"
    BY <1>1, StepsSequence DEF Freezes
  <1>4. i < pc /\ j < pc
    BY StepsNumbered
  <1>5. /\ frozen["main"]["baseline"] = Reading(Steps[i]) /\ Parsable(Steps[i])
        /\ frozen["main"]["world"] = Reading(Steps[j])
    BY <1>2, <1>3, <1>4 DEF ReadingInvariant
  <1>6. WorldPath(b) \in Reads("baseline") /\ WorldPath(b) \in Reads("world")
    BY DEF Reads
  <1>7. WorldPath(b) \in Parses("baseline")
    BY <1>1, <1>6 DEF Parses
  <1> DEFINE v == archive[WorldPath(b)]
  <1>8. /\ frozen["main"]["baseline"][WorldPath(b)] = v
        /\ frozen["main"]["world"][WorldPath(b)] = v
    BY <1>2, <1>3, <1>5, <1>6 DEF Reading
  <1>9. v # Torn
    BY <1>2, <1>5, <1>7 DEF Parsable
  <1>10. v \in Known /\ v # Absent
    <2>1. v \in {Absent, Torn, 1, 2}
      BY WorldFile DEF PackageInvariant, PackageTypes
    <2> QED  BY <2>1, <1>8, <1>9 DEF Known
  <1>11. WorldBundle(Evidence(v).suite, Evidence(v).base) # NoBundle
    BY <1>10 DEF EvidenceInvariant
  <1> HIDE DEF v
  <1>12. /\ BudgetShown(b, v) = BudgetRows(Evidence(v).base)
         /\ ReducesShown(b, v)
               <=> WorldBundle(Evidence(v).suite, Evidence(v).base).summary.reduces_simulations
    BY <1>10 DEF BudgetShown, ReducesShown
  <1> QED  BY <1>8, <1>11, <1>12, BundleReduces

LEMMA BoundaryHolds == BoundaryAgreesWithReports
  <1> SUFFICES ASSUME NEW v \in Shown, NEW b \in DOMAIN Evidence(v).contract
               PROVE  LET d == Evidence(v).contract[b]
                          rows == ReportRows(Evidence(v).contract)
                      IN  /\ BoundaryProfile(d) = "single_point_nominal" <=>
                                 rows.robustness[b] = "nominal_only_contract"
                          /\ rows.family[d.family].truths = {"demonstrator_truth"} =>
                                 rows.robustness[b] # "configured_robustness_candidate"
                          /\ rows.fidelity[b] = "configured_robustness_candidate" =>
                                 ClaimTier(d) = "configured_truth_candidate"
    BY DEF BoundaryAgreesWithReports
  <1> DEFINE ds == Evidence(v).contract
             d == ds[b]
  <1> HIDE DEF ds
  <1>0. b \in DOMAIN ds
    BY DEF ds
  <1>1. /\ ReportRows(ds).robustness[b] = RobustnessClaim(d)
        /\ ReportRows(ds).fidelity[b] = NominalProfile(d)
    BY <1>0 DEF ReportRows, RobustnessRows, FidelityRows
  <1>2. ReportRows(ds).family[d.family].truths
          = {ds[k].truth : k \in {x \in DOMAIN ds : ds[x].family = d.family}}
    BY <1>0 DEF ReportRows, FamilyRows
  <1>3. d.truth \in {ds[k].truth : k \in {x \in DOMAIN ds : ds[x].family = d.family}}
    BY <1>0
  <1> HIDE DEF d
  <1>4. BoundaryProfile(d) = "single_point_nominal" <=> RobustnessClaim(d) = "nominal_only_contract"
    BY DEF BoundaryProfile, RobustnessClaim, NominalProfile
  <1>5. RobustnessClaim(d) = "configured_robustness_candidate" => d.truth = "configured_truth"
    BY DEF RobustnessClaim, NominalProfile
  <1>6. NominalProfile(d) = "configured_robustness_candidate" =>
           ClaimTier(d) = "configured_truth_candidate"
    BY DEF NominalProfile, ClaimTier
  <1>7. ReportRows(ds).family[d.family].truths = {"demonstrator_truth"} =>
           RobustnessClaim(d) # "configured_robustness_candidate"
    BY <1>2, <1>3, <1>5
  <1> QED  BY <1>1, <1>4, <1>6, <1>7 DEF ds, d

\* However builds, exports and failures interleave: in a build during which nothing was
\* exported the appendix repeats the evidence of the main part and the verdict about
\* simulations is the one the printed counts support; and the boundary bundle and the
\* reports never word a benchmark's conditions in contradiction.
THEOREM CopiesCorrect == PackageSpec => []CopiesAgree
  <1> DEFINE Inv == PackageInvariant /\ ReadingInvariant /\ EvidenceInvariant
  <1>1. Inv => CopiesAgree
    BY ReadingAgrees, TablesHold, BoundaryHolds DEF CopiesAgree
  <1> QED  BY <1>1, ReadingInit, ReadingStep, EvidenceInit, EvidenceStep, PackageInitHolds,
              PackageStep, PTL DEF PackageSpec

\* The points under a graph are finitely many when the domain is finite, so that sums are
\* compared as the sets of points are.
LEMMA PointsFinite ==
  ASSUME NEW f, IsFiniteSet(DOMAIN f), \A x \in DOMAIN f : f[x] \in Nat
  PROVE  IsFiniteSet(Points(f)) /\ Total(f) \in Nat
  <1> DEFINE column == [x \in DOMAIN f |-> {x} \X (1 .. f[x])]
             columns == {{x} \X (1 .. f[x]) : x \in DOMAIN f}
  <1>1. column \in Surjection(DOMAIN f, columns)
    BY DEF Surjection
  <1>2. IsFiniteSet(columns)
    BY <1>1, FS_Surjection DEF ExistsSurjection
  <1>3. ASSUME NEW C \in columns PROVE IsFiniteSet(C)
    <2>1. PICK x \in DOMAIN f : C = {x} \X (1 .. f[x])
      BY <1>3
    <2>2. IsFiniteSet({x})
      BY FS_Singleton
    <2>3. IsFiniteSet(1 .. f[x])
      <3>1. f[x] \in Int /\ 1 \in Int
        OBVIOUS
      <3> QED  BY <3>1, FS_Interval
    <2> HIDE DEF columns, column
    <2> QED  BY <2>1, <2>2, <2>3, FS_Product
  <1>4. Points(f) = UNION columns
    BY DEF Points
  <1> HIDE DEF columns, column
  <1>5. IsFiniteSet(Points(f))
    BY <1>2, <1>3, <1>4, FS_UNION
  <1> QED  BY <1>5, FS_CardinalityType DEF Total

LEMMA TotalMonotone ==
  ASSUME NEW f, NEW g, IsFiniteSet(DOMAIN g),
         \A x \in DOMAIN f : f[x] \in Nat, \A x \in DOMAIN g : g[x] \in Nat,
         \A x \in DOMAIN f : f[x] > 0 => x \in DOMAIN g /\ f[x] <= g[x]
  PROVE  Total(f) \in Nat /\ Total(g) \in Nat /\ Total(f) <= Total(g)
  <1>1. ASSUME NEW z \in Points(f) PROVE z \in Points(g)
    <2>1. PICK x \in DOMAIN f : z \in {x} \X (1 .. f[x])
      BY <1>1 DEF Points
    <2>2. PICK i \in 1 .. f[x] : z = <<x, i>>
      BY <2>1
    <2>3. f[x] \in Nat /\ i \in Nat /\ 1 <= i /\ i <= f[x]
      BY <2>2
    <2>4. x \in DOMAIN g /\ f[x] <= g[x]
      BY <2>3
    <2>5. i \in 1 .. g[x]
      BY <2>3, <2>4
    <2> QED  BY <2>2, <2>4, <2>5 DEF Points
  <1>2. IsFiniteSet(Points(g)) /\ Total(g) \in Nat
    BY PointsFinite
  <1>3. IsFiniteSet(Points(f)) /\ Cardinality(Points(f)) <= Cardinality(Points(g))
    <2>1. Points(f) \in SUBSET Points(g)
      BY <1>1
    <2> QED  BY <1>2, <2>1, FS_Subset
  <1> QED  BY <1>2, <1>3, FS_CardinalityType DEF Total

LEMMA TotalAtLeast ==
  ASSUME NEW f, IsFiniteSet(DOMAIN f), \A y \in DOMAIN f : f[y] \in Nat,
         NEW x \in DOMAIN f
  PROVE  f[x] <= Total(f)
  <1> DEFINE g == [y \in {x} |-> f[x]]
  <1>1. Total(g) <= Total(f)
    <2>1. /\ \A y \in DOMAIN g : g[y] \in Nat
          /\ \A y \in DOMAIN g : g[y] > 0 => y \in DOMAIN f /\ g[y] <= f[y]
      OBVIOUS
    <2> HIDE DEF g
    <2> QED  BY <2>1, TotalMonotone
  <1>2. Points(g) = {x} \X (1 .. f[x])
    BY DEF Points
  <1>3. Cardinality({x} \X (1 .. f[x])) = f[x]
    <2>1. IsFiniteSet({x}) /\ Cardinality({x}) = 1
      BY FS_Singleton
    <2>2. IsFiniteSet(1 .. f[x]) /\ Cardinality(1 .. f[x]) = f[x]
      <3>1. f[x] \in Nat /\ f[x] \in Int /\ 1 \in Int
        OBVIOUS
      <3> QED  BY <3>1, FS_Interval
    <2>3. Cardinality({x} \X (1 .. f[x])) = Cardinality({x}) * Cardinality(1 .. f[x])
      BY <2>1, <2>2, FS_Product, Zenon
    <2>4. Cardinality({x} \X (1 .. f[x])) = 1 * f[x]
      BY <2>1, <2>2, <2>3, Zenon
    <2> QED  BY <2>4
  <1> QED  BY <1>1, <1>2, <1>3 DEF Total

\* What the steps of the appendix end with: the support of the archive is read.
LEMMA StepsSupport == Freezes(Steps, "appendix", "support")
  <1> DEFINE rest == <<S("main", "boundary", "physical")>> \o Freeze("main", "figures", "tables")
                        \o Freeze("appendix", "", "")
  <1>1. rest \in Seq(StepRecord) /\ FromSupport \in Seq(StepRecord)
    BY StepsPieces
  <1>2. Steps = rest \o FromSupport
    BY DEF Steps
  <1>3. /\ 1 \in DOMAIN FromSupport /\ FromSupport[1].pack = "appendix"
        /\ FromSupport[1].asset = "support"
    BY DEF FromSupport, S
  <1> HIDE DEF rest
  <1>4. /\ Len(rest) + 1 \in DOMAIN (rest \o FromSupport)
        /\ (rest \o FromSupport)[Len(rest) + 1] = FromSupport[1]
    BY <1>1, <1>3, ConcatRight
  <1> QED  BY <1>2, <1>3, <1>4 DEF Freezes

\* A file that is in the archive when the build began was not made up.
LEMMA SourcesNotFabricated ==
  ASSUME ReadingInvariant, pc = Close, quiet, NEW f, archive[f] # Absent
  PROVE  f \notin FabricatedFiles
  <1> SUFFICES ASSUME f \in FabricatedFiles PROVE FALSE
    OBVIOUS
  <1>1. PICK a \in {"figures"} \cup ToSet(Tables) : f \in Fabricated(frozen["main"][a])
    BY DEF FabricatedFiles
  <1>2. PICK i \in DOMAIN Steps : Steps[i].pack = "main" /\ Steps[i].asset = a
    BY StepsSequence DEF Freezes
  <1>3. frozen["main"][a] = Reading(Steps[i])
    BY <1>2, StepsNumbered DEF ReadingInvariant
  <1>4. f \in DOMAIN frozen["main"][a] /\ frozen["main"][a][f] = Absent
    BY <1>1 DEF Fabricated
  <1>5. archive[f] = Absent
    BY <1>3, <1>4 DEF Reading
  <1> QED  BY <1>5

\* What the manuscript and the experiments ask for is what the package freezes.
LEMMA AssetsListed == UNION (Range(Manuscript) \cup Range(Subsections)) = DOMAIN AssetSource
  <1> DEFINE figures == {"fig1_system_architecture", "fig2_ota_acceptance_trace",
                         "fig3a_world_model_prediction_gap", "fig3b_world_model_simulation_calls",
                         "fig4a_planner_topk_efficiency", "fig4b_planner_failure_pressure",
                         "fig5a_memory_repeated_episode_calls", "fig5b_memory_same_family_transfer",
                         "fig6_memory_cross_family_governance"}
             tables == {"tbl1_benchmark_summary", "tbl2_system_baseline_summary",
                        "tbl3_world_model_summary", "tbl4_planner_summary",
                        "tbl5_memory_repeated_summary", "tbl6_memory_transfer_summary"}
  <1>1. DOMAIN FigureSource = figures /\ DOMAIN TableSource = tables
    BY DEF FigureSource, TableSource
  <1>2. DOMAIN AssetSource = figures \cup tables
    BY <1>1 DEF AssetSource, Joined
  <1>3. /\ {"sec3", "sec5", "sec6", "sec7", "sec8"} = DOMAIN Manuscript
        /\ Manuscript["sec3"] = {"fig1_system_architecture"}
        /\ Manuscript["sec5"] = {"tbl1_benchmark_summary"}
        /\ Manuscript["sec6"] = {"tbl2_system_baseline_summary", "tbl3_world_model_summary",
                                "tbl4_planner_summary"}
        /\ Manuscript["sec7"] = (DOMAIN FigureSource \ {"fig1_system_architecture",
                                                       "fig6_memory_cross_family_governance"})
              \cup {"tbl5_memory_repeated_summary", "tbl6_memory_transfer_summary"}
        /\ Manuscript["sec8"] = {"fig6_memory_cross_family_governance",
                                "tbl6_memory_transfer_summary"}
    BY DEF Manuscript
  <1>4. \A assets \in Range(Manuscript) : assets \subseteq figures \cup tables
    BY <1>1, <1>3 DEF Range
  <1>5. \A assets \in Range(Subsections) : assets \subseteq figures \cup tables
    BY DEF Subsections, Range
  <1>6. \A section \in DOMAIN Manuscript :
          Manuscript[section] \subseteq UNION (Range(Manuscript) \cup Range(Subsections))
    BY DEF Range
  <1>7. figures \cup tables \subseteq UNION {Manuscript[section] : section \in DOMAIN Manuscript}
    BY <1>1, <1>3
  <1> HIDE DEF figures, tables
  <1> QED  BY <1>2, <1>4, <1>5, <1>6, <1>7

LEMMA EnumeratedFinite ==
  ASSUME NEW a, NEW b, NEW c, NEW d, NEW e, NEW f, NEW g
  PROVE  IsFiniteSet({a, b, c, d, e, f, g}) /\ IsFiniteSet({a, b, c}) /\ IsFiniteSet({a, b})
  <1>1. IsFiniteSet({a})
    BY FS_Singleton
  <1>2. IsFiniteSet({a} \cup {b})
    BY <1>1, FS_AddElement
  <1>3. IsFiniteSet(({a} \cup {b}) \cup {c})
    BY <1>2, FS_AddElement
  <1>4. IsFiniteSet((({a} \cup {b}) \cup {c}) \cup {d})
    BY <1>3, FS_AddElement
  <1>5. IsFiniteSet(((({a} \cup {b}) \cup {c}) \cup {d}) \cup {e})
    BY <1>4, FS_AddElement
  <1>6. IsFiniteSet((((({a} \cup {b}) \cup {c}) \cup {d}) \cup {e}) \cup {f})
    BY <1>5, FS_AddElement
  <1>7. IsFiniteSet(((((({a} \cup {b}) \cup {c}) \cup {d}) \cup {e}) \cup {f}) \cup {g})
    BY <1>6, FS_AddElement
  <1>8. /\ {a, b} = {a} \cup {b}
        /\ {a, b, c} = ({a} \cup {b}) \cup {c}
        /\ {a, b, c, d, e, f, g} = ((((({a} \cup {b}) \cup {c}) \cup {d}) \cup {e}) \cup {f}) \cup {g}
    OBVIOUS
  <1> QED  BY <1>2, <1>3, <1>7, <1>8, Zenon

\* The figures and tables an export leaves for the appendix can be counted.
LEMMA FilesCounted ==
  ASSUME EvidenceInvariant, NEW f \in File
  PROVE  FigureFiles(f) \in Nat /\ TableFiles(f) \in Nat
  <1> DEFINE c == Evidence(1).chapter
  <1>1. IsChapter(c)
    BY PackageAssumption DEF EvidenceInvariant, Known, Evidence
  <1> HIDE DEF c
  <1>2. /\ IsFiniteSet(DOMAIN c.repeated) /\ IsFiniteSet(DOMAIN c.same \cup DOMAIN c.cross)
    BY <1>1, FS_Union DEF IsChapter
  <1>3. /\ IsFiniteSet(AblationFigures) /\ IsFiniteSet(AblationTables)
        /\ IsFiniteSet(PairBundleFigures) /\ IsFiniteSet(PairBundleTables)
    BY EnumeratedFinite
       DEF AblationFigures, AblationTables, PairBundleFigures, PairBundleTables
  <1>4. /\ IsFiniteSet(ChapterLayout(c).figures) /\ IsFiniteSet(ChapterLayout(c).tables)
    BY <1>2, <1>3, FS_Product, FS_Union DEF ChapterLayout
  <1>5. /\ Cardinality(ChapterLayout(c).figures) \in Nat
        /\ 2 * Cardinality(ChapterLayout(c).tables) \in Nat
    <2>1. /\ Cardinality(ChapterLayout(c).figures) \in Nat
          /\ Cardinality(ChapterLayout(c).tables) \in Nat
      BY <1>4, FS_CardinalityType
    <2> QED  BY <2>1
  <1> QED  BY <1>5 DEF FigureFiles, TableFiles, c

LEMMA FileFinite == IsFiniteSet(File)
  <1> DEFINE once == {"planner_ci", "chapter", "memory_package", "docs", "closure"}
             twice == {"world", "planner"}
  <1>1. IsFiniteSet(once) /\ IsFiniteSet(twice)
    <2>1. IsFiniteSet({"planner_ci", "chapter", "memory_package", "docs", "closure", "closure", "closure"})
      BY EnumeratedFinite
    <2>2. IsFiniteSet({"world", "planner"})
      BY EnumeratedFinite
    <2>3. once = {"planner_ci", "chapter", "memory_package", "docs", "closure", "closure", "closure"}
      OBVIOUS
    <2> QED  BY <2>1, <2>2, <2>3
  <1>2. IsFiniteSet(twice \X Benchmarks) /\ IsFiniteSet({"report"} \X Reports)
        /\ IsFiniteSet(once \X {Primary})
    <2>1. IsFiniteSet({"report"}) /\ IsFiniteSet({Primary})
      BY FS_Singleton
    <2> HIDE DEF once, twice
    <2> QED  BY <1>1, <2>1, FS_Product, PackageAssumption
  <1>3. IsFiniteSet({<<"memory", Primary>>, <<"layout", Primary>>})
    BY EnumeratedFinite
  <1> DEFINE all == (((twice \X Benchmarks) \cup ({"report"} \X Reports)) \cup (once \X {Primary}))
                      \cup {<<"memory", Primary>>, <<"layout", Primary>>}
  <1>4. IsFiniteSet(all)
    <2> DEFINE A == twice \X Benchmarks
               B == {"report"} \X Reports
               C == once \X {Primary}
               D == {<<"memory", Primary>>, <<"layout", Primary>>}
    <2>1. IsFiniteSet(A) /\ IsFiniteSet(B) /\ IsFiniteSet(C) /\ IsFiniteSet(D)
      BY <1>2, <1>3
    <2> HIDE DEF A, B, C, D
    <2>2. IsFiniteSet(A \cup B)
      BY <2>1, FS_Union
    <2>3. IsFiniteSet((A \cup B) \cup C)
      BY <2>1, <2>2, FS_Union
    <2>4. IsFiniteSet(((A \cup B) \cup C) \cup D)
      BY <2>1, <2>3, FS_Union
    <2> QED  BY <2>4 DEF A, B, C, D
  <1>5. File \in SUBSET all
    BY DEF File, Exporter
  <1> HIDE DEF all
  <1> QED  BY <1>4, <1>5, FS_Subset

\* One world-model bundle is enough support for the appendix.
LEMMA SupportEnough ==
  ASSUME EvidenceInvariant, NEW reading, Exported(reading) \subseteq File,
         WorldPath(Primary) \in Exported(reading)
  PROVE  ~AppendixPadded(reading)
  <1> DEFINE figures == [f \in Exported(reading) |-> FigureFiles(f)]
             tables == [f \in Exported(reading) |-> TableFiles(f)]
             w == WorldPath(Primary)
  <1>1. FigureFiles(w) = 6 /\ TableFiles(w) = 16
    BY DEF FigureFiles, TableFiles, WorldPath
  <1>2. IsFiniteSet(DOMAIN figures) /\ IsFiniteSet(DOMAIN tables)
    BY FileFinite, FS_Subset
  <1>3. /\ \A f \in DOMAIN figures : figures[f] \in Nat
        /\ \A f \in DOMAIN tables : tables[f] \in Nat
    BY FilesCounted
  <1>4. /\ w \in DOMAIN figures /\ figures[w] = 6
        /\ w \in DOMAIN tables /\ tables[w] = 16
    BY <1>1
  <1>5. AppendixPadded(reading) <=> Total(figures) < 6 \/ Total(tables) + 4 < 12
    BY DEF AppendixPadded, BoundaryFiles
  <1> HIDE DEF figures, tables, w
  <1>6. Total(figures) \in Nat /\ Total(tables) \in Nat
    BY <1>2, <1>3, PointsFinite
  <1>7. 6 <= Total(figures) /\ 16 <= Total(tables)
    <2>1. figures[w] <= Total(figures)
      BY <1>2, <1>3, <1>4, TotalAtLeast
    <2>2. tables[w] <= Total(tables)
      BY <1>2, <1>3, <1>4, TotalAtLeast
    <2> QED  BY <1>4, <2>1, <2>2
  <1> QED  BY <1>5, <1>6, <1>7

LEMMA NothingFabricatedHolds ==
  PackageInvariant /\ ReadingInvariant /\ EvidenceInvariant => NothingFabricated
  <1> SUFFICES ASSUME PackageInvariant, ReadingInvariant, EvidenceInvariant, pc = Close, quiet
               PROVE  /\ UNION (Range(Manuscript) \cup Range(Subsections)) = DOMAIN AssetSource
                      /\ \A assets \in Range(Subsections) :
                            LET sources == UNION {AssetSource[a] : a \in assets} IN
                            (\A f \in sources : archive[f] # Absent)
                                => sources \cap FabricatedFiles = {}
                      /\ (\A f \in UNION Range(AssetSource) : archive[f] # Absent) =>
                             ~AppendixPadded(frozen["appendix"]["support"])
    BY DEF NothingFabricated
  <1>1. ASSUME NEW sources, \A f \in sources : archive[f] # Absent
        PROVE  sources \cap FabricatedFiles = {}
    <2>1. ASSUME NEW f \in sources PROVE f \notin FabricatedFiles
      BY <1>1, SourcesNotFabricated
    <2> QED  BY <2>1
  <1>2. ASSUME \A f \in UNION Range(AssetSource) : archive[f] # Absent
        PROVE  ~AppendixPadded(frozen["appendix"]["support"])
    <2> DEFINE w == WorldPath(Primary)
               reading == frozen["appendix"]["support"]
    <2>1. w \in AssetSource["fig3a_world_model_prediction_gap"]
      BY DEF AssetSource, FigureSource, Joined, WorldPath
    <2>2. "fig3a_world_model_prediction_gap" \in DOMAIN AssetSource
      BY DEF AssetSource, FigureSource, Joined
    <2>3. archive[w] # Absent
      <3>1. AssetSource["fig3a_world_model_prediction_gap"] \in Range(AssetSource)
        BY <2>2 DEF Range
      <3> QED  BY <1>2, <2>1, <3>1
    <2>4. PICK i \in DOMAIN Steps : Steps[i].pack = "appendix" /\ Steps[i].asset = "support"
      BY StepsSupport DEF Freezes
    <2>5. reading = Reading(Steps[i])
      BY <2>4, StepsNumbered DEF ReadingInvariant
    <2>6. /\ Reads("support") \subseteq File /\ w \in Reads("support")
      BY WorldFile, PackageAssumption DEF Reads, Tables, ToSet, WorldPath
    <2>7. DOMAIN reading = Reads("support") /\ reading[w] = archive[w]
      BY <2>4, <2>5, <2>6 DEF Reading
    <2> HIDE DEF reading, w
    <2>8. Exported(reading) \subseteq File /\ w \in Exported(reading)
      BY <2>3, <2>6, <2>7 DEF Exported
    <2> QED  BY <2>8, SupportEnough DEF w, reading
  <1> QED  BY <1>1, <1>2, AssetsListed, Zenon

\* However builds, exports and failures interleave: a package built inside the root of the
\* papers that says it is ready has every report; and a build during which nothing was
\* exported puts nothing made up where the archive had the evidence.
THEOREM ReadinessCorrect == PackageSpec => []ReadinessSound
  <1> DEFINE Inv == PackageInvariant /\ ReadingInvariant /\ EvidenceInvariant
  <1>1. Inv => NothingFabricated
    BY NothingFabricatedHolds
  <1>2. ReadyMeansReports /\ NothingFabricated => ReadinessSound
    BY DEF ReadinessSound
  <1> QED  BY <1>1, <1>2, ReadyCorrect, ReadingInit, ReadingStep, EvidenceInit, EvidenceStep,
              PackageInitHolds, PackageStep, PTL DEF PackageSpec

\* What is claimed is computed from evidence that is of its type.
LEMMA ShownTyped ==
  ASSUME EvidenceInvariant, NEW v \in Shown
  PROVE  /\ \A m \in DOMAIN Evidence(v).suite : IsProfile(Evidence(v).suite[m])
         /\ \A m \in DOMAIN Evidence(v).base : IsProfile(Evidence(v).base[m])
         /\ IsChapter(Evidence(v).chapter)
  <1>1. v \in DOMAIN input
    BY DEF Shown
  <1>2. input[v] \in DOMAIN Measured
    BY <1>1 DEF EvidenceInvariant
  <1> QED  BY <1>2, PackageAssumption DEF Evidence

LEMMA PlannerClaimsHold ==
  ASSUME NEW s, HasComparison(s), \A m \in DOMAIN s : IsProfile(s[m])
  PROVE  LET c == PlannerSummary(s) IN
         /\ c.beats_top_k <=> c.reduces_simulations /\ c.preserves_hits
         /\ c.fidelity_effective => c.fidelity_reduces
         /\ c.phase_effective => c.phase_converges
         /\ c.replanning_effective => c.replanning_converges
         /\ c.rollout_effective <=> c.rollout_converges /\ c.rollout_preserves
  BY DEF PlannerSummary, Conclusions, NoDearerThan

LEMMA RolloutHolds ==
  ASSUME NEW s, HasComparison(s), \A m \in DOMAIN s : IsProfile(s[m])
  PROVE  LET c == PlannerSummary(s) IN
         c.rollout_real =>
            /\ c.rollout_status # "do_not_claim"
            /\ s["no_rollout_planning"].guided < s["full_system"].guided
            /\ c.rollout_status = "supported" =>
                   s["no_rollout_planning"].conv >= s["full_system"].conv
  BY DEF PlannerSummary, RolloutStatus, IsProfile

\* A smaller sum spread over no fewer metrics, at most three, has no larger mean.
LEMMA MeanMonotone ==
  ASSUME NEW x \in Nat, NEW y \in Nat, x <= y, NEW m \in 1 .. 3, NEW n \in 1 .. 3, m <= n
  PROVE  /\ (6 * x) \div n \in Nat /\ (6 * y) \div m \in Nat
         /\ (6 * x) \div n <= (6 * y) \div m
  <1>1. /\ (6 * x) \div 1 = 6 * x /\ (6 * x) \div 2 = 3 * x /\ (6 * x) \div 3 = 2 * x
        /\ (6 * y) \div 1 = 6 * y /\ (6 * y) \div 2 = 3 * y /\ (6 * y) \div 3 = 2 * y
    OBVIOUS
  <1>2. (m = 1 \/ m = 2 \/ m = 3) /\ (n = 1 \/ n = 2 \/ n = 3)
    OBVIOUS
  <1>3. CASE n = 1
    <2>1. m = 1
      BY <1>2, <1>3
    <2> QED  BY <1>1, <1>3, <2>1
  <1>4. CASE n = 2
    <2>1. m = 1 \/ m = 2
      BY <1>2, <1>4
    <2> QED  BY <1>1, <1>4, <2>1
  <1>5. CASE n = 3
    BY <1>1, <1>2, <1>5
  <1> QED  BY <1>2, <1>3, <1>4, <1>5

LEMMA RelevantBounded ==
  ASSUME NEW s, \A m \in DOMAIN s : IsProfile(s[m])
  PROVE  RelevantMetrics(s) \subseteq Metrics
  <1>1. UNION {DOMAIN s[m].gap : m \in MethodMode \cap DOMAIN s} \subseteq Metrics
    BY DEF IsProfile
  <1> QED  BY <1>1 DEF RelevantMetrics

\* The mean gap is no larger when no metric's gap is, and when it is taken over no fewer.
LEMMA AverageMonotone ==
  ASSUME NEW p, NEW q, IsProfile(p), IsProfile(q), NEW ms \in SUBSET Metrics,
         ms \cap DOMAIN p.gap \subseteq DOMAIN q.gap,
         \A k \in ms \cap DOMAIN q.gap : q.gap[k] <= ValueOr(p.gap, k, 0)
  PROVE  /\ AverageGap(q, ms) \in Nat /\ AverageGap(p, ms) \in Nat
         /\ AverageGap(q, ms) <= AverageGap(p, ms)
  <1> DEFINE K == ms \cap DOMAIN p.gap
             C == ms \cap DOMAIN q.gap
             f == [k \in C |-> q.gap[k]]
             g == [k \in K |-> p.gap[k]]
  <1>1. /\ AverageGap(q, ms) = IF C = {} THEN 0 ELSE (6 * Total(f)) \div Cardinality(C)
        /\ AverageGap(p, ms) = IF K = {} THEN 0 ELSE (6 * Total(g)) \div Cardinality(K)
    BY DEF AverageGap
  <1>2. K \subseteq C /\ C \subseteq Metrics
    OBVIOUS
  <1>3. /\ IsFiniteSet(C) /\ IsFiniteSet(K) /\ Cardinality(C) \in 0 .. 3
        /\ Cardinality(K) \in 0 .. 3 /\ Cardinality(K) <= Cardinality(C)
    <2>1. IsFiniteSet(Metrics) /\ Cardinality(Metrics) <= 3 /\ Cardinality(Metrics) \in Nat
      BY EvidenceAssumption, FS_CardinalityType
    <2> HIDE DEF K, C
    <2>2. IsFiniteSet(C) /\ Cardinality(C) <= Cardinality(Metrics)
      BY <1>2, <2>1, FS_Subset
    <2>3. IsFiniteSet(K) /\ Cardinality(K) <= Cardinality(C)
      BY <1>2, <2>2, FS_Subset
    <2>4. Cardinality(K) \in Nat /\ Cardinality(C) \in Nat
      BY <2>2, <2>3, FS_CardinalityType
    <2> QED  BY <2>1, <2>2, <2>3, <2>4
  <1>4. /\ \A k \in DOMAIN f : f[k] \in Nat
        /\ \A k \in DOMAIN g : g[k] \in Nat
    BY DEF IsProfile
  <1>5. ASSUME NEW k \in DOMAIN f, f[k] > 0
        PROVE  k \in DOMAIN g /\ f[k] <= g[k]
    <2>1. k \in ms \cap DOMAIN q.gap /\ f[k] = q.gap[k]
      OBVIOUS
    <2>2. f[k] <= ValueOr(p.gap, k, 0)
      BY <2>1
    <2>3. k \in DOMAIN p.gap
      BY <1>4, <1>5, <2>2 DEF ValueOr
    <2> QED  BY <2>1, <2>2, <2>3 DEF ValueOr
  <1>6. DOMAIN f = C /\ DOMAIN g = K
    OBVIOUS
  <1> HIDE DEF f, g, K, C
  <1>7. Total(f) \in Nat /\ Total(g) \in Nat /\ Total(f) <= Total(g)
    BY <1>3, <1>4, <1>5, <1>6, TotalMonotone
  <1>8. CASE C = {}
    BY <1>1, <1>2, <1>8
  <1>9. CASE C # {} /\ K = {}
    <2>1. Points(g) = {}
      BY <1>6, <1>9 DEF Points
    <2>2. Total(g) = 0
      BY <2>1, FS_EmptySet DEF Total
    <2>3. Total(f) = 0
      BY <1>7, <2>2
    <2>4. Cardinality(C) \in 1 .. 3
      BY <1>3, <1>9, FS_EmptySet
    <2>5. (6 * Total(f)) \div Cardinality(C) = 0
      BY <2>3, <2>4
    <2> QED  BY <1>1, <1>9, <2>5
  <1>10. CASE C # {} /\ K # {}
    <2>1. Cardinality(C) \in 1 .. 3 /\ Cardinality(K) \in 1 .. 3
      BY <1>3, <1>10, FS_EmptySet
    <2> QED  BY <1>1, <1>3, <1>7, <1>10, <2>1, MeanMonotone
  <1> QED  BY <1>8, <1>9, <1>10

\* What the world-model bundle says of calibration, of updates and of hits.
LEMMA WorldClaimsHold ==
  ASSUME NEW s, NEW base, WorldBundle(s, base) # NoBundle, \A m \in DOMAIN s : IsProfile(s[m])
  PROVE  LET c == WorldSummary(s, base)
             cold == s["no_calibration"].gap
             full == s["full_system"].gap IN
         /\ c.calibration_reduces_gap =>
               \/ \E k \in RelevantMetrics(s) \cap DOMAIN cold : cold[k] > ValueOr(full, k, 0)
               \/ (RelevantMetrics(s) \cap DOMAIN full) \ DOMAIN cold # {}
         /\ c.updates_observable => Deltas(s)["no_calibration"].updates > 0
         /\ c.ranking_hits <=> Deltas(s)["no_world_model"].hits >= 0
  <1> DEFINE ms == RelevantMetrics(s)
             cold == s["no_calibration"]
             full == s["full_system"]
             blind == s["no_world_model"]
  <1>1. {"full_system", "no_world_model", "no_calibration"} \subseteq MethodMode \cap DOMAIN s
    BY DEF WorldBundle, WorldEvidenceComplete, Methodology, MethodMode
  <1>2. IsProfile(full) /\ IsProfile(cold) /\ IsProfile(blind)
    BY <1>1
  <1>3. ms \in SUBSET Metrics
    BY RelevantBounded
  <1>4. WorldSummary(s, base).calibration_reduces_gap <=> AverageGap(full, ms) < AverageGap(cold, ms)
    BY DEF WorldSummary
  <1>5. /\ WorldSummary(s, base).updates_observable <=> full.updates > 0 /\ cold.updates = 0
        /\ WorldSummary(s, base).ranking_hits <=> full.hits >= blind.hits
    BY DEF WorldSummary
  <1>6. /\ Deltas(s)["no_calibration"].updates = full.updates - cold.updates
        /\ Deltas(s)["no_world_model"].hits = full.hits - blind.hits
    BY <1>1 DEF Deltas
  <1>7. /\ full.updates \in Nat /\ cold.updates \in Nat /\ full.hits \in 0..4 /\ blind.hits \in 0..4
        /\ \A k \in DOMAIN cold.gap : cold.gap[k] \in Nat
        /\ \A k \in DOMAIN full.gap : full.gap[k] \in Nat
    BY <1>2 DEF IsProfile
  <1> HIDE DEF ms, cold, full, blind
  <1>8. ASSUME AverageGap(full, ms) < AverageGap(cold, ms),
               ~ \E k \in ms \cap DOMAIN cold.gap : cold.gap[k] > ValueOr(full.gap, k, 0),
               (ms \cap DOMAIN full.gap) \ DOMAIN cold.gap = {}
        PROVE  FALSE
    <2>1. ASSUME NEW k \in ms \cap DOMAIN cold.gap
          PROVE  cold.gap[k] <= ValueOr(full.gap, k, 0)
      <3>1. cold.gap[k] \in Nat /\ ValueOr(full.gap, k, 0) \in Nat
        BY <1>7 DEF ValueOr
      <3>2. ~(cold.gap[k] > ValueOr(full.gap, k, 0))
        BY <1>8
      <3> QED  BY <3>1, <3>2
    <2>2. ms \cap DOMAIN full.gap \subseteq DOMAIN cold.gap
      BY <1>8
    <2>3. /\ AverageGap(cold, ms) \in Nat /\ AverageGap(full, ms) \in Nat
          /\ AverageGap(cold, ms) <= AverageGap(full, ms)
      BY <1>2, <1>3, <2>1, <2>2, AverageMonotone
    <2> QED  BY <1>8, <2>3
  <1>9. /\ WorldSummary(s, base).updates_observable => Deltas(s)["no_calibration"].updates > 0
        /\ WorldSummary(s, base).ranking_hits <=> Deltas(s)["no_world_model"].hits >= 0
    BY <1>5, <1>6, <1>7
  <1> QED  BY <1>4, <1>8, <1>9 DEF ms, cold, full

\* Every mode a world-model figure or table shows is one the bundle was computed from.
LEMMA WorldModesHold ==
  ASSUME NEW s, NEW base, WorldBundle(s, base) # NoBundle
  PROVE  LET bundle == WorldBundle(s, base)
         IN  \A shown \in Range(bundle.figures) \cup Range(bundle.tables) : shown \subseteq bundle.modes
  <1> DEFINE modes == DOMAIN s \cup DOMAIN base
  <1>1. /\ WorldBundle(s, base).modes = modes
        /\ WorldBundle(s, base).figures = Joined(BudgetFigures, UtilityFigures)
        /\ WorldBundle(s, base).tables = Joined(MethodTables(s), UtilityTables)
    BY DEF WorldBundle
  <1>2. Methodology \subseteq modes /\ Budgeted \subseteq modes /\ MethodMode \cap DOMAIN s \subseteq modes
    BY DEF WorldBundle, WorldEvidenceComplete
  <1>3. Calibrations \subseteq modes /\ Rankings \subseteq modes
    BY <1>2 DEF Methodology, Calibrations, Rankings
  <1> HIDE DEF modes
  <1>4. \A f \in DOMAIN BudgetFigures : BudgetFigures[f] \subseteq modes
    BY <1>2, <1>3 DEF BudgetFigures
  <1>5. \A f \in DOMAIN UtilityFigures : UtilityFigures[f] \subseteq modes
    BY <1>2, <1>3 DEF UtilityFigures
  <1>6. \A f \in DOMAIN MethodTables(s) : MethodTables(s)[f] \subseteq modes
    BY <1>2, <1>3 DEF MethodTables
  <1>7. \A f \in DOMAIN UtilityTables : UtilityTables[f] \subseteq modes
    BY <1>2, <1>3 DEF UtilityTables
  <1>8. \A shown \in Range(Joined(BudgetFigures, UtilityFigures)) : shown \subseteq modes
    BY <1>4, <1>5 DEF Joined, Range
  <1>9. \A shown \in Range(Joined(MethodTables(s), UtilityTables)) : shown \subseteq modes
    BY <1>6, <1>7 DEF Joined, Range
  <1> QED  BY <1>1, <1>8, <1>9

LEMMA SmallestExists ==
  ASSUME NEW T \in SUBSET Nat, T # {}
  PROVE  \E x \in T : \A y \in T : x <= y
  <1> DEFINE R == {ss \in Nat \X Nat : ss[1] < ss[2]}
  <1>1. IsWellFoundedOn(R, Nat)
    BY NatLessThanWellFounded DEF OpToRel
  <1> HIDE DEF R
  <1>2. PICK x \in T : \A y \in T : <<y, x>> \notin R
    BY <1>1, WFMin
  <1>3. ASSUME NEW y \in T PROVE x <= y
    <2>1. x \in Nat /\ y \in Nat /\ ~(y < x)
      BY <1>2 DEF R
    <2> QED  BY <2>1
  <1> QED  BY <1>3

\* The primary case shows as much harm as any.
LEMMA PrimaryWorst ==
  ASSUME NEW c, IsChapter(c), DOMAIN c.cross # {}
  PROVE  /\ PrimaryCase(c.cross) \in DOMAIN c.cross
         /\ \A p \in DOMAIN c.cross :
               /\ CaseScore(c.cross[p]) \in Int
               /\ CaseScore(c.cross[p]) <= CaseScore(c.cross[PrimaryCase(c.cross)])
  <1> DEFINE D == DOMAIN c.cross
             score(p) == CaseScore(c.cross[p])
             T == {12 - score(p) : p \in D}
  <1>1. ASSUME NEW p \in D PROVE score(p) \in Int /\ score(p) <= 12
    <2>1. /\ c.cross[p]["governed_transfer"].harm \in 0..4
          /\ c.cross[p]["no_governance"].harm \in 0..4
          /\ c.cross[p]["forced_transfer"].harm \in 0..4
      BY DEF IsChapter
    <2>2. score(p) = 2 * (c.cross[p]["forced_transfer"].harm - c.cross[p]["governed_transfer"].harm)
                       + c.cross[p]["no_governance"].harm
      BY DEF CaseScore
    <2> QED  BY <2>1, <2>2
  <1>2. PrimaryCase(c.cross) = CHOOSE p \in D : \A q \in D : score(q) <= score(p)
    BY DEF PrimaryCase
  <1> HIDE DEF score, D
  <1>3. T \in SUBSET Nat /\ T # {}
    BY <1>1 DEF D
  <1>4. PICK x \in T : \A y \in T : x <= y
    BY <1>3, SmallestExists
  <1>5. PICK p \in D : x = 12 - score(p)
    BY <1>4
  <1>6. ASSUME NEW q \in D PROVE score(q) <= score(p)
    <2>1. 12 - score(p) <= 12 - score(q)
      BY <1>4, <1>5
    <2> QED  BY <1>1, <2>1
  <1>7. /\ PrimaryCase(c.cross) \in D
        /\ \A q \in D : score(q) <= score(PrimaryCase(c.cross))
    BY <1>2, <1>6
  <1> QED  BY <1>1, <1>7 DEF score, D

\* What the chapter claims shows in its tables.
LEMMA ChapterClaimsHold ==
  ASSUME EvidenceInvariant PROVE ChapterClaimsBacked
  <1> SUFFICES ASSUME NEW v \in Shown
               PROVE  LET c == Evidence(v).chapter
                          b == ChapterBundle(c) IN
                      /\ b.summary.forced_exposes => \E p \in DOMAIN c.cross : b.transfer[p].blocks_harm
                      /\ b.summary.same_family_beneficial =>
                            \A p \in DOMAIN c.same : b.transfer[p].beneficial
                      /\ \A t \in DOMAIN c.repeated :
                            ReducesCalls(c.repeated[t]) => BeneficialShown(v)[t]
                      /\ (\E p \in DOMAIN c.cross : CaseScore(c.cross[p]) > 0) =>
                             \E p \in DOMAIN b.cases : b.cases[p] /\ CaseScore(c.cross[p]) > 0
    BY DEF ChapterClaimsBacked
  <1> DEFINE c == Evidence(v).chapter
             b == ChapterBundle(c)
  <1>1. IsChapter(c)
    BY ShownTyped
  <1>2. /\ b.summary = ChapterSummary(c) /\ b.transfer = TransferRows(c)
        /\ b.repeated = RepeatedRows(c) /\ b.cases = CaseStudies(c)
    BY DEF ChapterBundle
  <1>3. BeneficialShown(v) = [t \in DOMAIN c.repeated |->
                                LET rows == RepeatedRows(c)[t]
                                IN  rows["full_memory"].calls <= rows["no_memory"].calls]
    BY <1>2 DEF BeneficialShown
  <1> HIDE DEF c, b
  <1>4. /\ \A p \in DOMAIN c.same : b.transfer[p] = TransferRow(c.same[p])
        /\ \A p \in DOMAIN c.cross : b.transfer[p] = TransferRow(c.cross[p])
    BY <1>1, <1>2 DEF TransferRows, IsChapter
  <1>5. ASSUME b.summary.forced_exposes
        PROVE  \E p \in DOMAIN c.cross : b.transfer[p].blocks_harm
    <2> DEFINE f == [p \in DOMAIN c.cross |-> c.cross[p]["forced_transfer"].harm]
               g == [p \in DOMAIN c.cross |-> c.cross[p]["governed_transfer"].harm]
    <2>1. Total(f) > Total(g)
      <3>1. /\ Harm(c.cross, "forced_transfer") = Total(f)
            /\ Harm(c.cross, "governed_transfer") = Total(g)
        BY DEF Harm
      <3>2. ChapterSummary(c).forced_exposes <=>
               Harm(c.cross, "forced_transfer") > Harm(c.cross, "governed_transfer")
        BY DEF ChapterSummary
      <3> HIDE DEF f, g
      <3> QED  BY <1>2, <1>5, <3>1, <3>2
    <2>2. /\ IsFiniteSet(DOMAIN g)
          /\ \A p \in DOMAIN f : f[p] \in Nat
          /\ \A p \in DOMAIN g : g[p] \in Nat
      BY <1>1 DEF IsChapter
    <2>3. \E p \in DOMAIN c.cross : ~(f[p] <= g[p])
      <3> SUFFICES ASSUME \A p \in DOMAIN c.cross : f[p] <= g[p] PROVE FALSE
        OBVIOUS
      <3>1. \A p \in DOMAIN f : f[p] > 0 => p \in DOMAIN g /\ f[p] <= g[p]
        OBVIOUS
      <3> HIDE DEF f, g
      <3>2. Total(f) \in Nat /\ Total(g) \in Nat /\ Total(f) <= Total(g)
        BY <2>2, <3>1, TotalMonotone
      <3> QED  BY <2>1, <3>2
    <2>4. PICK p \in DOMAIN c.cross : ~(f[p] <= g[p])
      BY <2>3
    <2>5. c.cross[p]["governed_transfer"].harm < c.cross[p]["forced_transfer"].harm
      <3>1. /\ f[p] = c.cross[p]["forced_transfer"].harm /\ f[p] \in Nat
            /\ g[p] = c.cross[p]["governed_transfer"].harm /\ g[p] \in Nat
        BY <2>2
      <3> HIDE DEF f, g
      <3> QED  BY <2>4, <3>1
    <2>6. b.transfer[p].blocks_harm
      <3>1. TransferRow(c.cross[p]).blocks_harm <=> BlocksHarm(c.cross[p])
        BY DEF TransferRow
      <3> QED  BY <1>4, <2>5, <3>1 DEF BlocksHarm
    <2> QED  BY <2>6
  <1>6. ASSUME b.summary.same_family_beneficial, NEW p \in DOMAIN c.same
        PROVE  b.transfer[p].beneficial
    <2>1. TransferBeneficial(c.same[p])
      BY <1>2, <1>6 DEF ChapterSummary
    <2>2. TransferRow(c.same[p]).beneficial <=> TransferBeneficial(c.same[p])
      BY DEF TransferRow
    <2> QED  BY <1>4, <1>6, <2>1, <2>2
  <1>7. ASSUME NEW t \in DOMAIN c.repeated, ReducesCalls(c.repeated[t])
        PROVE  BeneficialShown(v)[t]
    <2>1. /\ c.repeated[t]["full_memory"].calls \in Nat /\ c.repeated[t]["no_memory"].calls \in Nat
          /\ {"no_memory", "full_memory"} \subseteq DOMAIN c.repeated[t]
      BY <1>1 DEF IsChapter, DrawnModes
    <2>2. /\ RepeatedRows(c)[t]["full_memory"].calls = c.repeated[t]["full_memory"].calls
          /\ RepeatedRows(c)[t]["no_memory"].calls = c.repeated[t]["no_memory"].calls
      BY <2>1 DEF RepeatedRows
    <2>3. BeneficialShown(v)[t] <=>
             RepeatedRows(c)[t]["full_memory"].calls <= RepeatedRows(c)[t]["no_memory"].calls
      BY <1>3, <1>7
    <2>4. c.repeated[t]["full_memory"].calls < c.repeated[t]["no_memory"].calls
      BY <1>7 DEF ReducesCalls
    <2> QED  BY <2>1, <2>2, <2>3, <2>4
  <1>8. ASSUME NEW p \in DOMAIN c.cross, CaseScore(c.cross[p]) > 0
        PROVE  \E q \in DOMAIN b.cases : b.cases[q] /\ CaseScore(c.cross[q]) > 0
    <2> DEFINE q == PrimaryCase(c.cross)
    <2>1. /\ q \in DOMAIN c.cross
          /\ CaseScore(c.cross[q]) \in Int /\ CaseScore(c.cross[p]) \in Int
          /\ CaseScore(c.cross[p]) <= CaseScore(c.cross[q])
      BY <1>1, PrimaryWorst
    <2>2. q \in DOMAIN b.cases /\ b.cases[q]
      BY <1>2, <2>1 DEF CaseStudies
    <2>3. CaseScore(c.cross[q]) > 0
      BY <1>8, <2>1
    <2> QED  BY <2>2, <2>3
  <1> QED  BY <1>5, <1>6, <1>7, <1>8 DEF c, b

\* The main part finds its figures and tables, and the bars are rows of the tables.
LEMMA FiguresHold ==
  ASSUME EvidenceInvariant PROVE FiguresBacked
  <1> SUFFICES ASSUME NEW v \in Shown
               PROVE  LET s == Evidence(v).suite
                          c == Evidence(v).chapter
                          bars == Drawn(RepeatedFigures(c).calls)
                          transfers == TransferFigures(c) IN
                      /\ HasComparison(s) =>
                            /\ PlannerLayout(PlannerBundle(s)).figures.main = MainPlannerFigures
                            /\ PlannerLayout(PlannerBundle(s)).tables.main = MainPlannerTables
                      /\ \A m \in DOMAIN bars :
                            \E t \in DOMAIN c.repeated : bars[m] = <<c.repeated[t][m].calls>>
                      /\ Drawn(transfers.same) = transfers.same
                      /\ Drawn(transfers.cross) = transfers.cross
    BY DEF FiguresBacked
  <1> DEFINE s == Evidence(v).suite
             c == Evidence(v).chapter
  <1>1. IsChapter(c)
    BY ShownTyped
  <1> HIDE DEF s, c
  <1>2. ASSUME HasComparison(s)
        PROVE  /\ PlannerLayout(PlannerBundle(s)).figures.main = MainPlannerFigures
               /\ PlannerLayout(PlannerBundle(s)).tables.main = MainPlannerTables
    <2>1. /\ PlannerBundle(s).figures = PlannerFigures(s)
          /\ PlannerBundle(s).tables = PlannerTables(s)
      BY <1>2 DEF PlannerBundle
    <2>2. MainPlannerFigures \subseteq DOMAIN PlannerFigures(s)
      BY DEF MainPlannerFigures, PlannerFigures, PairFigures, Joined
    <2>3. MainPlannerTables \subseteq DOMAIN PlannerTables(s)
      BY DEF MainPlannerTables, PlannerTables, PairTables, Joined
    <2> QED  BY <2>1, <2>2, <2>3 DEF PlannerLayout
  <1>3. ASSUME NEW m \in DrawnModes
        PROVE  \E t \in DOMAIN c.repeated :
                  Drawn(RepeatedFigures(c).calls)[m] = <<c.repeated[t][m].calls>>
    <2> DEFINE R == DOMAIN c.repeated
               n == Cardinality(R)
               tasks == SetToSeq(R)
               series == [i \in DOMAIN tasks |-> c.repeated[tasks[i]][m].calls]
    <2>1. n \in Nat /\ n # 0 /\ ExistsBijection(1 .. n, R)
      BY <1>1, FS_CardinalityType, FS_EmptySet DEF IsChapter
    <2>2. \E f \in [1 .. n -> R] : IsInjective(f)
      BY <2>1 DEF ExistsBijection, Bijection, Injection
    <2>3. tasks \in [1 .. n -> R]
      BY <2>2 DEF SetToSeq
    <2>4. RepeatedFigures(c).calls[m] = series
      BY DEF RepeatedFigures, PerTask
    <2>5. m \in DOMAIN RepeatedFigures(c).calls
      BY DEF RepeatedFigures, PerTask
    <2>a. \A t \in R : c.repeated[t][m].calls \in Nat
      BY <1>1 DEF IsChapter
    <2> HIDE DEF n, tasks, R
    <2>6. 1 \in 1 .. n /\ tasks[1] \in R /\ DOMAIN tasks = 1 .. n
      BY <2>1, <2>3
    <2>7. DOMAIN series = 1 .. n /\ series[1] = c.repeated[tasks[1]][m].calls
      BY <2>6
    <2>b. series \in [1 .. n -> Nat]
      BY <2>3, <2>a, <2>6
    <2> HIDE DEF series
    <2>8. series # <<>> /\ Head(series) = series[1]
      <3>1. series \in Seq(Nat)
        BY <2>1, <2>b, SeqDef
      <3>2. Len(series) = n
        <4>1. Len(series) \in Nat /\ DOMAIN series = 1 .. Len(series)
          BY <3>1, LenProperties
        <4> QED  BY <2>1, <2>7, <4>1
      <3>3. series # <<>>
        BY <2>1, <3>2, EmptySeq
      <3> QED  BY <3>1, <3>3
    <2>9. Drawn(RepeatedFigures(c).calls)[m] = <<series[1]>>
      BY <2>4, <2>5, <2>8 DEF Drawn
    <2> QED  BY <2>6, <2>7, <2>9 DEF R
  <1>4. DOMAIN Drawn(RepeatedFigures(c).calls) = DrawnModes
    BY DEF Drawn, RepeatedFigures, PerTask
  <1>5. /\ Drawn(TransferFigures(c).same) = TransferFigures(c).same
        /\ Drawn(TransferFigures(c).cross) = TransferFigures(c).cross
    BY DEF TransferFigures, PerPair, Drawn
  <1> QED  BY <1>2, <1>3, <1>4, <1>5 DEF s, c

\* However builds, exports and failures interleave, and whatever the experiments measured:
\* every claim a package shows follows from the runs it was computed from, and what it
\* draws is a row of its tables.
THEOREM MeasuredCorrect == PackageSpec => []ClaimsMeasured
  <1>1. EvidenceInvariant => PlannerClaimsAgree
    <2> SUFFICES ASSUME EvidenceInvariant, NEW v \in Shown, HasComparison(Evidence(v).suite)
                 PROVE  LET c == PlannerBundle(Evidence(v).suite).summary IN
                        /\ c.beats_top_k <=> c.reduces_simulations /\ c.preserves_hits
                        /\ c.fidelity_effective => c.fidelity_reduces
                        /\ c.phase_effective => c.phase_converges
                        /\ c.replanning_effective => c.replanning_converges
                        /\ c.rollout_effective <=> c.rollout_converges /\ c.rollout_preserves
      BY DEF PlannerClaimsAgree
    <2>1. PlannerBundle(Evidence(v).suite).summary = PlannerSummary(Evidence(v).suite)
      BY DEF PlannerBundle
    <2> QED  BY <2>1, ShownTyped, PlannerClaimsHold
  <1>2. EvidenceInvariant => RolloutClaimGrounded
    <2> SUFFICES ASSUME EvidenceInvariant, NEW v \in Shown, HasComparison(Evidence(v).suite)
                 PROVE  LET s == Evidence(v).suite
                            c == PlannerBundle(s).summary IN
                        c.rollout_real =>
                          /\ c.rollout_status # "do_not_claim"
                          /\ s["no_rollout_planning"].guided < s["full_system"].guided
                          /\ c.rollout_status = "supported" =>
                                 s["no_rollout_planning"].conv >= s["full_system"].conv
      BY DEF RolloutClaimGrounded
    <2>1. PlannerBundle(Evidence(v).suite).summary = PlannerSummary(Evidence(v).suite)
      BY DEF PlannerBundle
    <2> QED  BY <2>1, ShownTyped, RolloutHolds
  <1>3. EvidenceInvariant => WorldClaimsMeasured
    <2> SUFFICES ASSUME EvidenceInvariant, NEW v \in Shown,
                        WorldBundle(Evidence(v).suite, Evidence(v).base) # NoBundle
                 PROVE  LET s == Evidence(v).suite
                            c == WorldBundle(s, Evidence(v).base).summary IN
                        /\ c.calibration_reduces_gap =>
                              LET cold == s["no_calibration"].gap
                                  full == s["full_system"].gap
                              IN  \/ \E k \in RelevantMetrics(s) \cap DOMAIN cold : cold[k] > ValueOr(full, k, 0)
                                  \/ (RelevantMetrics(s) \cap DOMAIN full) \ DOMAIN cold # {}
                        /\ c.updates_observable => Deltas(s)["no_calibration"].updates > 0
                        /\ c.ranking_hits <=> Deltas(s)["no_world_model"].hits >= 0
                        /\ LET bundle == WorldBundle(s, Evidence(v).base)
                           IN  \A shown \in Range(bundle.figures) \cup Range(bundle.tables) :
                                   shown \subseteq bundle.modes
      BY DEF WorldClaimsMeasured
    <2>1. WorldBundle(Evidence(v).suite, Evidence(v).base).summary
            = WorldSummary(Evidence(v).suite, Evidence(v).base)
      BY DEF WorldBundle
    <2> QED  BY <2>1, ShownTyped, WorldClaimsHold, WorldModesHold
  <1>4. EvidenceInvariant => ClaimsMeasured
    BY <1>1, <1>2, <1>3, ChapterClaimsHold, FiguresHold DEF ClaimsMeasured
  <1> QED  BY <1>4, EvidenceInit, EvidenceStep, PackageInitHolds, PackageStep, PTL DEF PackageSpec
=============================================================================
