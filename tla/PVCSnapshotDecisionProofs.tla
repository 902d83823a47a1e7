--------------------- MODULE PVCSnapshotDecisionProofs ---------------------
(***************************************************************************)
(* Proofs about PVCSnapshotDecision, for any number of pods and volumes,   *)
(* any classes and any names.                                              *)
(***************************************************************************)
EXTENDS PVCSnapshotDecision, WellFoundedInduction, FiniteSetTheorems, SequenceTheorems, TLAPS

\* A pod that uses the PVC has a first volume of it.
LEMMA FirstVolume ==
    ASSUME NEW uses \in SUBSET Volume, uses # {}
    PROVE  \E v \in uses : \A w \in uses : v <= w
<1>1. uses \subseteq Nat
  BY DEF Volume
<1>2. IsWellFoundedOn(OpToRel(<, Nat), Nat)
  BY NatLessThanWellFounded
<1>3. PICK v \in uses : \A w \in uses : <<w, v>> \notin OpToRel(<, Nat)
  <2> DEFINE R == OpToRel(<, Nat)
  <2> HIDE DEF R
  <2>1. IsWellFoundedOn(R, Nat)
    BY <1>2 DEF R
  <2>2. \E v \in uses : \A w \in uses : <<w, v>> \notin R
    BY <1>1, <2>1, WFMin
  <2> QED BY <2>2 DEF R
<1>4. \A w \in uses : ~(w < v)
  BY <1>1, <1>3 DEF OpToRel
<1>5. \A w \in uses : v <= w
  BY <1>1, <1>4
<1> QED BY <1>5

\* The name that the check compares is that of a volume of the PVC.
LEMMA PodVolumeNameUses ==
    ASSUME NEW p \in PodSpecs, p.uses # {}
    PROVE  PodVolumeName(p) \in p.uses
<1>1. p.uses \in SUBSET Volume
  BY DEF PodSpecs
<1> QED BY <1>1, FirstVolume DEF PodVolumeName

\* A PVC the check leaves to the uploader is on the uploader's list.
LEMMA DefaultIsCovered ==
    ASSUME NEW pods \in [Pod -> PodSpecs], DefaultToFSBackup(pods)
    PROVE  \E p \in Pod : pods[p].uses \cap pods[p].fs # {}
<1>1. PICK p \in Pod : pods[p].uses # {} /\ PodVolumeName(pods[p]) \in pods[p].fs
  BY DEF DefaultToFSBackup
<1>2. PodVolumeName(pods[p]) \in pods[p].uses
  BY <1>1, PodVolumeNameUses
<1> QED BY <1>1, <1>2

-----------------------------------------------------------------------------
(* The classes.                                                            *)

\* What the API server lists is a sequence of classes with distinct names.
LEMMA ListType ==
    ASSUME NEW l \in ClassLists(MaxClasses)
    PROVE  /\ l \in Seq(Classes) /\ Len(l) \in Nat /\ Len(l) <= MaxClasses
           /\ DistinctNames(l)
<1>1. PICK k \in 0..MaxClasses : l \in [1..k -> Classes] /\ DistinctNames(l)
  BY DEF ClassLists
<1>2. k \in Nat
  BY BoundAssumption
<1>3. l \in Seq(Classes) /\ Len(l) = k
  BY <1>1, <1>2
<1> QED BY <1>1, <1>2, <1>3, BoundAssumption

\* A sequence has finitely many classes.
LEMMA FiniteClasses ==
    ASSUME NEW l \in Seq(Classes) PROVE IsFiniteSet(ClassSet(l))
<1>1. Len(l) \in Nat /\ l \in [1..Len(l) -> Classes] /\ DOMAIN l = 1..Len(l)
  BY LenProperties
<1>2. l \in Surjection(1..Len(l), ClassSet(l))
  BY <1>1 DEF Surjection, ClassSet
<1>3. IsFiniteSet(1..Len(l))
  BY <1>1, FS_Interval
<1> QED BY <1>2, <1>3, FS_Surjection

\* The class an annotation names, or that there is none.
LEMMA NamedClass ==
    ASSUME NEW q, q.list \in Seq(Classes), NEW a \in Annotations
    PROVE  LET c == ClassFromAnnotation(q.list, a, q.provisioner) IN
           /\ c # NoName => c = a /\ \E x \in Named(q, a) : x.name = a
           /\ c = NoName => Named(q, a) = {}
<1>1. \A i \in DOMAIN q.list : q.list[i] \in Classes
  BY LenProperties
<1>2. \A i \in DOMAIN q.list : q.list[i].name # NoName
  BY <1>1, NameAssumption DEF Classes
<1> QED BY <1>2 DEF ClassFromAnnotation, ForDriver, Named, Fitting, ClassSet

\* The annotations, in their order, name a candidate or none.
LEMMA AnnotatedCandidate ==
    ASSUME NEW q, q.list \in Seq(Classes), q.pvc \in Annotations, q.backup \in Annotations
    PROVE  LET c == ClassFromAnnotations(q.list, q.provisioner, q.pvc, q.backup) IN
           /\ c # NoName => c \in ClassName /\ \E x \in Candidates(q) : x.name = c
           /\ c = NoName => Named(q, q.pvc) = {} /\ Named(q, q.backup) = {}
<1> DEFINE p == ClassFromAnnotation(q.list, q.pvc, q.provisioner)
           d == ClassFromAnnotation(q.list, q.backup, q.provisioner)
<1>1. p # NoName => p = q.pvc /\ \E x \in Named(q, q.pvc) : x.name = q.pvc
  BY NamedClass
<1>2. p = NoName => Named(q, q.pvc) = {}
  BY NamedClass
<1>3. d # NoName => d = q.backup /\ \E x \in Named(q, q.backup) : x.name = q.backup
  BY NamedClass
<1>4. d = NoName => Named(q, q.backup) = {}
  BY NamedClass
<1> HIDE DEF p, d
<1>5. /\ p # NoName => p \in ClassName /\ \E x \in Candidates(q) : x.name = p
      /\ p = NoName /\ d # NoName => d \in ClassName /\ \E x \in Candidates(q) : x.name = d
  BY <1>1, <1>2, <1>3 DEF Candidates, Annotations
<1> QED BY <1>2, <1>4, <1>5 DEF ClassFromAnnotations, p, d

\* A labelled class of the driver is a candidate when no annotation names one.
LEMMA LabelledCandidate ==
    ASSUME NEW q, Named(q, q.pvc) = {}, Named(q, q.backup) = {},
           NEW i \in DOMAIN q.list, q.list[i].driver = q.provisioner, q.list[i].labelled
    PROVE  \E x \in Candidates(q) : x.name = q.list[i].name
  BY DEF Candidates, Labelled, Same, ClassSet

\* Without a label, the only class of the driver is the candidate.
LEMMA OnlyCandidate ==
    ASSUME NEW q, q.list \in Seq(Classes), DistinctNames(q.list),
           Named(q, q.pvc) = {}, Named(q, q.backup) = {},
           \A i \in DOMAIN q.list : ~(q.list[i].driver = q.provisioner /\ q.list[i].labelled)
    PROVE  /\ \A i \in DOMAIN q.list :
                 /\ q.list[i].driver = q.provisioner
                 /\ \A j \in DOMAIN q.list : q.list[j].driver = q.provisioner => j = i
                 => q.list[i] \in Candidates(q)
           /\ (\A i \in DOMAIN q.list : q.list[i].driver # q.provisioner) => Candidates(q) = {}
           /\ (\E i, j \in DOMAIN q.list : /\ i # j /\ q.list[i].driver = q.provisioner
                                          /\ q.list[j].driver = q.provisioner)
              => Candidates(q) = {}
<1>1. Labelled(q) = {}
  BY DEF Labelled, Same, ClassSet
<1>2. Candidates(q) = IF Cardinality(Same(q)) = 1 THEN Same(q) ELSE {}
  BY <1>1 DEF Candidates
<1>3. ASSUME NEW i \in DOMAIN q.list, q.list[i].driver = q.provisioner,
             \A j \in DOMAIN q.list : q.list[j].driver = q.provisioner => j = i
      PROVE  q.list[i] \in Candidates(q)
  <2>1. Same(q) = {q.list[i]}
    BY <1>3 DEF Same, ClassSet
  <2>2. QED BY <1>2, <2>1, FS_Singleton
<1>4. ASSUME \A i \in DOMAIN q.list : q.list[i].driver # q.provisioner PROVE Candidates(q) = {}
  <2>1. Same(q) = {}
    BY <1>4 DEF Same, ClassSet
  <2>2. QED BY <1>2, <2>1
<1>5. ASSUME NEW i \in DOMAIN q.list, NEW j \in DOMAIN q.list, i # j,
             q.list[i].driver = q.provisioner, q.list[j].driver = q.provisioner
      PROVE  Candidates(q) = {}
  <2>1. q.list[i] \in Same(q) /\ q.list[j] \in Same(q) /\ q.list[i] # q.list[j]
    BY <1>5 DEF Same, ClassSet, DistinctNames
  <2>2. IsFiniteSet(Same(q))
    BY FiniteClasses, FS_Subset DEF Same
  <2>3. Cardinality(Same(q)) # 1
    BY <2>1, <2>2, FS_Singleton
  <2>4. QED BY <1>2, <2>3
<1> QED BY <1>3, <1>4, <1>5

-----------------------------------------------------------------------------
(* The invariant.                                                          *)

\* Nothing is selected at the start.
LEMMA DecisionInit == Init => DecisionInv
<1> SUFFICES ASSUME Init PROVE DecisionInv
  OBVIOUS
<1>1. query = NoQuery /\ NoQuery.list = <<>> /\ scan = NoScan /\ class = NoName
  BY DEF Init, NoQuery
<1>2. NoQuery.provisioner \in Driver /\ NoQuery.pvc = NoName /\ NoQuery.backup = NoName
  BY DriverAssumption DEF NoQuery
<1>3. Len(<<>>) = 0 /\ <<>> \in Seq(Classes) /\ DOMAIN <<>> = {}
  BY EmptySeq
<1>4. TypeOK
  <2>1. scan \in [seen : 0..0, n : Nat, last : ClassName \cup {NoName}]
    BY <1>1 DEF NoScan
  <2>2. query.list = <<>> /\ Len(query.list) = 0
    BY <1>1, <1>3
  <2>3. {query.pvc, query.backup} \subseteq Annotations /\ query.provisioner \in Driver
    BY <1>1, <1>2 DEF Annotations
  <2>4. scan \in [seen : 0..Len(query.list), n : Nat, last : ClassName \cup {NoName}]
    BY <2>1, <2>2
  <2>5. query.list \in Seq(Classes) /\ Len(query.list) <= MaxClasses
    BY <1>1, <1>3, BoundAssumption
  <2>6. class \in ClassName \cup {NoName}
    BY <1>1
  <2>7. QED BY <2>3, <2>4, <2>5, <2>6 DEF Init, TypeOK
<1>5. DistinctNames(query.list)
  BY <1>1, <1>3 DEF DistinctNames
<1> QED BY <1>1, <1>4, <1>5
  DEF Init, DecisionInv, EarlyInv, ScanInv, SkippedIsCovered, ClassIsCandidate

\* What is known of the state when the selection ends.
LEMMA FoundStep ==
    ASSUME DecisionInv, NEW c \in ClassName \cup {NoName}, Found(c), stage \in {"class", "scan"},
           covered' = covered, DistinctNames(query'.list),
           query'.list \in Seq(Classes), Len(query'.list) \in Nat, Len(query'.list) <= MaxClasses,
           query'.provisioner \in Driver, {query'.pvc, query'.backup} \subseteq Annotations,
           c # NoName => \E x \in Candidates(query') : x.name = c,
           c = NoName => Candidates(query') = {}
    PROVE  DecisionInv'
<1>1. /\ class' = c /\ scan' = NoScan
      /\ c = NoName => stage' = "end" /\ outcome' = "error"
      /\ c # NoName => stage' = "create" /\ outcome' = "none"
  BY DEF Found, Return, Continue, DecisionInv, EarlyInv
<1>2. TypeOK'
  BY <1>1 DEF DecisionInv, TypeOK, NoScan
<1>3. EarlyInv' /\ ScanInv' /\ SkippedIsCovered'
  BY <1>1 DEF EarlyInv, ScanInv, SkippedIsCovered
<1>4. ClassIsCandidate'
  <2>1. Candidates(query)' = Candidates(query')
    BY DEF Candidates, Named, Labelled, Same, Fitting, ClassSet
  <2>2. QED BY <1>1, <2>1 DEF ClassIsCandidate
<1> QED BY <1>2, <1>3, <1>4 DEF DecisionInv

\* The choice of the query, and of the class an annotation names.
LEMMA SelectStep == ASSUME DecisionInv, SelectClass PROVE DecisionInv'
<1>0. /\ stage = "class" /\ covered' = covered /\ query = NoQuery /\ class = NoName
      /\ outcome = "none" /\ scan = NoScan /\ TypeOK
  BY DEF SelectClass, DecisionInv, EarlyInv
<1>1. CASE Return("error") /\ UNCHANGED <<query, scan, class>>
  <2>1. stage' = "end" /\ outcome' = "error"
    BY <1>1 DEF Return
  <2>2. NoQuery.list = <<>> /\ DOMAIN <<>> = {}
    BY EmptySeq DEF NoQuery
  <2>3. TypeOK' /\ DistinctNames(query.list)'
    BY <1>0, <1>1, <2>1 DEF DecisionInv, TypeOK, DistinctNames
  <2>4. EarlyInv' /\ ScanInv' /\ SkippedIsCovered'
    BY <1>0, <1>1, <2>1 DEF EarlyInv, ScanInv, SkippedIsCovered
  <2>5. Same(query') = {} /\ Labelled(query') = {} /\ Named(query', query'.pvc) = {}
        /\ Named(query', query'.backup) = {}
    BY <1>0, <1>1, <2>2 DEF Same, Labelled, Named, Fitting, ClassSet
  <2>6. Candidates(query') = {}
    BY <2>5 DEF Candidates
  <2>7. ClassIsCandidate'
    BY <2>1, <2>6 DEF ClassIsCandidate
  <2> QED BY <2>3, <2>4, <2>7 DEF DecisionInv
<1>2. ASSUME NEW q \in Queries, query' = q
      PROVE  /\ q.list \in Seq(Classes) /\ Len(q.list) \in Nat /\ Len(q.list) <= MaxClasses
             /\ DistinctNames(q.list) /\ q.provisioner \in Driver
             /\ {q.pvc, q.backup} \subseteq Annotations
  <2>1. q.list \in ClassLists(MaxClasses) /\ q.provisioner \in Driver
        /\ {q.pvc, q.backup} \subseteq Annotations
    BY DEF Queries
  <2>2. QED BY <2>1, ListType
<1>3. ASSUME NEW q \in Queries, query' = q,
             LET named == ClassFromAnnotations(q.list, q.provisioner, q.pvc, q.backup) IN
             IF named # NoName THEN Found(named)
             ELSE Continue("scan") /\ UNCHANGED <<scan, class>>
      PROVE  DecisionInv'
  <2> DEFINE named == ClassFromAnnotations(q.list, q.provisioner, q.pvc, q.backup)
  <2>1. /\ named # NoName => named \in ClassName /\ \E x \in Candidates(q) : x.name = named
        /\ named = NoName => Named(q, q.pvc) = {} /\ Named(q, q.backup) = {}
    BY <1>2, <1>3, AnnotatedCandidate
  <2>2. CASE named # NoName
    <3>1. Found(named)
      BY <1>3, <2>2
    <3> HIDE DEF named
    <3>2. QED BY <1>0, <1>2, <1>3, <2>1, <2>2, <3>1, FoundStep
  <2>3. CASE named = NoName
    <3>1. stage' = "scan" /\ outcome' = "none" /\ scan' = NoScan /\ class' = NoName
      BY <1>0, <1>3, <2>3 DEF Continue
    <3>2. TypeOK'
      BY <1>0, <1>2, <1>3, <3>1 DEF TypeOK, NoScan
    <3>3. EarlyInv' /\ SkippedIsCovered' /\ ClassIsCandidate'
      BY <3>1 DEF EarlyInv, SkippedIsCovered, ClassIsCandidate
    <3>4. ScanInv'
      BY <1>3, <2>1, <2>3, <3>1 DEF ScanInv, NoScan, Named, Fitting, ClassSet
    <3>5. QED BY <1>2, <1>3, <3>2, <3>3, <3>4 DEF DecisionInv
  <2>4. QED BY <2>2, <2>3
<1> QED BY <1>1, <1>3 DEF SelectClass

\* The loop looks at one more class.
LEMMA ScanStep == ASSUME DecisionInv, ScanClass PROVE DecisionInv'
<1> DEFINE l == query.list
           k == scan.seen + 1
           c == l[k]
<1>0. /\ stage = "scan" /\ scan.seen < Len(l) /\ covered' = covered /\ query' = query
      /\ TypeOK /\ ScanInv /\ DistinctNames(l) /\ class = NoName /\ outcome = "none"
      /\ Named(query, query.pvc) = {} /\ Named(query, query.backup) = {}
  BY DEF ScanClass, DecisionInv, ScanInv
<1>1. /\ l \in Seq(Classes) /\ Len(l) \in Nat /\ DOMAIN l = 1..Len(l) /\ scan.seen \in Nat
      /\ scan.n \in Nat /\ Len(l) <= MaxClasses
  BY <1>0, LenProperties DEF TypeOK
<1>2. k \in 1..Len(l) /\ k \in DOMAIN l /\ c \in Classes /\ c.name \in ClassName
      /\ 1..k = (1..scan.seen) \cup {k} /\ k \notin 1..scan.seen
  <2>1. k \in 1..Len(l)
    BY <1>0, <1>1
  <2>2. c \in Classes
    BY <1>1, <2>1, ElementOfSeq
  <2>3. QED BY <1>0, <1>1, <2>1, <2>2 DEF Classes
<1>3. CASE c.driver = query.provisioner /\ c.labelled
  <2>1. Found(c.name)
    BY <1>3 DEF ScanClass
  <2>2. \E x \in Candidates(query) : x.name = c.name
    BY <1>0, <1>2, <1>3, LabelledCandidate
  <2>3. c.name # NoName
    BY <1>2, NameAssumption
  <2> HIDE DEF c
  <2>4. QED BY <1>0, <1>1, <1>2, <2>1, <2>2, <2>3, FoundStep DEF TypeOK
<1>4. CASE ~(c.driver = query.provisioner /\ c.labelled)
  <2>1. scan' = Looked(scan, c, query.provisioner) /\ UNCHANGED <<stage, outcome, class>>
    BY <1>4 DEF ScanClass
  <2>2. /\ scan'.seen = k
        /\ scan'.n = IF OfDriver(c) THEN scan.n + 1 ELSE scan.n
        /\ scan'.last = IF OfDriver(c) THEN c.name ELSE scan.last
        /\ scan' \in [seen : 0..Len(l), n : Nat, last : ClassName \cup {NoName}]
    <3>1. scan \in [seen : 0..Len(l), n : Nat, last : ClassName \cup {NoName}]
      BY <1>0 DEF TypeOK
    <3>2. QED BY <1>1, <1>2, <2>1, <3>1 DEF Looked, OfDriver
  <2>3. TypeOK' /\ DistinctNames(query.list)'
    BY <1>0, <2>1, <2>2 DEF TypeOK
  <2>4. EarlyInv' /\ SkippedIsCovered' /\ ClassIsCandidate'
    BY <1>0, <2>1 DEF DecisionInv, EarlyInv, SkippedIsCovered, ClassIsCandidate
  <2>5. ScanInv'
    <3>1. /\ \A i \in 1..scan.seen : ~(OfDriver(l[i]) /\ l[i].labelled)
          /\ scan.n = 0 => \A i \in 1..scan.seen : ~OfDriver(l[i])
          /\ scan.n = 1 => \E i \in 1..scan.seen :
                /\ OfDriver(l[i]) /\ l[i].name = scan.last
                /\ \A j \in 1..scan.seen : OfDriver(l[j]) => j = i
          /\ scan.n > 1 => \E i, j \in 1..scan.seen :
                i # j /\ OfDriver(l[i]) /\ OfDriver(l[j])
      BY <1>0 DEF ScanInv
    <3> SUFFICES
          /\ \A i \in 1..k : ~(OfDriver(l[i]) /\ l[i].labelled)
          /\ scan'.n = 0 => \A i \in 1..k : ~OfDriver(l[i])
          /\ scan'.n = 1 => \E i \in 1..k :
                /\ OfDriver(l[i]) /\ l[i].name = scan'.last
                /\ \A j \in 1..k : OfDriver(l[j]) => j = i
          /\ scan'.n > 1 => \E i, j \in 1..k :
                i # j /\ OfDriver(l[i]) /\ OfDriver(l[j])
      BY <1>0, <2>1, <2>2 DEF ScanInv, OfDriver, Named, Fitting, ClassSet
    <3>2. CASE ~OfDriver(c)
      BY <1>2, <2>2, <3>1, <3>2
    <3>3. CASE OfDriver(c)
      <4>1. ~c.labelled
        BY <1>4, <3>3 DEF OfDriver
      <4>2. scan.n = 0 \/ \E i \in 1..scan.seen : OfDriver(l[i])
        BY <1>1, <3>1
      <4>3. QED BY <1>1, <1>2, <2>2, <3>1, <3>3, <4>1, <4>2
    <3>4. QED BY <3>2, <3>3
  <2>6. QED BY <2>3, <2>4, <2>5 DEF DecisionInv
<1> QED BY <1>3, <1>4

\* The loop has looked at all classes.
LEMMA EndStep == ASSUME DecisionInv, EndScan PROVE DecisionInv'
<1> DEFINE l == query.list
           c == WithoutLabel(scan)
<1>0. /\ stage = "scan" /\ scan.seen = Len(l) /\ covered' = covered /\ query' = query
      /\ Found(c) /\ TypeOK /\ ScanInv /\ DistinctNames(l)
      /\ Named(query, query.pvc) = {} /\ Named(query, query.backup) = {}
  BY DEF EndScan, DecisionInv, ScanInv
<1>1. /\ l \in Seq(Classes) /\ Len(l) \in Nat /\ DOMAIN l = 1..Len(l) /\ scan.n \in Nat
      /\ c \in ClassName \cup {NoName}
  BY <1>0, LenProperties DEF TypeOK, WithoutLabel
<1>2. /\ \A i \in DOMAIN l : ~(l[i].driver = query.provisioner /\ l[i].labelled)
      /\ scan.n = 0 => \A i \in DOMAIN l : l[i].driver # query.provisioner
      /\ scan.n = 1 => \E i \in DOMAIN l :
            /\ l[i].driver = query.provisioner /\ l[i].name = scan.last
            /\ \A j \in DOMAIN l : l[j].driver = query.provisioner => j = i
      /\ scan.n > 1 => \E i, j \in DOMAIN l :
            i # j /\ l[i].driver = query.provisioner /\ l[j].driver = query.provisioner
  BY <1>0, <1>1 DEF ScanInv, OfDriver
<1>3. /\ \A i \in DOMAIN l :
           /\ l[i].driver = query.provisioner
           /\ \A j \in DOMAIN l : l[j].driver = query.provisioner => j = i
           => l[i] \in Candidates(query)
      /\ scan.n # 1 => Candidates(query) = {}
  <2> HIDE DEF l
  <2>1. scan.n = 0 \/ scan.n = 1 \/ scan.n > 1
    BY <1>1
  <2> USE DEF l
  <2>2. QED BY <1>0, <1>1, <1>2, <2>1, OnlyCandidate
<1>4. /\ scan.n = 1 => \E x \in Candidates(query) : x.name = c
      /\ scan.n # 1 => c = NoName /\ Candidates(query) = {}
  <2>1. ASSUME scan.n = 1 PROVE \E x \in Candidates(query) : x.name = scan.last
    <3>1. PICK i \in DOMAIN l :
            /\ l[i].driver = query.provisioner /\ l[i].name = scan.last
            /\ \A j \in DOMAIN l : l[j].driver = query.provisioner => j = i
      BY <1>2, <2>1
    <3>2. l[i] \in Candidates(query)
      BY <1>3, <3>1
    <3>3. QED BY <3>1, <3>2
  <2>2. QED BY <1>3, <2>1 DEF WithoutLabel
<1>5. scan.n = 1 => c # NoName
  <2>1. \A i \in DOMAIN l : l[i] \in Classes
    BY <1>1, LenProperties
  <2>2. QED BY <1>2, <2>1, NameAssumption DEF WithoutLabel, Classes
<1> HIDE DEF c
<1> QED BY <1>0, <1>1, <1>4, <1>5, FoundStep DEF TypeOK

\* Every step keeps the invariant.
LEMMA DecisionStep == DecisionInv /\ [Next]_vars => DecisionInv'
<1> SUFFICES ASSUME DecisionInv, [Next]_vars PROVE DecisionInv'
  OBVIOUS
\* The steps that leave the selection alone.
<1>1. ASSUME UNCHANGED <<query, scan, class>>, TypeOK',
             stage # "scan", stage' # "scan", EarlyInv', SkippedIsCovered',
             stage' = "create" \/ outcome' = "snapshot" => stage = "create" \/ outcome = "snapshot",
             outcome' = "error" /\ class = NoName => outcome = "error" \/ query = NoQuery
      PROVE  DecisionInv'
  <2>1. NoQuery.list = <<>> /\ DOMAIN <<>> = {}
    BY EmptySeq DEF NoQuery
  <2>2. query = NoQuery => Candidates(query) = {}
    <3>1. ASSUME query = NoQuery
          PROVE  Same(query) = {} /\ Labelled(query) = {} /\ Named(query, query.pvc) = {}
                 /\ Named(query, query.backup) = {}
      BY <2>1, <3>1 DEF Same, Labelled, Named, Fitting, ClassSet
    <3>2. QED BY <3>1 DEF Candidates
  <2>3. ClassIsCandidate'
    <3>1. Candidates(query)' = Candidates(query)
      BY <1>1 DEF Candidates, Named, Labelled, Same, Fitting, ClassSet
    <3>2. QED BY <1>1, <2>2, <3>1 DEF DecisionInv, ClassIsCandidate
  <2>4. DistinctNames(query.list)' /\ ScanInv'
    BY <1>1 DEF DecisionInv, DistinctNames, ScanInv
  <2>5. QED BY <1>1, <2>3, <2>4 DEF DecisionInv
<1> USE DEF DecisionInv, TypeOK, EarlyInv, SkippedIsCovered, Return, Continue
<1>2. CASE CheckBackup
  BY <1>1, <1>2 DEF CheckBackup
<1>3. CASE GetPV
  BY <1>1, <1>3 DEF GetPV
<1>4. CASE ListPods
  <2>1. /\ stage = "pods" /\ UNCHANGED <<query, scan, class>>
        /\ covered' \in BOOLEAN
        /\ \/ stage' = "end" /\ outcome' = "error"
           \/ stage' = "end" /\ outcome' = "fs" /\ covered'
           \/ stage' = "class" /\ outcome' = outcome
    BY <1>4, DefaultIsCovered DEF ListPods
  <2>2. QED BY <1>1, <2>1
<1>5. CASE SelectClass
  BY <1>5, SelectStep
<1>6. CASE ScanClass
  BY <1>6, ScanStep
<1>7. CASE EndScan
  BY <1>7, EndStep
<1>8. CASE CreateSnapshot
  <2>1. class # NoName
    <3>1. PICK x \in Candidates(query) : x.name = class
      BY <1>8 DEF CreateSnapshot, ClassIsCandidate
    <3>2. x \in Classes
      BY <3>1, LenProperties DEF Candidates, Named, Labelled, Same, Fitting, ClassSet
    <3>3. QED BY <3>1, <3>2, NameAssumption DEF Classes
  <2>2. QED BY <1>1, <1>8, <2>1 DEF CreateSnapshot
<1>9. CASE UNCHANGED vars
  <2>1. Candidates(query)' = Candidates(query) /\ Named(query, query.pvc)' = Named(query, query.pvc)
        /\ Named(query, query.backup)' = Named(query, query.backup)
    BY <1>9 DEF vars, Candidates, Named, Labelled, Same, Fitting, ClassSet
  <2>2. TypeOK' /\ EarlyInv' /\ SkippedIsCovered'
    BY <1>9 DEF vars
  <2>3. DistinctNames(query.list)' /\ ClassIsCandidate'
    BY <1>9, <2>1 DEF vars, DistinctNames, ClassIsCandidate
  <2>4. ScanInv'
    BY <1>9, <2>1 DEF vars, ScanInv, OfDriver
  <2>5. QED BY <2>2, <2>3, <2>4
<1> QED BY <1>2, <1>3, <1>4, <1>5, <1>6, <1>7, <1>8, <1>9 DEF Next

\* The invariant of the decision: it says what the loop over the classes knows
\* of those it has looked at.
THEOREM DecisionInvariant == Spec => []DecisionInv
  BY DecisionInit, DecisionStep, PTL DEF Spec

\* Outcomes, queries and the class have their types.
THEOREM DecisionTypeCorrect == Spec => []TypeOK
<1>1. DecisionInv => TypeOK
  BY DEF DecisionInv
<1> QED BY <1>1, DecisionInvariant, PTL

\* Whatever pods there are, a PVC is left to the file-system uploader only if
\* the uploader has a volume of it on its list.
THEOREM SkippedIsCoveredHolds == Spec => []SkippedIsCovered
<1>1. DecisionInv => SkippedIsCovered
  BY DEF DecisionInv
<1> QED BY <1>1, DecisionInvariant, PTL

\* Whatever classes there are, in whatever order they are listed, the PVC is
\* snapshotted with one that README.md:42-91 allows, and refused one only when
\* there is none.
THEOREM ClassIsCandidateHolds == Spec => []ClassIsCandidate
<1>1. DecisionInv => ClassIsCandidate
  BY DEF DecisionInv
<1> QED BY <1>1, DecisionInvariant, PTL
=============================================================================
