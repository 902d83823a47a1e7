------------------------ MODULE PVCSnapshotDecision ------------------------
(***************************************************************************)
(* What PVCBackupItemAction.Execute decides about a PVC before it creates  *)
(* a VolumeSnapshot (backup/pvc_action.go:67-159): nothing to do, left to  *)
(* the file-system (FS) uploader, an error, or a snapshot with which       *)
(* class.  The cluster's answers are chosen when Execute asks.             *)
(***************************************************************************)
EXTENDS SnapshotClassSelection, FiniteSets

CONSTANTS
    Pod,          \* the pods of the namespace
    MaxVolumes,   \* the volumes of a pod are 1..MaxVolumes, in the order of its spec
    MaxClasses    \* length of a list of classes

ASSUME BoundAssumption  == MaxVolumes \in Nat /\ MaxClasses \in Nat
ASSUME DriverAssumption == Driver # {}

VARIABLES
    stage,     \* where Execute stands
    outcome,   \* what it returned
    covered,   \* some pod volume of the PVC is on the FS uploader's list (history)
    query,     \* the inputs of the selection of the class
    scan,      \* where the loop over the classes stands
    class      \* the class selected

vars == <<stage, outcome, covered, query, scan, class>>

Volume == 1..MaxVolumes

\* uses: the volumes of the pod that name the PVC; fs: the volumes that
\* podvolume.GetVolumesByPod lists for the FS uploader.
PodSpecs == [uses : SUBSET Volume, fs : SUBSET Volume]

Annotations == ClassName \cup {NoName}
Queries == [list : ClassLists(MaxClasses), provisioner : Driver,
            pvc : Annotations, backup : Annotations]
NoQuery == [list |-> <<>>, provisioner |-> CHOOSE d \in Driver : TRUE,
            pvc |-> NoName, backup |-> NoName]

\* Every outcome is one that Execute knows, and the class is one of the cluster's.
TypeOK ==
    /\ stage \in {"start", "pv", "pods", "class", "scan", "create", "end"}
    /\ outcome \in {"none", "unasked", "notcsi", "fs", "error", "snapshot"}
    /\ covered \in BOOLEAN
    /\ query.list \in Seq(Classes) /\ Len(query.list) <= MaxClasses
    /\ query.provisioner \in Driver /\ {query.pvc, query.backup} \subseteq Annotations
    /\ scan \in [seen : 0..Len(query.list), n : Nat, last : ClassName \cup {NoName}]
    /\ class \in ClassName \cup {NoName}

Init ==
    /\ stage = "start" /\ outcome = "none"
    /\ covered = FALSE
    /\ query = NoQuery
    /\ scan = NoScan
    /\ class = NoName

\* Mutant: the outcome is forgotten.
ReturnNothing(o) == stage' = "end" /\ outcome' = "nil"

Return(o) == stage' = "end" /\ outcome' = o
Continue(s) == stage' = s /\ UNCHANGED outcome

\* Snapshots are switched off, or the backup is in a Finalizing phase.
CheckBackup ==
    /\ stage = "start"
    /\ Return("unasked") \/ Continue("pv")
    /\ UNCHANGED <<covered, query, scan, class>>

\* GetPVForPVC: the PVC has no volume name, or the call fails.
GetPV ==
    /\ stage = "pv"
    /\ Return("error") \/ Return("notcsi") \/ Continue("pods")
    /\ UNCHANGED <<covered, query, scan, class>>

\* The name GetPodVolumeNameForPVC returns.
PodVolumeName(p) == CHOOSE v \in p.uses : \A w \in p.uses : v <= w

\* Mutant: pods of the namespace that do not use the PVC count as well.
AnyPodOnFS(pods) == \E p \in Pod : pods[p].fs # {}

\* IsPVCDefaultToFSBackup
DefaultToFSBackup(pods) ==
    \E p \in Pod : pods[p].uses # {} /\ PodVolumeName(pods[p]) \in pods[p].fs

ListPods ==
    /\ stage = "pods"
    /\ \/ Return("error") /\ UNCHANGED covered
       \/ \E pods \in [Pod -> PodSpecs] :
             /\ covered' = \E p \in Pod : pods[p].uses \cap pods[p].fs # {}
             /\ IF DefaultToFSBackup(pods) THEN Return("fs") ELSE Continue("class")
    /\ UNCHANGED <<query, scan, class>>

\* GetVolumeSnapshotClass returns a class, or an error.
Found(c) ==
    /\ class' = c
    /\ scan' = NoScan
    /\ IF c = NoName THEN Return("error") ELSE Continue("create")

\* No storage class, a failing call, or the list of the classes: a class that an
\* annotation names, else the loop over all of them.
SelectClass ==
    /\ stage = "class"
    /\ \/ Return("error") /\ UNCHANGED <<query, scan, class>>
       \/ \E q \in Queries :
             LET named == ClassFromAnnotations(q.list, q.provisioner, q.pvc, q.backup) IN
             /\ query' = q
             /\ IF named # NoName THEN Found(named)
                ELSE Continue("scan") /\ UNCHANGED <<scan, class>>
    /\ UNCHANGED covered

\* The loop of GetVolumeSnapshotClassForStorageClass: it returns at the first
\* class of the driver with the label.
ScanClass ==
    /\ stage = "scan" /\ scan.seen < Len(query.list)
    /\ LET c == query.list[scan.seen + 1] IN
       IF c.driver = query.provisioner /\ c.labelled THEN Found(c.name)
       ELSE /\ scan' = Looked(scan, c, query.provisioner)
            /\ UNCHANGED <<stage, outcome, class>>
    /\ UNCHANGED <<covered, query>>

EndScan ==
    /\ stage = "scan" /\ scan.seen = Len(query.list)
    /\ Found(WithoutLabel(scan))
    /\ UNCHANGED <<covered, query>>

CreateSnapshot ==
    /\ stage = "create"
    /\ Return("error") \/ Return("snapshot")
    /\ UNCHANGED <<covered, query, scan, class>>

Next ==
    \/ CheckBackup
    \/ GetPV
    \/ ListPods
    \/ SelectClass
    \/ ScanClass
    \/ EndScan
    \/ CreateSnapshot

Spec == Init /\ [][Next]_vars
-----------------------------------------------------------------------------
(* Properties.                                                             *)

\* A volume left to the FS uploader is on the uploader's list: no PVC falls
\* between the two kinds of backup (util.go:104-124).
SkippedIsCovered == outcome = "fs" => covered

ClassSet(l) == {l[i] : i \in DOMAIN l}

\* The classes that fit the driver, the way each kind of choice compares it.
Fitting(q)  == {c \in ClassSet(q.list) : EqualFold(c.driver, q.provisioner)}
Same(q)     == {c \in ClassSet(q.list) : c.driver = q.provisioner}
Labelled(q) == {c \in Same(q) : c.labelled}

Named(q, annotation) == {c \in Fitting(q) : c.name = annotation}

\* The candidates by README.md:42-91: the class the PVC names, else the one the
\* backup names, else the labelled ones, else the only one of the driver.
Candidates(q) ==
    IF Named(q, q.pvc) # {} THEN Named(q, q.pvc)
    ELSE IF Named(q, q.backup) # {} THEN Named(q, q.backup)
    ELSE IF Labelled(q) # {} THEN Labelled(q)
    ELSE IF Cardinality(Same(q)) = 1 THEN Same(q) ELSE {}

\* A snapshot is taken with a candidate, and refused only when there is none:
\* in particular the order in which the API server lists the classes does not
\* matter unless several of them bear the label.
ClassIsCandidate ==
    /\ stage = "create" \/ outcome = "snapshot" =>
          \E c \in Candidates(query) : c.name = class
    /\ outcome = "error" /\ class = NoName => Candidates(query) = {}
-----------------------------------------------------------------------------
(* The inductive invariant behind ClassIsCandidate.                        *)

OfDriver(c) == c.driver = query.provisioner

\* What the loop knows of the classes it has looked at.
ScanInv ==
    LET seen == 1..scan.seen IN
    stage = "scan" =>
        /\ class = NoName /\ outcome = "none"
        /\ Named(query, query.pvc) = {} /\ Named(query, query.backup) = {}
        /\ \A i \in seen : ~(OfDriver(query.list[i]) /\ query.list[i].labelled)
        /\ scan.n = 0 => \A i \in seen : ~OfDriver(query.list[i])
        /\ scan.n = 1 => \E i \in seen :
              /\ OfDriver(query.list[i]) /\ query.list[i].name = scan.last
              /\ \A j \in seen : OfDriver(query.list[j]) => j = i
        /\ scan.n > 1 => \E i, j \in seen :
              i # j /\ OfDriver(query.list[i]) /\ OfDriver(query.list[j])

\* Nothing is selected, and no class listed, before the selection.
EarlyInv ==
    /\ stage \in {"start", "pv", "pods", "class"} =>
          query = NoQuery /\ class = NoName /\ outcome = "none"
    /\ stage # "scan" => scan = NoScan
    /\ outcome # "none" => stage = "end"
    /\ stage = "end" /\ class # NoName => outcome \in {"error", "snapshot"}

\* The loop over the classes (util.go:193-215) knows how many classes of the
\* driver it has passed and which, so what it returns is a candidate.
DecisionInv ==
    /\ TypeOK
    /\ DistinctNames(query.list)
    /\ EarlyInv
    /\ ScanInv
    /\ SkippedIsCovered
    /\ ClassIsCandidate
=============================================================================
