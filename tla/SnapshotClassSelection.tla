----------------------- MODULE SnapshotClassSelection -----------------------
(***************************************************************************)
(* GetVolumeSnapshotClass (util/util.go:125-215): which of the cluster's   *)
(* VolumeSnapshotClasses a PVC is snapshotted with.  The classes come as a *)
(* list; names are unique and compared in lower case, drivers are compared *)
(* without regard to case for an annotation and exactly otherwise.         *)
(***************************************************************************)
EXTENDS Naturals, Sequences

CONSTANTS
    ClassName,   \* the names of VolumeSnapshotClasses, in lower case
    NoName,      \* no annotation, or no class
    Driver,      \* the spellings of driver names
    Fold         \* Fold[d]: the lower-case spelling of d

ASSUME NameAssumption  == NoName \notin ClassName
ASSUME FoldAssumption  == Fold \in [Driver -> Driver]

\* labelled: it has the label velero.io/csi-volumesnapshot-class, with any value.
Classes == [name : ClassName, driver : Driver, labelled : BOOLEAN]

\* What the API server may answer: a name occurs once.
DistinctNames(l) == \A i, j \in DOMAIN l : l[i].name = l[j].name => i = j

ClassLists(n) == UNION {{l \in [1..k -> Classes] : DistinctNames(l)} : k \in 0..n}

EqualFold(d, e) == Fold[d] = Fold[e]

\* Mutant: the driver of the named class is not compared.
AnyDriver(c, provisioner) == TRUE

\* The check on the class an annotation names.
ForDriver(c, provisioner) == EqualFold(c.driver, provisioner)

\* The class an annotation names; one for another driver, or a missing one, is
\* an error the caller only logs.
ClassFromAnnotation(list, annotation, provisioner) ==
    IF \E i \in DOMAIN list : list[i].name = annotation /\ ForDriver(list[i], provisioner)
    THEN annotation ELSE NoName

\* The annotation of the PVC goes before the one of the backup.
ClassFromAnnotations(list, provisioner, pvcAnnotation, backupAnnotation) ==
    LET byPVC == ClassFromAnnotation(list, pvcAnnotation, provisioner) IN
    IF byPVC # NoName THEN byPVC
    ELSE ClassFromAnnotation(list, backupAnnotation, provisioner)

\* The locals of GetVolumeSnapshotClassForStorageClass: the items it has looked
\* at, how many of them are of the driver, and the last of these.
NoScan == [seen |-> 0, n |-> 0, last |-> NoName]

\* Mutant: classes of other drivers are counted.
LookedAtAny(scan, c, provisioner) ==
    [seen |-> scan.seen + 1, n |-> scan.n + 1, last |-> c.name]

\* It has looked at class c, which is not the one to return at once.
Looked(scan, c, provisioner) ==
    IF c.driver = provisioner
    THEN [seen |-> scan.seen + 1, n |-> scan.n + 1, last |-> c.name]
    ELSE [scan EXCEPT !.seen = @ + 1]

\* Mutant: the last class of the driver is taken without a label.
LastClass(scan) == scan.last

\* What is left when no class of the driver has the label.
WithoutLabel(scan) == IF scan.n = 1 THEN scan.last ELSE NoName
=============================================================================
