------------------------------ MODULE EcrScan ------------------------------
(***************************************************************************)
(* process_ecr_scan_event: an ECR scan event names an image; its findings  *)
(* are fetched from ECR with one call, each finding that has attributes    *)
(* becomes a log that names the vulnerable package, and the counts by      *)
(* severity become one more.  The package's name and version are searched  *)
(* among the attributes, one attribute per step.                           *)
(*                                                                         *)
(* ECR answers one page of at most PageSize findings with the counts of    *)
(* the whole scan; the code asks for no further page.                      *)
(***************************************************************************)
EXTENDS Naturals, Sequences, SequencesExt

CONSTANTS Values,       \* values an attribute may have
          MaxFindings,  \* findings of an image
          MaxAttributes,\* attributes of a finding
          PageSize      \* findings in ECR's answer

\* The keys that are looked for; an attribute with another one is no more
\* than a part of the log.
Keys == {"package_name", "package_version"}
Attributes == [key : Keys, value : Values \cup {"absent"}]

\* A finding is the sequence of its attributes; it may have no such list.
NoList == <<[key |-> "no list", value |-> "absent"]>>
Findings == BoundedSeq(Attributes, MaxAttributes) \cup {NoList}
Summary == <<0, "counts", "by severity">>

VARIABLES found,     \* the image's findings, as ECR has them
          listed,    \* ECR's answer has a list of findings
          counted,   \* ECR's answer has counts by severity
          i, j,      \* the finding and the attribute in hand
          name, version, \* what was found of the package, so far
          logs,
          answer     \* "none", "ok" or "error"

\* To be stated as an assumption where the module is instantiated.
ConstantsOK == MaxFindings \in Nat /\ MaxAttributes \in Nat /\ PageSize \in Nat

vars == <<found, listed, counted, i, j, name, version, logs, answer>>

Page == SubSeq(found, 1, IF Len(found) < PageSize THEN Len(found) ELSE PageSize)
Current == Page[i]

Init ==
    /\ found \in BoundedSeq(Findings, MaxFindings)
    /\ listed \in BOOLEAN
    /\ counted \in BOOLEAN
    /\ i = 0 /\ j = 0
    /\ name = "NO_PACKAGE" /\ version = "NO_VERSION"
    /\ logs = <<>>
    /\ answer = "none"

Fixed == UNCHANGED <<found, listed, counted>>

\* The call fails, or the scan has no findings structure at all.
AskFails ==
    /\ answer = "none" /\ i = 0
    /\ answer' = "error"
    /\ Fixed /\ UNCHANGED <<i, j, name, version, logs>>

\* Without a list nothing is logged, the counts included.
Ask ==
    /\ answer = "none" /\ i = 0
    /\ IF listed THEN i' = 1 /\ answer' = answer ELSE i' = i /\ answer' = "ok"
    /\ Fixed /\ UNCHANGED <<j, name, version, logs>>

InLoop == answer = "none" /\ i \in 1 .. Len(Page)

\* Variant: the package is set up once, before the loop over the findings.
StartFindingOnce ==
    /\ InLoop /\ j = 0
    /\ IF Current = NoList
         THEN i' = i + 1 /\ j' = 0
         ELSE i' = i /\ j' = 1
    /\ Fixed /\ UNCHANGED <<name, version, logs, answer>>

\* A finding without a list of attributes is passed over.
StartFinding ==
    /\ InLoop /\ j = 0
    /\ IF Current = NoList
         THEN i' = i + 1 /\ j' = 0
         ELSE i' = i /\ j' = 1
    /\ name' = "NO_PACKAGE" /\ version' = "NO_VERSION"
    /\ Fixed /\ UNCHANGED <<logs, answer>>

\* What stands for a value that is absent.
Or(value, default) == IF value = "absent" THEN default ELSE value

\* The first attribute with a value gives the name, and so for the version.
ReadAttribute ==
    /\ InLoop /\ j \in 1 .. Len(Current)
    /\ LET a == Current[j]
       IN  /\ name' = IF name = "NO_PACKAGE" /\ a.key = "package_name"
                        THEN Or(a.value, "NO_PACKAGE") ELSE name
           /\ version' = IF version = "NO_VERSION" /\ a.key = "package_version"
                           THEN Or(a.value, "NO_VERSION") ELSE version
    /\ j' = j + 1
    /\ Fixed /\ UNCHANGED <<i, logs, answer>>

PushFinding ==
    /\ InLoop /\ j > Len(Current)
    /\ logs' = Append(logs, <<i, name, version>>)
    /\ i' = i + 1
    /\ j' = 0
    /\ Fixed /\ UNCHANGED <<name, version, answer>>

\* Variant: the counts are logged with each answer, found or not.
PushCountsAlways ==
    /\ answer = "none" /\ i > Len(Page) /\ i > 0
    /\ logs' = Append(logs, Summary)
    /\ answer' = "ok"
    /\ Fixed /\ UNCHANGED <<i, j, name, version>>

\* The counts come after the findings, if the answer has them.
PushCounts ==
    /\ answer = "none" /\ i > Len(Page) /\ i > 0
    /\ logs' = IF counted THEN Append(logs, Summary) ELSE logs
    /\ answer' = "ok"
    /\ Fixed /\ UNCHANGED <<i, j, name, version>>

Next == AskFails \/ Ask \/ StartFinding \/ ReadAttribute \/ PushFinding \/ PushCounts

Spec == Init /\ [][Next]_vars

-----------------------------------------------------------------------------
(* Properties                                                              *)

\* The first value given for a key among a finding's attributes; a value
\* that is the placeholder itself counts as none.
FirstOf(key, attributes, default) ==
    LET given == {n \in 1 .. Len(attributes) :
                    attributes[n].key = key /\ attributes[n].value \notin {"absent", default}}
    IN  IF given = {} THEN default ELSE attributes[Min(given)].value

\* A log that names a package and a version names those of its own finding,
\* and the placeholders when that finding gives none, whatever the findings
\* before it had.
PackageIsOwn ==
    \A k \in 1 .. Len(logs) : logs[k] # Summary =>
        LET attributes == Page[logs[k][1]]
        IN  /\ logs[k][2] = FirstOf("package_name", attributes, "NO_PACKAGE")
            /\ logs[k][3] = FirstOf("package_version", attributes, "NO_VERSION")

\* A scan that was answered has a log for every finding of the page that has
\* attributes, once and in ECR's order, and the counts once, at the end,
\* exactly if ECR sent them with its list.
ScanIsComplete ==
    answer = "ok" =>
        LET reports == {k \in 1 .. Len(logs) : logs[k] # Summary}
        IN  /\ {logs[k][1] : k \in reports} =
                 {k \in 1 .. Len(Page) : listed /\ Page[k] # NoList}
            /\ \A k, n \in reports : k < n => logs[k][1] < logs[n][1]
            /\ (1 .. Len(logs)) \ reports = IF listed /\ counted THEN {Len(logs)} ELSE {}

\* A scan's logs are those of its findings, with nothing of each other.
ScanIsReported == PackageIsOwn /\ ScanIsComplete
=============================================================================
