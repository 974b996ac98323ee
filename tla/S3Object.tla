------------------------------ MODULE S3Object ------------------------------
(***************************************************************************)
(* The logs of one S3 object (src/src/logs/process.rs): s3 downloads it,   *)
(* decompresses it if its kind or its name says so, takes it apart by the  *)
(* integration type, drops what matches the blocking pattern, keeps every  *)
(* n-th log of the rest, and hands them to the pipeline, which leaves out  *)
(* the blank ones.                                                         *)
(*                                                                         *)
(* The text of an object is a sequence of marks: the newline pattern, a    *)
(* blank, a #Version line's start, text that matches the blocking pattern  *)
(* and text that does not.  A log is the part of the text it was made of,  *)
(* with its place and, for rows, the line whose fields are its keys.       *)
(***************************************************************************)
EXTENDS Naturals, Sequences, FiniteSets, SequencesExt

CONSTANTS
  MaxMarks,  (* bound: most marks of a text                                 *)
  Mark,      (* those a text may hold, of "nl", " ", "#", "b" and "x"       *)
  Sampling   (* values of SAMPLING                                          *)

(* To be stated as an assumption where the module is instantiated. *)
ConstantsOK == MaxMarks \in Nat /\ Sampling \subseteq Nat

VARIABLES
  kind,      (* integration_type                                            *)
  zipped,    (* whether the name ends in .gz                                *)
  blocking,  (* whether there is a blocking pattern                         *)
  sampling,
  custom,    (* whether CUSTOM_CSV_HEADER is set                            *)
  object,    (* the text of the object                                      *)
  text,      (* what was decompressed of it                                 *)
  stage,     (* what comes next                                             *)
  found,     (* the logs taken from the text                                *)
  logs,      (* the logs to ship                                            *)
  answer     (* result of the invocation                                    *)

input == <<kind, zipped, blocking, sampling, custom, object>>
vars == <<input, text, stage, found, logs, answer>>

Kind == {"VpcFlow", "S3Csv", "CloudFront", "S3", "CloudTrail", "other"}

Init ==
  /\ kind \in Kind
  /\ zipped \in IF kind \in {"VpcFlow", "CloudTrail"} THEN {TRUE} ELSE BOOLEAN
  /\ custom \in IF kind = "S3Csv" THEN BOOLEAN ELSE {FALSE}
  /\ blocking \in BOOLEAN
  /\ sampling \in Sampling
  /\ \E n \in 0 .. MaxMarks : object \in [1 .. n -> Mark]
  /\ text = <<>>
  /\ stage = "download"
  /\ found = <<>>
  /\ logs = <<>>
  /\ answer = "none"

-----------------------------------------------------------------------------
At(s) == answer = "none" /\ stage = s

(* The object matches no processing: nothing is downloaded or shipped. *)
Mismatch ==
  /\ At("download")
  /\ kind = "other"
  /\ stage' = "ship"
  /\ UNCHANGED <<input, text, found, logs, answer>>

(* get_bytes_from_s3 *)
Download ==
  /\ At("download")
  /\ kind # "other"
  /\ stage' = "unzip"
  /\ UNCHANGED <<input, text, found, logs, answer>>

(* The object is not compressed, or is no bytes at all. *)
TakeWhole ==
  /\ At("unzip")
  /\ ~ zipped \/ object = <<>>
  /\ text' = object
  /\ stage' = "parse"
  /\ UNCHANGED <<input, found, logs, answer>>

(* Variant: decompression goes on behind a broken part. *)
UnzipSkipping ==
  /\ At("unzip")
  /\ zipped
  /\ \E n \in DOMAIN object : text' = RemoveAt(object, n)
  /\ stage' = "parse"
  /\ UNCHANGED <<input, found, logs, answer>>

(* gunzip: what was decompressed before an error is kept. *)
Unzip ==
  /\ At("unzip")
  /\ zipped
  /\ \E n \in 1 .. Len(object) : text' = SubSeq(object, 1, n)
  /\ stage' = "parse"
  /\ UNCHANGED <<input, found, logs, answer>>

(* The download is refused, nothing can be decompressed, the text is not   *)
(* UTF-8, or a CloudTrail text is not JSON.                                *)
Unreadable ==
  /\ answer = "none"
  /\ \/ stage = "download" /\ kind # "other"
     \/ stage = "unzip"
     \/ stage = "parse" /\ kind = "CloudTrail"
  /\ answer' = "err"
  /\ UNCHANGED <<input, text, stage, found, logs>>

(* The newlines among the first n marks. *)
Newlines(n) == Cardinality({p \in 1 .. n : text[p] = "nl"})

(* The place of the k-th newline; the borders of the text are such, too. *)
Newline(k) ==
  IF k = 0 THEN 0
  ELSE IF k > Newlines(Len(text)) THEN Len(text) + 1
  ELSE CHOOSE p \in DOMAIN text : text[p] = "nl" /\ Newlines(p) = k

(* split: the parts between matches of the pattern; a match at the very    *)
(* start makes no log.                                                     *)
Lines ==
  LET skipped == IF text # <<>> /\ text[1] = "nl" THEN 1 ELSE 0 IN
  [k \in 1 .. Newlines(Len(text)) + 1 - skipped |->
     [ line   |-> k + skipped,
       header |-> 0,
       part   |-> SubSeq(text, Newline(k + skipped - 1) + 1, Newline(k + skipped) - 1) ]]

Blank(log) == \A p \in DOMAIN log.part : log.part[p] = " "

NotBlank(s) == FlattenSeq([k \in DOMAIN s |-> IF Blank(s[k]) THEN <<>> ELSE <<s[k]>>])

(* process_s3 *)
ParseLines ==
  /\ At("parse")
  /\ kind = "S3"
  /\ found' = Lines
  /\ stage' = "select"
  /\ UNCHANGED <<input, text, logs, answer>>

(* Lines before the rows: a header, behind a version line if there is one. *)
Versioned == kind # "VpcFlow" /\ Lines[1].part # <<>> /\ Lines[1].part[1] = "#"

(* Variant: a version line is skipped, but not the header behind it. *)
HeadersUnversioned == 1

Headers == IF Versioned THEN 2 ELSE 1

HeaderLine == IF custom /\ ~ Versioned THEN 0 ELSE Lines[Headers].line

(* process_vpcflows, process_csv and parse_records: rows that are not      *)
(* blank, under the names of the header.                                   *)
ParseRows ==
  /\ At("parse")
  /\ kind \in {"VpcFlow", "S3Csv", "CloudFront"}
  /\ Len(Lines) >= Headers
  /\ found' = LET rows == NotBlank(SubSeq(Lines, Headers + 1, Len(Lines))) IN
              [k \in DOMAIN rows |-> [rows[k] EXCEPT !.header = HeaderLine]]
  /\ stage' = "select"
  /\ UNCHANGED <<input, text, logs, answer>>

(* A version line alone: the index is out of bounds. *)
ParsePanics ==
  /\ At("parse")
  /\ kind \in {"S3Csv", "CloudFront"}
  /\ Len(Lines) < Headers
  /\ answer' = "err"
  /\ UNCHANGED <<input, text, stage, found, logs>>

(* process_cloudtrail: each of the Records is a log; JSON of another shape *)
(* has none.                                                               *)
ParseCloudTrail ==
  /\ At("parse")
  /\ kind = "CloudTrail"
  /\ text # <<>>
  /\ \/ found' = [k \in DOMAIN text |-> [line |-> k, header |-> 0, part |-> <<text[k]>>]]
     \/ found' = <<>>
  /\ stage' = "select"
  /\ UNCHANGED <<input, text, logs, answer>>

Blocked(log) == blocking /\ \E p \in DOMAIN log.part : log.part[p] = "b"

(* block *)
Unblocked(s) == FlattenSeq([k \in DOMAIN s |-> IF Blocked(s[k]) THEN <<>> ELSE <<s[k]>>])

(* sample: step_by. *)
Sample(s) == [k \in 1 .. (Len(s) + sampling - 1) \div sampling |-> s[(k - 1) * sampling + 1]]

(* Variant: sampled before blocked. *)
SelectedSampledFirst(s) == Unblocked(Sample(s))

Selected(s) == Sample(Unblocked(s))

(* A pattern that does not compile or a sampling of zero: the invocation   *)
(* fails.                                                                  *)
Select ==
  /\ At("select")
  /\ IF sampling = 0
       THEN answer' = "err" /\ UNCHANGED <<stage, logs>>
       ELSE logs' = Selected(found) /\ stage' = "ship" /\ UNCHANGED answer
  /\ UNCHANGED <<input, text, found>>

(* process_batches takes over, without the blank logs: ExportPipeline.     *)
Ship ==
  /\ At("ship")
  /\ logs' = NotBlank(logs)
  /\ answer' \in IF logs' = <<>> THEN {"ok"} ELSE {"ok", "err"}
  /\ UNCHANGED <<input, text, stage, found>>

Next ==
  \/ Mismatch \/ Download \/ TakeWhole \/ Unzip \/ Unreadable
  \/ ParseLines \/ ParseRows \/ ParsePanics \/ ParseCloudTrail
  \/ Select \/ Ship

Spec == Init /\ [][Next]_vars

-----------------------------------------------------------------------------
Rows == kind \in {"VpcFlow", "S3Csv", "CloudFront"}

(* The n-th unblocked log is shipped if n = 1, 1 + sampling, 1 + 2 *       *)
(* sampling, ... and nothing else is: a blocked log is neither shipped nor *)
(* counted, wherever it stands (process.rs:1196-1215).                     *)
EveryNthUnblocked ==
  stage = "ship" /\ answer = "none" =>
    \A k \in DOMAIN found :
      LET before == Cardinality({j \in 1 .. k - 1 : ~ Blocked(found[j])}) IN
      found[k] \in ToSet(logs) <=> ~ Blocked(found[k]) /\ before % sampling = 0

(* Neither a header nor a version line is shipped as a row, all rows are   *)
(* keyed by the same line, which is before them, and none is blank.        *)
RowsAreData ==
  Rows => \A k \in DOMAIN found :
    /\ found[k].header < found[k].line
    /\ found[k].header = found[1].header
    /\ ~ Blank(found[k])
    /\ \E j \in DOMAIN Lines :
         /\ j > 1
         /\ Lines[j].line = found[k].line
         /\ Versioned => j > 2 /\ found[k].header = Lines[2].line

(* A log of an archive that breaks off is a log of the whole object, but   *)
(* for the last, which may be cut short: no text is taken for the text of  *)
(* another line, and nothing is shipped twice.                             *)
BrokenArchiveIsPrefix ==
  /\ \A k \in DOMAIN logs : k > 1 => logs[k].line > logs[k - 1].line
  /\ kind = "S3" =>
       \A k \in DOMAIN found :
         found[k].line <= Newlines(Len(text)) =>
           \E p \in DOMAIN object :
             /\ p > Len(found[k].part) /\ object[p] = "nl"
             /\ SubSeq(object, p - Len(found[k].part), p - 1) = found[k].part
             /\ found[k].line = Cardinality({q \in 1 .. p : object[q] = "nl"})

(* What is shipped of an object: its data, in order, sampled as the code   *)
(* says, whatever its kind and wherever an archive breaks off.             *)
RightLogs == EveryNthUnblocked /\ RowsAreData /\ BrokenArchiveIsPrefix
=============================================================================
