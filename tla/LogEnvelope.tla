---------------------------- MODULE LogEnvelope ----------------------------
(***************************************************************************)
(* convert_to_processed_log (src/src/logs/coralogix.rs): what one log      *)
(* becomes before it is shipped, its name, its severity and its body, with *)
(* MetadataContext::evaluate of process.rs, which resolves a name.         *)
(*                                                                         *)
(* The application and the subsystem are named by the same rules: one name *)
(* stands for both.  A value is known by where it comes from.              *)
(***************************************************************************)
EXTENDS Integers, FiniteSets, FiniteSetsExt, Functions

CONSTANTS
  Field,      (* fields a JSON log may have                                 *)
  CustomKey   (* keys CUSTOM_METADATA may have                              *)

VARIABLES
  log,         (* the log: its kind, and which fields it has                *)
  configured,  (* the configured name: its form, its key or path, its regex *)
  mctx,        (* keys the MetadataContext of its record has                *)
  add,         (* keys of ADD_METADATA                                      *)
  custom,      (* keys of CUSTOM_METADATA                                   *)
  detect,      (* severity detection is not disabled                        *)
  stage,       (* next part to be made                                      *)
  name,        (* where the name comes from                                 *)
  body,        (* the body: each of its fields, or the message as it is     *)
  words,       (* severities whose words the log contains                   *)
  severity     (* the severity                                              *)

input == <<log, configured, mctx, add, custom, detect>>
vars == <<input, stage, name, body, words, severity>>

(* A text, a JSON object, or another JSON value.  A field has a string,    *)
(* number or boolean, or anything else.                                    *)
Log ==
  [kind : {"text", "other"}, fields : {[f \in {} |-> "scalar"]}]
    \union UNION {[kind : {"object"}, fields : [F -> {"scalar", "nested"}]] : F \in SUBSET Field}

(* Metadata keys, the second a deprecated name of the first; ADD_METADATA  *)
(* may name something else, too.                                           *)
Key == {"s3.bucket", "bucket_name"}
SourceOf(k) == IF k = "bucket_name" THEN "s3.bucket" ELSE k

(* "{{ $.field }}", "{{ key }}", "{{ key | r'regex' }}" with what becomes  *)
(* of the regex, one without a valid key, and a name without braces.       *)
Configured ==
  [form : {"json", "static"}, key : Field, regex : {"none"}]
    \union [form : {"key"}, key : {"s3.bucket"},
            regex : {"none", "invalid", "group", "empty", "unmatched"}]
    \union [form : {"malformed"}, key : {"none"}, regex : {"none"}]

(* LogSeverity, from Verbose and Debug to Critical. *)
Severity == 1 .. 6
Info == 3

(* The log as one field; the fields of f, and those of g it does not have. *)
Whole(k) == [f \in {k} |-> "log"]
Over(f, g) ==
  [k \in DOMAIN f \union DOMAIN g |-> IF k \in DOMAIN f THEN f[k] ELSE g[k]]

(* A body that is the message itself has it under no name. *)
Raw == Whole("")
BodyFields == {"", "message", "text", "cw.tags"} \union Key \union CustomKey \union Field

TypeOK ==
  /\ log \in Log
  /\ configured \in Configured
  /\ mctx \subseteq {"s3.bucket", "cw.tags"}
  /\ add \subseteq Key \union {"other"}
  /\ custom \subseteq CustomKey
  /\ detect \in BOOLEAN
  /\ stage \in {"name", "body", "severity", "done"}
  /\ name \in {"", "log", "metadata", "group", "unknown", "configured"}
  /\ DOMAIN body \subseteq BodyFields
  /\ Range(body) \subseteq {"log", "own", "metadata", "custom", "tags"}
  /\ words \subseteq Severity
  /\ severity \in Severity

Init ==
  /\ log \in Log
  /\ configured \in Configured
  /\ mctx \in SUBSET {"s3.bucket", "cw.tags"}
  /\ add \in SUBSET (Key \union {"other"})
  /\ custom \in SUBSET CustomKey
  /\ detect \in BOOLEAN
  /\ stage = "name"
  /\ name = ""
  /\ body = [k \in {} |-> "log"]
  /\ words = {}
  /\ severity = Info

-----------------------------------------------------------------------------
(* extract_json_value: the value at the path of a template, or at the      *)
(* configured name itself taken as a path.                                 *)
InLog ==
  /\ configured.form \in {"json", "static"}
  /\ configured.key \in DOMAIN log.fields
  /\ log.fields[configured.key] = "scalar"

(* Variant: a regex that does not match leaves the name unresolved. *)
EvaluateStrictly ==
  CASE configured.form = "static" -> "configured"
    [] configured.form = "key" /\ configured.key \in mctx
         /\ configured.regex \in {"none", "group"} ->
         IF configured.regex = "group" THEN "group" ELSE "metadata"
    [] OTHER -> "error"

(* MetadataContext::evaluate: a name without braces as it is; the value of *)
(* the key, or its first captured group that is not empty.                 *)
Evaluate ==
  CASE configured.form = "static" -> "configured"
    [] configured.form = "key" /\ configured.key \in mctx /\ configured.regex # "invalid" ->
         IF configured.regex = "group" THEN "group" ELSE "metadata"
    [] OTHER -> "error"

(* The log first, then its metadata; a template that is not resolved       *)
(* becomes "unknown-application" or "unknown-subsystem".                   *)
Name ==
  /\ stage = "name"
  /\ name' = IF InLog THEN "log"
             ELSE IF Evaluate = "error" THEN "unknown" ELSE Evaluate
  /\ stage' = "body"
  /\ UNCHANGED <<input, body, words, severity>>

(* with_selected_metadata: the known keys that the context has.            *)
Selected == [k \in {k \in add \intersect Key : SourceOf(k) \in mctx} |-> "metadata"]

Custom == [k \in custom |-> "custom"]

Tags == [k \in {"cw.tags"} \intersect mctx |-> "tags"]

HasMetadata == DOMAIN Selected # {} \/ DOMAIN Custom # {}

(* Variant: tags in an envelope give way to custom metadata. *)
EnvelopedCustom == Over(Custom, Over(Tags, Over(Selected, Whole("message"))))

(* JsonMessage, serialized: of two fields with one name the last counts.   *)
Enveloped == Over(Tags, Over(Custom, Over(Selected, Whole("message"))))

(* A body of tags and nothing else: the fields of an object stay at the    *)
(* root, next to its tags.                                                 *)
Tagged ==
  CASE log.kind = "text"   -> Over(Tags, Whole("text"))
    [] log.kind = "object" -> Over(Tags, [f \in DOMAIN log.fields |-> "own"])
    [] log.kind = "other"  -> Over(Tags, Whole("message"))

(* Variant: an object of tags takes the place of the message. *)
WrapDropping ==
  /\ stage = "body"
  /\ body' = IF HasMetadata THEN Enveloped
             ELSE IF "cw.tags" \in mctx THEN Tags
             ELSE Raw
  /\ stage' = "severity"
  /\ UNCHANGED <<input, name, words, severity>>

Wrap ==
  /\ stage = "body"
  /\ body' = IF HasMetadata THEN Enveloped
             ELSE IF "cw.tags" \in mctx THEN Tagged
             ELSE Raw
  /\ stage' = "severity"
  /\ UNCHANGED <<input, name, words, severity>>

(* Variant: fatal, panic and critical are looked for before error. *)
TestsSwapped == <<2, 1, 3, 4, 6, 5>>

(* The order in which the words are looked for: those of debug, verbose,   *)
(* info, warn, error and critical.                                         *)
Tests == <<2, 1, 3, 4, 5, 6>>

(* get_severity_level: the last word that is found counts. *)
SeverityOf(found) ==
  IF ~ detect \/ found = {} THEN Info
  ELSE Tests[Max({i \in DOMAIN Tests : Tests[i] \in found})]

Grade ==
  /\ stage = "severity"
  /\ words' \in SUBSET Severity
  /\ severity' = SeverityOf(words')
  /\ stage' = "done"
  /\ UNCHANGED <<input, name, body>>

Next == Name \/ Wrap \/ Grade

Spec == Init /\ [][Next]_vars

-----------------------------------------------------------------------------
(* README.md:465-469 for a template of metadata: a matching regex gives    *)
(* its group, a regex that fails the raw value, a missing key the default. *)
(* A regex that does not compile gives the default, too, and no template   *)
(* with braces on both sides is ever shipped as a name (coralogix.rs:730).   *)
TemplatesResolve ==
  stage # "name" /\ configured.form # "static" =>
    /\ name # "configured"
    /\ configured.form = "key" =>
         /\ configured.key \notin mctx => name = "unknown"
         /\ configured.key \in mctx =>
              CASE configured.regex = "group"   -> name = "group"
                [] configured.regex = "invalid" -> name = "unknown"
                [] OTHER                        -> name = "metadata"

(* Whatever is attached to a log, it can be read back from its body: it is *)
(* the body, its message or text, or all of its fields next to the tags    *)
(* (coralogix.rs:782-829).  Only its own field "cw.tags" gives way to the  *)
(* tags of the log group; a custom key of the name "message" takes the     *)
(* place of the log.                                                       *)
LogIsKept ==
  stage \in {"severity", "done"} /\ "message" \notin custom =>
    \/ \E k \in {"", "message", "text"} \intersect DOMAIN body : body[k] = "log"
    \/ /\ log.kind = "object"
       /\ \A f \in DOMAIN log.fields \ {"cw.tags"} :
            f \in DOMAIN body /\ body[f] = "own"

(* README.md:571: a body has the metadata that was selected, and no other, *)
(* in whatever shape it is, but where a custom key has the same name; tags *)
(* are in it if and only if the log group has them, whatever the log or    *)
(* the custom metadata call "cw.tags".                                     *)
MetadataAsConfigured ==
  stage \in {"severity", "done"} =>
    /\ \A k \in Key \ custom : (k \in DOMAIN body /\ body[k] = "metadata")
                                 <=> k \in add /\ SourceOf(k) \in mctx
    /\ (\E k \in DOMAIN body : body[k] = "tags") <=> "cw.tags" \in mctx

(* A log that mentions something worse is never graded below it, from info *)
(* on (coralogix.rs:854-880); verbose goes below debug.                    *)
WorstWordCounts ==
  stage = "done" =>
    IF detect THEN \A w \in words : w >= Info => severity >= w
              ELSE severity = Info

(* A log is named, wrapped and graded without losing anything of it.       *)
EnvelopeIsFaithful ==
  TypeOK /\ TemplatesResolve /\ LogIsKept /\ MetadataAsConfigured /\ WorstWordCounts
=============================================================================
