-------------------------- MODULE ScriptTransform --------------------------
(***************************************************************************)
(* What a Starlark script makes of logs (src/src/logs/transform.rs), in    *)
(* the two places process_batches may call it from                         *)
(* (src/src/logs/coralogix.rs): before logs become bodies, as texts, and   *)
(* after it, as the bodies themselves.                                     *)
(*                                                                         *)
(* A text is a word, a number, an object or blanks in a number of quotes:  *)
(* without any, a word or blanks are no JSON; with one, a text is a JSON   *)
(* string of what is in them.  No metadata is attached.                    *)
(***************************************************************************)
EXTENDS Naturals, Sequences, SequencesExt

CONSTANTS
  MaxLogs,   (* bound: most logs of a batch                                 *)
  MaxQuotes  (* bound: most quotes around a log                             *)

(* To be stated as an assumption where the module is instantiated. *)
ConstantsOK == MaxLogs \in Nat /\ MaxQuotes \in Nat

VARIABLES
  after,      (* starlark_transform_after_metadata                          *)
  logs,       (* the logs of the batch                                      *)
  slots,      (* for each log evaluated so far, its outcomes                *)
  evaluated,  (* history: what the script did to each of these              *)
  results,    (* the bodies to be sent, each with its log                   *)
  done        (* the results are complete                                   *)

vars == <<after, logs, slots, evaluated, results, done>>

Text == [quotes : 0 .. MaxQuotes + 2, core : {"word", "number", "object", "blank"}]
Str(t)  == [type |-> "string", text |-> t]
Json(t) == [type |-> "json", text |-> t]

(* serde_json::from_str, or the text as a string. *)
Parse(t) ==
  IF t.quotes > 0 THEN Str([t EXCEPT !.quotes = @ - 1])
  ELSE IF t.core \in {"number", "object"} THEN Json(t)
  ELSE Str(t)

(* Variant: a string is serialized as its contents. *)
SerializeUnquoted(v) == v.text

(* serde_json::to_string *)
Serialize(v) ==
  IF v.type = "string" THEN [v.text EXCEPT !.quotes = @ + 1] ELSE v.text

(* What a text is in place of a result: a string is its contents. *)
Contents(v) == v.text

Blank(t) == t.quotes = 0 /\ t.core = "blank"

Word == [quotes |-> 0, core |-> "word"]

(* Scripts: [event], [event, event], [], [to_json(event)], [(1, 2)] with a *)
(* value that has no JSON form and becomes a string, [" "], and one that   *)
(* fails: an error, a result that is no list, a key that is no string.     *)
Script == {"same", "twice", "none", "to_json", "tuple", "blank", "fails"}

Run(script, v) ==
  CASE script = "same"    -> <<v>>
    [] script = "twice"   -> <<v, v>>
    [] script = "none"    -> <<>>
    [] script = "to_json" -> <<Str(Serialize(v))>>
    [] script = "tuple"   -> <<Str(Word)>>
    [] script = "blank"   -> <<Str([quotes |-> 0, core |-> "blank"])>>

(* TransformOutcome::PassThrough *)
PassThrough == [type |-> "pass through", text |-> Word]

Init ==
  /\ after \in BOOLEAN
  /\ \E n \in 1 .. MaxLogs :
       logs \in [1 .. n -> {t \in Text : t.quotes <= MaxQuotes /\ ~ Blank(t)}]
  /\ slots = <<>>
  /\ evaluated = <<>>
  /\ results = <<>>
  /\ done = FALSE

-----------------------------------------------------------------------------
(* What the script is given: the log parsed, or what parsing the serialized *)
(* body gives.                                                             *)
Event(i) == IF after THEN Parse(Serialize(Parse(logs[i]))) ELSE Parse(logs[i])

(* Variant: a log whose script fails has no slot. *)
EvaluateSkipping ==
  /\ Len(evaluated) < Len(logs)
  /\ \E script \in Script :
       /\ evaluated' = Append(evaluated, script)
       /\ slots' = IF script = "fails" THEN slots
                   ELSE Append(slots, Run(script, Event(Len(evaluated) + 1)))
  /\ UNCHANGED <<after, logs, results, done>>

(* transform_batch_grouped_values: one slot for each log.  A script may do *)
(* something else with each of them.                                       *)
Evaluate ==
  /\ Len(evaluated) < Len(logs)
  /\ \E script \in Script :
       /\ evaluated' = Append(evaluated, script)
       /\ slots' = Append(slots, IF script = "fails" THEN <<PassThrough>>
                                 ELSE Run(script, Event(Len(evaluated) + 1)))
  /\ UNCHANGED <<after, logs, results, done>>

(* No transformer can be had, now: every log passes. *)
Unavailable ==
  /\ evaluated = <<>>
  /\ slots' = [i \in DOMAIN logs |-> <<PassThrough>>]
  /\ evaluated' = [i \in DOMAIN logs |-> "fails"]
  /\ UNCHANGED <<after, logs, results, done>>

(* Variant: strings are serialized like any other result. *)
FromTextsSerialized(i) ==
  FlattenSeq([k \in DOMAIN slots[i] |->
    LET text == IF slots[i][k] = PassThrough THEN logs[i] ELSE Serialize(slots[i][k]) IN
    IF Blank(text) THEN <<>> ELSE <<[log |-> i, body |-> Parse(text)]>>])

(* Texts before metadata are attached: transform_batch_grouped, and        *)
(* convert_to_processed_log of those that are not blank.                   *)
FromTexts(i) ==
  FlattenSeq([k \in DOMAIN slots[i] |->
    LET text == IF slots[i][k] = PassThrough THEN logs[i] ELSE Contents(slots[i][k]) IN
    IF Blank(text) THEN <<>> ELSE <<[log |-> i, body |-> Parse(text)]>>])

DroppedBody(v) == v.type = "string" /\ Blank(v.text)

(* Variant: the text of the body is parsed once more for a log that passes. *)
FromBodiesReparsed(i) ==
  FlattenSeq([k \in DOMAIN slots[i] |->
    LET v == slots[i][k] IN
    IF DroppedBody(v) THEN <<>>
    ELSE <<[log |-> i, body |-> IF v = PassThrough THEN Parse(Contents(Parse(logs[i]))) ELSE v]>>])

(* Bodies behind the metadata: transform_processed_logs_after_metadata.    *)
FromBodies(i) ==
  FlattenSeq([k \in DOMAIN slots[i] |->
    LET v == slots[i][k] IN
    IF DroppedBody(v) THEN <<>>
    ELSE <<[log |-> i, body |-> IF v = PassThrough THEN Parse(logs[i]) ELSE v]>>])

Collect ==
  /\ Len(evaluated) = Len(logs)
  /\ ~ done
  /\ results' = FlattenSeq([i \in DOMAIN slots |->
                              IF after THEN FromBodies(i) ELSE FromTexts(i)])
  /\ done' = TRUE
  /\ UNCHANGED <<after, logs, slots, evaluated>>

Next == Evaluate \/ Unavailable \/ Collect

Spec == Init /\ [][Next]_vars

-----------------------------------------------------------------------------
Bodies(i) == {k \in DOMAIN results : results[k].log = i}

(* A log whose script fails, or for which there is no transformer, is sent *)
(* with the very body it has without a script (transform.rs:440-441).      *)
FailureKeepsBody ==
  done => \A i \in DOMAIN logs : evaluated[i] = "fails" =>
            /\ Cardinality(Bodies(i)) = 1
            /\ \A k \in Bodies(i) : results[k].body = Parse(logs[i])

(* A script that returns the event as it is keeps the body, with its type, *)
(* if it runs after the metadata (coralogix.rs:320-324).  If it runs       *)
(* before, it does so for what is no JSON string: of that it is given the  *)
(* contents, and they are parsed once more.                                *)
SameKeepsBody ==
  done => \A i \in DOMAIN logs :
    evaluated[i] \in {"same", "twice"} /\ (after \/ logs[i].quotes = 0) =>
      \A k \in Bodies(i) : results[k].body = Parse(logs[i])

(* What to_json makes is sent as a string if the script runs after the     *)
(* metadata, and is parsed again if it runs before (coralogix.rs:359).     *)
ToJsonByStage ==
  done => \A i \in DOMAIN logs : evaluated[i] = "to_json" =>
            \A k \in Bodies(i) :
              results[k].body = IF after THEN Str(Serialize(Event(i))) ELSE Event(i)

(* Results are in the order of their logs, and each log has as many as the *)
(* script made of it, whatever became of the logs before it: none if it    *)
(* made nothing or blanks, also if the log is a string of blanks, and one  *)
(* if it failed (transform.rs:438-441).                                    *)
OwnResults ==
  done =>
    /\ \A j, k \in DOMAIN results : j < k => results[j].log <= results[k].log
    /\ \A i \in DOMAIN logs :
         LET blank == Blank(Contents(Parse(logs[i]))) IN
         Cardinality(Bodies(i)) =
           CASE evaluated[i] \in {"none", "blank"}             -> 0
             [] evaluated[i] \in {"same", "twice"} /\ blank    -> 0
             [] evaluated[i] = "twice" /\ ~ blank              -> 2
             [] evaluated[i] = "same" /\ ~ blank               -> 1
             [] evaluated[i] \in {"to_json", "tuple", "fails"} -> 1

(* Each log gets the results the script made of it, in a form that depends *)
(* on the stage only as documented, and its own body if the script fails.  *)
ResultsAreOwn == FailureKeepsBody /\ SameKeepsBody /\ ToJsonByStage /\ OwnResults
=============================================================================
