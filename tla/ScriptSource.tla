---------------------------- MODULE ScriptSource ----------------------------
(***************************************************************************)
(* resolve_starlark_script (src/src/logs/config.rs): where the script is   *)
(* taken from, told by the form of STARLARK_SCRIPT, and its download from  *)
(* S3, under an assumed role if there is one, or from a URL.  Module       *)
(* TransformerCache calls it and caches what it gives.                     *)
(***************************************************************************)
EXTENDS Naturals

CONSTANTS
  MaxBytes,  (* MAX_SCRIPT_BYTES                                            *)
  MaxSize    (* bound: size of the largest script                           *)

(* To be stated as an assumption where the module is instantiated. *)
ConstantsOK == MaxBytes \in Nat /\ MaxSize \in Nat

VARIABLES
  form,      (* what STARLARK_SCRIPT is                                     *)
  role,      (* LAMBDA_ASSUME_ROLE is set                                   *)
  script,    (* the script at the source: its size, whether it is text, and *)
             (* how the end of a download is told                           *)
  step,      (* what is done next                                           *)
  identity,  (* whose credentials the S3 client has                         *)
  received,  (* bytes of the download so far                                *)
  result     (* what resolve_starlark_script returns                        *)

input == <<form, role, script>>
vars == <<input, step, identity, received, result>>

(* A length in the header, chunks with a last one, or the connection that  *)
(* is closed, for which no early end is too early.                         *)
Framing == {"length", "chunks", "close"}

Result == {"none", "script", "no script", "bad path", "denied", "too large",
           "broken", "not text"}

TypeOK ==
  /\ form \in {"unset", "s3", "bad s3", "url", "base64", "raw"}
  /\ role \in BOOLEAN
  /\ script \in [size : 0 .. MaxSize, text : BOOLEAN, ends : Framing]
  /\ step \in {"detect", "assume", "request", "read", "done"}
  /\ identity \in {"nobody", "lambda", "role"}
  /\ received \in 0 .. MaxBytes
  /\ result \in Result

Init ==
  /\ form \in {"unset", "s3", "bad s3", "url", "base64", "raw"}
  /\ role \in BOOLEAN
  /\ script \in [size : 0 .. MaxSize, text : BOOLEAN, ends : Framing]
  /\ step = "detect"
  /\ identity = "nobody"
  /\ received = 0
  /\ result = "none"

-----------------------------------------------------------------------------
Ends(with) ==
  /\ result' = with
  /\ step' = "done"
  /\ UNCHANGED <<input, identity, received>>

Text == IF script.text THEN "script" ELSE "not text"

(* Without a download: nothing is configured, or the script itself is,     *)
(* as it is or in Base64, whose bytes need not be text.                    *)
Inline ==
  /\ step = "detect"
  /\ \/ form = "unset" /\ Ends("no script")
     \/ form = "raw" /\ Ends("script")
     \/ form = "base64" /\ (Ends(Text) \/ Ends("broken"))

(* parse_s3_path: a path without a bucket or without a key. *)
BadPath ==
  /\ step = "detect"
  /\ form = "bad s3"
  /\ Ends("bad path")

Locate ==
  /\ step = "detect"
  /\ form \in {"s3", "url"}
  /\ step' = IF form = "s3" /\ role THEN "assume" ELSE "request"
  /\ identity' = IF form = "s3" /\ ~ role THEN "lambda" ELSE identity
  /\ UNCHANGED <<input, received, result>>

(* Variant: the Lambda's own credentials do if the role's cannot be had.   *)
AssumeRoleOrOwn ==
  /\ step = "assume"
  /\ identity' \in {"lambda", "role"}
  /\ step' = "request"
  /\ UNCHANGED <<input, received, result>>

AssumeRole ==
  /\ step = "assume"
  /\ \/ /\ identity' = "role"
        /\ step' = "request"
        /\ UNCHANGED <<input, received, result>>
     \/ Ends("denied")

(* The object or the document is refused, or has too many bytes as its     *)
(* length says, if it has one.                                             *)
Request ==
  /\ step = "request"
  /\ IF script.ends = "length" /\ script.size > MaxBytes
       THEN Ends("too large") \/ Ends("denied")
       ELSE \/ Ends("denied")
            \/ /\ step' = "read"
               /\ UNCHANGED <<input, identity, received, result>>

(* Variant: a script of the greatest size is too large. *)
TooManyFull(n) == received + n >= MaxBytes

TooMany(n) == received + n > MaxBytes

(* A chunk is added unless there would be too many bytes. *)
Read ==
  /\ step = "read"
  /\ \E n \in 1 .. MaxSize :
       /\ n <= script.size - received
       /\ IF TooMany(n)
            THEN Ends("too large")
            ELSE /\ received' = received + n
                 /\ UNCHANGED <<input, identity, step, result>>

(* Variant: a download that breaks off ends like any other. *)
ReadEndsEarly ==
  /\ step = "read"
  /\ Ends(Text)

(* All bytes are there, or seem to be: a part of a text may be cut within  *)
(* a character, and a part of something else be text.                      *)
ReadEnds ==
  /\ step = "read"
  /\ \/ received = script.size /\ Ends(Text)
     \/ /\ script.ends = "close" /\ received < script.size
        /\ Ends("script") \/ Ends("not text")

(* The connection breaks, or times out. *)
ReadFails ==
  /\ step = "read"
  /\ Ends("broken")

Next ==
  \/ Inline \/ BadPath \/ Locate \/ AssumeRole \/ Request
  \/ Read \/ ReadEnds \/ ReadFails

Spec == Init /\ [][Next]_vars

-----------------------------------------------------------------------------
(* A script that was downloaded is all of it, and text: one that breaks    *)
(* off is never compiled, unlike a broken archive of logs, which is kept   *)
(* (config.rs:646-659, :680-690).  The exception is a source that only     *)
(* closes the connection: what it has sent by then is taken for all.       *)
WholeScript ==
  result = "script" /\ form \in {"s3", "url"} =>
    \/ received = script.size /\ script.text
    \/ script.ends = "close" /\ received < script.size

(* A script is too large only if it has more than MAX_SCRIPT_BYTES,        *)
(* however its end is told (config.rs:637-655, :672-687).                  *)
TooLargeIfLarger == result = "too large" => script.size > MaxBytes

(* An object is read as the role that is configured, never as the Lambda   *)
(* itself because the role cannot be assumed (config.rs:594-623).          *)
ReadAsRole ==
  step = "read" => identity = IF form = "url" THEN "nobody"
                              ELSE IF role THEN "role" ELSE "lambda"

(* A script is whole, as large as allowed, and read as the right identity. *)
SourceIsSound == TypeOK /\ WholeScript /\ TooLargeIfLarger /\ ReadAsRole
=============================================================================
