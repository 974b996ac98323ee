----------------------------- MODULE Scripting -----------------------------
(***************************************************************************)
(* What the Starlark script goes through, put together: its source is      *)
(* resolved on behalf of the cache of the transformer, the results it      *)
(* gives for a batch are collected, and the patterns it uses are cached.   *)
(* This module extends both caches and has an instance of the other parts. *)
(***************************************************************************)
EXTENDS TransformerCache, RegexCache

CONSTANTS
  MaxLogs, MaxQuotes,                                   (* ScriptTransform   *)
  MaxBytes, MaxSize                                     (* ScriptSource      *)

VARIABLES
  after, logs, slots, evaluated, results, done,
  form, role, script, step, identity, received, result

transform == <<after, logs, slots, evaluated, results, done>>
source    == <<form, role, script, step, identity, received, result>>

T == INSTANCE ScriptTransform
S == INSTANCE ScriptSource

ASSUME TransformAssumption == T!ConstantsOK
ASSUME SourceAssumption == S!ConstantsOK

-----------------------------------------------------------------------------
(* Each log gets the results the script made of it, in the form documented *)
(* for the stage, and its own body if the script fails.                    *)
ResultsAreOwn == T!ResultsAreOwn

(* A script is whole, as large as allowed, and read as the right identity. *)
SourceIsSound == S!SourceIsSound
=============================================================================
