------------------------------ MODULE MCScript ------------------------------
(***************************************************************************)
(* What the Starlark script goes through, for TLC in one run, with and     *)
(* without a script: one part runs, the others stay in an initial state.   *)
(***************************************************************************)
EXTENDS Scripting

VARIABLE part                                 (* the one that runs           *)

NoScript == INSTANCE TransformerCache WITH HasScript <- FALSE

ALog == <<[quotes |-> 0, core |-> "word"]>>

MCInit ==
  /\ part \in {"cache", "none", "regex", "transform", "source"}
  /\ Init
  /\ RegexInit
  /\ IF part = "transform" THEN T!Init ELSE after = FALSE /\ logs = ALog /\ T!Init
  /\ IF part = "source" THEN S!Init
     ELSE /\ form = "raw" /\ role = FALSE
          /\ script = [size |-> 0, text |-> TRUE, ends |-> "length"]
          /\ S!Init

MCVars == <<part, vars, regexVars, transform, source>>

Caching      == part = "cache" /\ Next /\ UNCHANGED <<part, regexVars, transform, source>>
Absent       == part = "none" /\ NoScript!Next /\ UNCHANGED <<part, regexVars, transform, source>>
Compiling    == part = "regex" /\ RegexNext /\ UNCHANGED <<part, vars, transform, source>>
Transforming == part = "transform" /\ T!Next /\ UNCHANGED <<part, vars, regexVars, source>>
Sourcing     == part = "source" /\ S!Next /\ UNCHANGED <<part, vars, regexVars, transform>>

MCNext == Caching \/ Absent \/ Compiling \/ Transforming \/ Sourcing

(* The fairness of module TransformerCache, for the part that runs.        *)
MCFairness ==
  /\ WF_vars(part = "cache" /\ Tick)
  /\ WF_vars(part = "none" /\ NoScript!Tick)
  /\ \A t \in Task :
       /\ WF_vars(part = "cache" /\ (UseCache(t) \/ BeginResolve(t)))
       /\ WF_vars(part = "cache" /\ ResolveTimeout(t))
       /\ WF_vars(part = "cache" /\ CompileEnds(t))
       /\ WF_vars(part = "none" /\ NoScript!UseCache(t))

MCSpec == MCInit /\ [][MCNext]_MCVars /\ MCFairness
=============================================================================
