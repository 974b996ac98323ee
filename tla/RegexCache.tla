----------------------------- MODULE RegexCache -----------------------------
(***************************************************************************)
(* RegexCache (src/src/logs/transform.rs): the compiled patterns of a      *)
(* script's re_match and re_sub, kept for the life of the environment in   *)
(* a map and, in the order in which they came, in a list.  The pattern at  *)
(* the front of the list makes room for a new one.                         *)
(*                                                                         *)
(* One call at a time: the cache is behind a mutex for all of it.          *)
(***************************************************************************)
EXTENDS Naturals, Sequences, FiniteSets, Functions

CONSTANTS
  Pattern,     (* patterns of the scripts                                   *)
  Invalid,     (* those that do not compile                                 *)
  MaxEntries   (* REGEX_CACHE_MAX                                           *)

ASSUME RegexAssumption ==
  /\ Invalid \subseteq Pattern
  /\ MaxEntries \in Nat \ {0}

VARIABLES
  entries,  (* patterns in the map                                          *)
  order,    (* the list                                                     *)
  newer     (* history: for each compiled pattern, those compiled since     *)

regexVars == <<entries, order, newer>>

RegexTypeOK ==
  /\ entries \subseteq Pattern \ Invalid
  /\ order \in Seq(Pattern)
  /\ DOMAIN newer \subseteq Pattern
  /\ \A p \in DOMAIN newer : newer[p] \subseteq Pattern

RegexInit ==
  /\ entries = {}
  /\ order = <<>>
  /\ newer = [p \in {} |-> {}]

(* A cached pattern is returned, and stays where it is in the list.        *)
Hit(p) ==
  /\ p \in entries
  /\ UNCHANGED regexVars

(* A pattern that does not compile leaves the cache as it is. *)
CompileFails(p) ==
  /\ p \notin entries
  /\ p \in Invalid
  /\ UNCHANGED regexVars

Compiled(p) ==
  newer' = [q \in DOMAIN newer \union {p} |->
              IF q = p THEN {} ELSE newer[q] \union {p}]

(* Variant: the newest pattern makes room. *)
InsertOverNewest(p) ==
  /\ p \notin entries
  /\ p \notin Invalid
  /\ IF Cardinality(entries) >= MaxEntries
       THEN /\ entries' = (entries \ {order[Len(order)]}) \union {p}
            /\ order' = Append(SubSeq(order, 1, Len(order) - 1), p)
       ELSE /\ entries' = entries \union {p}
            /\ order' = Append(order, p)
  /\ Compiled(p)

(* Variant: what makes room leaves the list, and stays in the map. *)
InsertKeepingEntry(p) ==
  /\ p \notin entries
  /\ p \notin Invalid
  /\ entries' = entries \union {p}
  /\ order' = Append(IF Cardinality(entries) >= MaxEntries THEN Tail(order) ELSE order, p)
  /\ Compiled(p)

(* The pattern is compiled and goes to the end of the list. *)
Insert(p) ==
  /\ p \notin entries
  /\ p \notin Invalid
  /\ IF Cardinality(entries) >= MaxEntries
       THEN /\ entries' = (entries \ {Head(order)}) \union {p}
            /\ order' = Append(Tail(order), p)
       ELSE /\ entries' = entries \union {p}
            /\ order' = Append(order, p)
  /\ Compiled(p)

RegexNext == \E p \in Pattern : Hit(p) \/ CompileFails(p) \/ Insert(p)

RegexSpec == RegexInit /\ [][RegexNext]_regexVars

-----------------------------------------------------------------------------
(* The list and the map have the same patterns, each of them once, and no  *)
(* more than REGEX_CACHE_MAX, whatever patterns records are turned into    *)
(* (transform.rs:501-503): otherwise what the list names would not make    *)
(* room, and the map would grow.                                           *)
Consistent ==
  /\ entries = Range(order)
  /\ IsInjective(order)
  /\ Len(order) <= MaxEntries

(* A pattern is compiled again only after REGEX_CACHE_MAX others: a script *)
(* with fewer compiles each of its patterns once (transform.rs:536-537).   *)
CompiledOnce ==
  \A p \in DOMAIN newer : Cardinality(newer[p]) < MaxEntries => p \in entries

(* The cache stays within its limit and keeps what it is expected to keep. *)
PatternsAreKept == Consistent /\ CompiledOnce
=============================================================================
