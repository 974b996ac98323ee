------------------------------ MODULE TagCache ------------------------------
(***************************************************************************)
(* cloudwatch_logs with fetch_log_group_tags (src/src/logs/process.rs):    *)
(* one CloudWatch invocation after the other in one environment, whose     *)
(* static cache of log group tags survives them until the environment is   *)
(* lost.  Tags are enabled and the integration type is CloudWatch.          *)
(*                                                                         *)
(* Tags may change at any tick of the clock, so the tags of a group are    *)
(* named by the time the API read them; a group has tags or none.  Their   *)
(* age in the cache counts from the time the answer was stored.            *)
(***************************************************************************)
EXTENDS Naturals, Functions

CONSTANTS
  LogGroup,  (* the log groups of the environment's events                  *)
  Ttl,       (* log_group_tags_cache_ttl_seconds                            *)
  MaxRun,    (* longest an invocation may run: the Lambda timeout           *)
  MaxTime    (* bound: the clock                                            *)

ASSUME ConstantsAssumption == {Ttl, MaxRun, MaxTime} \subseteq Nat

VARIABLES
  now,      (* the clock                                                    *)
  cache,    (* LOG_GROUP_TAGS_CACHE                                         *)
  started,  (* when the invocation started                                  *)
  step,     (* where it is                                                  *)
  group,    (* its log group                                                *)
  read,     (* when the API read the tags that are on their way             *)
  tags,     (* the invocation's tags: from the API, the cache, or none      *)
  fetched,  (* history: when tags of a group were last fetched              *)
  failed    (* history: groups whose last fetch failed                      *)

vars == <<now, cache, started, step, group, read, tags, fetched, failed>>

Time == 0 .. MaxTime

(* Tags of a group as the API read them; the cache adds when it got them.  *)
Tags   == [group : LogGroup, read : Time, empty : BOOLEAN]
NoTags == [group |-> "none", read |-> 0, empty |-> TRUE]

TypeOK ==
  /\ now \in Time
  /\ DOMAIN cache \subseteq LogGroup
  /\ \A g \in DOMAIN cache : cache[g] \in [tags : Tags, at : 0 .. now]
  /\ started \in 0 .. now
  /\ step \in {"idle", "look", "fetch", "answered", "ship"}
  /\ group \in LogGroup
  /\ read \in 0 .. now
  /\ tags \in Tags \union {NoTags}
  /\ DOMAIN fetched \subseteq LogGroup
  /\ \A g \in DOMAIN fetched : fetched[g] \in 0 .. now
  /\ failed \subseteq LogGroup

Nothing      == [g \in {} |-> 0]
Without(f, g) == Restrict(f, DOMAIN f \ {g})
With(f, g, e) == [h \in DOMAIN f \union {g} |-> IF h = g THEN e ELSE f[h]]

Init ==
  /\ now = 0
  /\ cache = Nothing
  /\ started = 0
  /\ step = "idle"
  /\ group \in LogGroup
  /\ read = 0
  /\ tags = NoTags
  /\ fetched = Nothing
  /\ failed = {}

-----------------------------------------------------------------------------
(* An event of a log group arrives; its metadata starts from nothing.      *)
Invoke ==
  /\ step = "idle"
  /\ group' \in LogGroup
  /\ started' = now
  /\ tags' = NoTags
  /\ step' = "look"
  /\ UNCHANGED <<now, cache, read, fetched, failed>>

(* Variant: an entry may be as old as the TTL. *)
ExpiredAfter(g) == now - cache[g].at > Ttl

Expired(g) == now - cache[g].at >= Ttl

(* fetch_log_group_tags: a cached entry that has not expired is used. *)
Hit ==
  /\ step = "look"
  /\ Ttl > 0
  /\ group \in DOMAIN cache
  /\ ~ Expired(group)
  /\ tags' = cache[group].tags
  /\ step' = "ship"
  /\ UNCHANGED <<now, cache, started, group, read, fetched, failed>>

(* Without an entry, or with an expired one, which is removed first, and   *)
(* always if the TTL is zero, the API is asked.                            *)
Ask ==
  /\ step = "look"
  /\ Ttl > 0 /\ group \in DOMAIN cache => Expired(group)
  /\ cache' = IF Ttl > 0 THEN Without(cache, group) ELSE cache
  /\ step' = "fetch"
  /\ UNCHANGED <<now, started, group, read, tags, fetched, failed>>

(* The API reads the tags of the group; its answer is still on its way. *)
Read ==
  /\ step = "fetch"
  /\ read' = now
  /\ step' = "answered"
  /\ UNCHANGED <<now, cache, started, group, tags, fetched, failed>>

(* Variant: tags are cached only if there are any. *)
StoresTags(new) ==
  IF Ttl > 0 /\ ~ new.empty
    THEN With(cache, group, [tags |-> new, at |-> now]) ELSE cache

(* The answer is cached unless the TTL is zero, and without any tags too.  *)
Stores(new) ==
  IF Ttl > 0 THEN With(cache, group, [tags |-> new, at |-> now]) ELSE cache

Fetched ==
  /\ step = "answered"
  /\ \E new \in [group : {group}, read : {read}, empty : BOOLEAN] :
       /\ tags' = new
       /\ cache' = Stores(new)
  /\ fetched' = With(fetched, group, now)
  /\ failed' = failed \ {group}
  /\ step' = "ship"
  /\ UNCHANGED <<now, started, group, read>>

(* An error of the API is not cached; the invocation goes on without tags. *)
FetchFails ==
  /\ step \in {"fetch", "answered"}
  /\ failed' = failed \union {group}
  /\ fetched' = Without(fetched, group)
  /\ step' = "ship"
  /\ UNCHANGED <<now, cache, started, group, read, tags>>

(* process_cloudwatch_logs and process_batches; the invocation may fail,   *)
(* which leaves the environment as it is.                                  *)
Ship ==
  /\ step = "ship"
  /\ step' = "idle"
  /\ UNCHANGED <<now, cache, started, group, read, tags, fetched, failed>>

(* The environment is replaced: its invocation runs out of time, or it is  *)
(* taken away.  The static cache goes with it.                             *)
Replace ==
  /\ step' = "idle"
  /\ cache' = Nothing
  /\ fetched' = Nothing
  /\ failed' = {}
  /\ UNCHANGED <<now, started, group, read, tags>>

Tick ==
  /\ now < MaxTime
  /\ step # "idle" => now < started + MaxRun
  /\ now' = now + 1
  /\ UNCHANGED <<cache, started, step, group, read, tags, fetched, failed>>

Next ==
  \/ Invoke \/ Hit \/ Ask \/ Read \/ Fetched \/ FetchFails \/ Ship \/ Replace \/ Tick

Spec == Init /\ [][Next]_vars

-----------------------------------------------------------------------------
(* The tags an invocation ships are those of its own log group, and no     *)
(* older than the TTL and the time an invocation may take to store them:   *)
(* the age of an entry counts from when it was stored, not from when the   *)
(* API read it (process.rs:281).  With a TTL of zero they were read for    *)
(* this invocation.                                                        *)
TagsAreRecent ==
  tags # NoTags =>
    /\ tags.group = group
    /\ IF Ttl = 0 THEN tags.read >= started
                  ELSE started < tags.read + Ttl + MaxRun

(* Within the TTL of a fetch that succeeded the API is not asked again for *)
(* a group, not even for one that has no tags (process.rs:178).            *)
AskedOncePerTtl ==
  [][Ask /\ group \in DOMAIN fetched => now >= fetched[group] + Ttl]_vars

(* A failed fetch is retried by the next invocation of the group           *)
(* (process.rs:179), although what expired tags the cache had went before  *)
(* the API was asked: nothing answers in their place.                      *)
FailureIsRetried == \A g \in failed : g \notin DOMAIN cache
=============================================================================
