-------------------------- MODULE TransformerCache --------------------------
(***************************************************************************)
(* The container-wide cache of the compiled Starlark script                *)
(* (resolve_cached_transformer, src/src/logs/transform.rs).  Every batch   *)
(* asks it for the transformer.  The cache's mutex is held while the       *)
(* script is fetched and compiled, so the others queue behind the first    *)
(* caller; a failure is remembered for RetryInterval, a fetch that hangs   *)
(* is given up after Timeout, and in both cases the logs pass through      *)
(* unchanged.  The timer covers the fetch: compiling, which evaluates the  *)
(* script's top level without a limit, comes after it.                     *)
(*                                                                         *)
(* Time is a bounded counter.  It advances only when nothing that is due   *)
(* is waiting: taking a free lock takes no time, and neither does the      *)
(* timer of an expired fetch.                                              *)
(***************************************************************************)
EXTENDS Naturals, Sequences, FiniteSets

CONSTANTS
  Task,           (* concurrent callers                                     *)
  HasScript,      (* STARLARK_SCRIPT is configured                          *)
  Timeout,        (* RESOLUTION_TIMEOUT (30 s)                              *)
  MaxCompile,     (* the longest that StarlarkTransformer::new takes        *)
  RetryInterval,  (* RETRY_INTERVAL_SECS (60 s)                             *)
  Horizon         (* bound: the last instant of the model                   *)

ASSUME ConstantsAssumption ==
  /\ HasScript \in BOOLEAN
  /\ Timeout \in Nat \ {0}
  /\ MaxCompile \in Nat
  /\ RetryInterval \in Nat \ {0}
  /\ Horizon \in Nat

VARIABLES
  now,        (* the clock                                                  *)
  queue,      (* callers queued on the mutex, first come first served       *)
  holder,     (* the caller, if any, that holds it                          *)
  cache,      (* Option<CacheState>                                         *)
  failedAt,   (* failed_at of Failed                                        *)
  caller,     (* what each caller is doing, or what it was given            *)
  since,      (* when it called                                             *)
  started,    (* when it began to resolve the script                        *)
  fetched,    (* when it had the script and began to compile it             *)
  fetches     (* number of resolutions begun                                *)

vars == <<now, queue, holder, cache, failedAt, caller, since, started, fetched, fetches>>

CacheState  == {"Empty", "ReadyNone", "ReadySome", "Failed"}
CallerState == {"idle", "queued", "resolving", "compiling", "handle", "passthrough"}

TypeOK ==
  /\ now \in 0 .. Horizon
  /\ queue \in Seq(Task)
  /\ holder \subseteq Task
  /\ cache \in CacheState
  /\ failedAt \in 0 .. Horizon
  /\ caller \in [Task -> CallerState]
  /\ since \in [Task -> 0 .. Horizon]
  /\ started \in [Task -> 0 .. Horizon]
  /\ fetched \in [Task -> 0 .. Horizon]
  /\ fetches \in Nat

Init ==
  /\ now = 0
  /\ queue = <<>>
  /\ holder = {}
  /\ cache = "Empty"
  /\ failedAt = 0
  /\ caller = [t \in Task |-> "idle"]
  /\ since = [t \in Task |-> 0]
  /\ started = [t \in Task |-> 0]
  /\ fetched = [t \in Task |-> 0]
  /\ fetches = 0

-----------------------------------------------------------------------------
NeedsResolution ==
  CASE cache = "Empty"     -> TRUE
    [] cache = "ReadyNone" -> HasScript
    [] cache = "ReadySome" -> ~ HasScript
    [] cache = "Failed"    -> now - failedAt >= RetryInterval

(* The call returns and the guard, if held, is dropped. *)
Give(t, what) ==
  /\ caller' = [caller EXCEPT ![t] = what]
  /\ holder' = holder \ {t}
  /\ since' = [since EXCEPT ![t] = 0]
  /\ started' = [started EXCEPT ![t] = 0]
  /\ fetched' = [fetched EXCEPT ![t] = 0]

(* A batch asks for the transformer.  The last calls leave time to answer. *)
Call(t) ==
  /\ caller[t] \in {"idle", "handle", "passthrough"}
  /\ now + Timeout + MaxCompile <= Horizon
  /\ caller' = [caller EXCEPT ![t] = "queued"]
  /\ since' = [since EXCEPT ![t] = now]
  /\ queue' = Append(queue, t)
  /\ UNCHANGED <<now, holder, cache, failedAt, started, fetched, fetches>>

LockFree == queue # <<>> /\ holder = {}

Locked(t) ==
  /\ caller[t] = "queued"
  /\ LockFree
  /\ t = Head(queue)
  /\ queue' = Tail(queue)

(* Variant: only a cached answer is handled here. *)
UseCacheOnly(t) ==
  /\ Locked(t)
  /\ ~ NeedsResolution
  /\ Give(t, IF cache = "ReadySome" THEN "handle" ELSE "passthrough")
  /\ UNCHANGED <<now, cache, failedAt, fetches>>

(* The lock is acquired and the cached answer, if there is one, returned.  *)
(* With no script configured resolving is immediate.                       *)
UseCache(t) ==
  /\ Locked(t)
  /\ \/ /\ ~ NeedsResolution
        /\ UNCHANGED cache
     \/ /\ NeedsResolution /\ ~ HasScript
        /\ cache' = "ReadyNone"
  /\ Give(t, IF cache' = "ReadySome" THEN "handle" ELSE "passthrough")
  /\ UNCHANGED <<now, failedAt, fetches>>

(* Variant: the lock is released before the script is fetched. *)
BeginResolveUnlocked(t) ==
  /\ Locked(t)
  /\ NeedsResolution /\ HasScript
  /\ caller' = [caller EXCEPT ![t] = "resolving"]
  /\ started' = [started EXCEPT ![t] = now]
  /\ fetches' = fetches + 1
  /\ UNCHANGED <<now, holder, cache, failedAt, since, fetched>>

(* The lock is acquired and kept: the caller resolves the script. *)
BeginResolve(t) ==
  /\ Locked(t)
  /\ NeedsResolution /\ HasScript
  /\ holder' = {t}
  /\ caller' = [caller EXCEPT ![t] = "resolving"]
  /\ started' = [started EXCEPT ![t] = now]
  /\ fetches' = fetches + 1
  /\ UNCHANGED <<now, cache, failedAt, since, fetched>>

(* The script is there in time; it is compiled at once. *)
Fetched(t) ==
  /\ caller[t] = "resolving"
  /\ caller' = [caller EXCEPT ![t] = "compiling"]
  /\ fetched' = [fetched EXCEPT ![t] = now]
  /\ UNCHANGED <<now, queue, holder, cache, failedAt, since, started, fetches>>

(* The script compiles and has a function transform. *)
CompileOk(t) ==
  /\ caller[t] = "compiling"
  /\ cache' = "ReadySome"
  /\ Give(t, "handle")
  /\ UNCHANGED <<now, queue, failedAt, fetches>>

(* Variants: the failure is not published; the lock is not released. *)
ForgetFailure(t) ==
  /\ Give(t, "passthrough")
  /\ UNCHANGED <<now, queue, cache, failedAt, fetches>>

PublishLocked(t) ==
  /\ cache' = "Failed"
  /\ failedAt' = now
  /\ caller' = [caller EXCEPT ![t] = "passthrough"]
  /\ UNCHANGED <<now, queue, holder, since, started, fetched, fetches>>

(* Failed is published and the logs of this caller pass through. *)
PublishFailure(t) ==
  /\ cache' = "Failed"
  /\ failedAt' = now
  /\ Give(t, "passthrough")
  /\ UNCHANGED <<now, queue, fetches>>

(* Fetching, or compiling, fails. *)
ResolveErr(t) ==
  /\ caller[t] \in {"resolving", "compiling"}
  /\ PublishFailure(t)

Expired(t) == caller[t] = "resolving" /\ now - started[t] >= Timeout

(* tokio::time::timeout elapses: it is the fetch that is given up. *)
ResolveTimeout(t) ==
  /\ Expired(t)
  /\ PublishFailure(t)

Overdue(t) == caller[t] = "compiling" /\ now - fetched[t] >= MaxCompile

Tick ==
  /\ now < Horizon
  /\ ~ LockFree
  /\ ~ \E t \in Task : Expired(t) \/ Overdue(t)
  /\ now' = now + 1
  /\ UNCHANGED <<queue, holder, cache, failedAt, caller, since, started, fetched, fetches>>

Next ==
  \/ \E t \in Task : \/ Call(t) \/ UseCache(t) \/ BeginResolve(t)
                     \/ Fetched(t) \/ CompileOk(t)
                     \/ ResolveErr(t) \/ ResolveTimeout(t)
  \/ Tick

Spec == Init /\ [][Next]_vars

(* A compilation comes to its end, well or not. *)
CompileEnds(t) == caller[t] = "compiling" /\ (CompileOk(t) \/ ResolveErr(t))

(* Time passes, timers fire, a free lock is taken and a compilation ends   *)
(* (a script without while and recursion does); nothing makes a fetch come *)
(* back.                                                                   *)
Fairness ==
  /\ WF_vars(Tick)
  /\ \A t \in Task : /\ WF_vars(UseCache(t) \/ BeginResolve(t))
                     /\ WF_vars(ResolveTimeout(t))
                     /\ WF_vars(CompileEnds(t))

FairSpec == Spec /\ Fairness

-----------------------------------------------------------------------------
Waiting   == {t \in Task : caller[t] \in {"queued", "resolving", "compiling"}}
Resolving == {t \in Task : caller[t] \in {"resolving", "compiling"}}

(* On a cold start exactly one caller fetches and compiles the script.     *)
SingleFlight == Cardinality(Resolving) <= 1

(* Nobody is held up for longer than one Timeout and one compilation,      *)
(* however many callers are queued and whenever they came; and as long as  *)
(* a fetch hangs, for no longer than one Timeout (transform.rs:121-126).   *)
WaitBounded ==
  \A t \in Waiting :
    /\ now - since[t] <= Timeout + MaxCompile
    /\ (\E h \in Task : caller[h] = "resolving") => now - since[t] <= Timeout

(* During an outage the script's source is asked no more than once per     *)
(* RetryInterval, whatever the number of callers.                          *)
FetchRate == fetches <= 1 + now \div RetryInterval

(* Once the script is compiled it stays, and from then on nobody's logs    *)
(* pass through untransformed: a late failure cannot overwrite it.         *)
ReadyIsFinal ==
  [][cache = "ReadySome" =>
       /\ cache' = "ReadySome"
       /\ \A t \in Task : caller'[t] = "passthrough" => caller[t] = "passthrough"]_vars

(* Every call returns, even if no fetch ever does. *)
CallsReturn ==
  \A t \in Task : caller[t] = "queued" ~> caller[t] \in {"handle", "passthrough"}
=============================================================================
