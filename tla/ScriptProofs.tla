---------------------------- MODULE ScriptProofs ----------------------------
(***************************************************************************)
(* Proofs about the script, modules TransformerCache, RegexCache,          *)
(* ScriptSource and ScriptTransform: for any number of callers and any     *)
(* timing, the mutex makes the resolution single-flight, nobody waits for  *)
(* more than one Timeout and one compilation, the source is asked once per *)
(* interval at most, and a compiled script is never lost again; for every  *)
(* set of patterns and every capacity, the cache of patterns is consistent *)
(* and keeps those in use; a script of any size is taken whole, if its end *)
(* can be told, or not at all; and in a batch of any size each log has the *)
(* results of its own script.                                              *)
(***************************************************************************)
EXTENDS Scripting, DataFacts

-----------------------------------------------------------------------------
(* Module TransformerCache. *)

(* The caller that resolves is the one that holds the mutex. *)
HolderResolves ==
  /\ \A t \in Task : caller[t] \in {"resolving", "compiling"} <=> t \in holder
  /\ \A s, t \in holder : s = t

(* A caller resolves only while there is a script and it is not compiled.  *)
ReadyLeavesNothing ==
  /\ cache = "ReadySome" => HasScript
  /\ holder # {} => HasScript /\ cache # "ReadySome"

Inv == TypeOK /\ HolderResolves /\ ReadyLeavesNothing

-----------------------------------------------------------------------------
\* Nobody waits and nothing is cached at first.
LEMMA InitInv == Init => Inv
<1> SUFFICES ASSUME Init
             PROVE  Inv
  OBVIOUS
<1>1. TypeOK
  BY ConstantsAssumption, SMT DEF Init, TypeOK, CacheState, CallerState, ConstantsAssumption
<1>2. HolderResolves /\ ReadyLeavesNothing
  BY DEF Init, HolderResolves, ReadyLeavesNothing
<1> QED
  BY <1>1, <1>2 DEF Inv

(* What giving a caller its answer does to the typed variables. *)
LEMMA GiveType ==
  ASSUME TypeOK, NEW t \in Task, NEW what \in CallerState, Give(t, what)
  PROVE  /\ caller' \in [Task -> CallerState]
         /\ holder' \subseteq Task
         /\ since' \in [Task -> 0 .. Horizon]
         /\ started' \in [Task -> 0 .. Horizon]
         /\ fetched' \in [Task -> 0 .. Horizon]
<1>1. 0 \in 0 .. Horizon
  BY ConstantsAssumption, SMT DEF ConstantsAssumption
<1> QED
  BY <1>1 DEF TypeOK, Give

(* Taking the lock takes the first caller off the queue. *)
LEMMA LockedType ==
  ASSUME TypeOK, NEW t \in Task, Locked(t)
  PROVE  queue' \in Seq(Task)
  BY SMT DEF TypeOK, Locked, LockFree

\* Every step keeps the types.
LEMMA NextType == TypeOK /\ [Next]_vars => TypeOK'
<1> SUFFICES ASSUME TypeOK, [Next]_vars
             PROVE  TypeOK'
  OBVIOUS
<1>t. /\ "handle" \in CallerState /\ "passthrough" \in CallerState
      /\ now \in Nat /\ Horizon \in Nat /\ now <= Horizon
  BY ConstantsAssumption, SMT DEF CallerState, TypeOK, ConstantsAssumption
<1>1. ASSUME NEW t \in Task, Call(t)
      PROVE  TypeOK'
  BY <1>1, SMT DEF Call, TypeOK, CallerState
<1>2. ASSUME NEW t \in Task, UseCache(t)
      PROVE  TypeOK'
  <2>1. PICK what \in CallerState : Give(t, what)
    BY <1>2, <1>t DEF UseCache
  <2>2. cache' \in CacheState
    BY <1>2 DEF UseCache, TypeOK, CacheState
  <2>3. queue' \in Seq(Task)
    BY <1>2, LockedType DEF UseCache
  <2> QED
    BY <1>2, <2>1, <2>2, <2>3, GiveType DEF UseCache, TypeOK
<1>3. ASSUME NEW t \in Task, BeginResolve(t)
      PROVE  TypeOK'
  <2>1. queue' \in Seq(Task)
    BY <1>3, LockedType DEF BeginResolve
  <2>2. fetches' \in Nat
    BY <1>3, SMT DEF BeginResolve, TypeOK
  <2>3. caller' \in [Task -> CallerState] /\ started' \in [Task -> 0 .. Horizon]
    BY <1>3 DEF BeginResolve, TypeOK, CallerState
  <2> QED
    BY <1>3, <2>1, <2>2, <2>3 DEF BeginResolve, TypeOK
<1>4. ASSUME NEW t \in Task, CompileOk(t)
      PROVE  TypeOK'
  BY <1>4, <1>t, GiveType DEF CompileOk, TypeOK, CacheState
<1>8. ASSUME NEW t \in Task, Fetched(t)
      PROVE  TypeOK'
  <2>1. now \in 0 .. Horizon /\ "compiling" \in CallerState
    BY <1>t DEF CallerState, TypeOK
  <2> QED
    BY <1>8, <2>1 DEF Fetched, TypeOK
<1>5. ASSUME NEW t \in Task, PublishFailure(t)
      PROVE  TypeOK'
  BY <1>5, <1>t, GiveType DEF PublishFailure, TypeOK, CacheState
<1>6. CASE Tick
  BY <1>6, <1>t, SMT DEF Tick, TypeOK
<1>7. CASE UNCHANGED vars
  BY <1>7 DEF vars, TypeOK
<1> QED
  BY <1>1, <1>2, <1>3, <1>4, <1>5, <1>6, <1>7, <1>8 DEF Next, ResolveErr, ResolveTimeout

(* A caller becomes the holder only when there is none and a resolution is *)
(* needed, and leaves the set of holders when it has its answer.           *)
LEMMA NextInv == Inv /\ [Next]_vars => Inv'
<1> SUFFICES ASSUME Inv, [Next]_vars
             PROVE  (HolderResolves /\ ReadyLeavesNothing)'
  BY NextType DEF Inv
<1> USE DEF Inv, HolderResolves, ReadyLeavesNothing
<1>t. caller \in [Task -> CallerState] /\ holder \subseteq Task
  BY DEF TypeOK
<1>1. ASSUME NEW t \in Task, Call(t)
      PROVE  (HolderResolves /\ ReadyLeavesNothing)'
  BY <1>1, <1>t DEF Call
<1>2. ASSUME NEW t \in Task, UseCache(t)
      PROVE  (HolderResolves /\ ReadyLeavesNothing)'
  <2>1. holder = {} /\ caller[t] = "queued"
    BY <1>2 DEF UseCache, Locked, LockFree
  <2>2. holder' = {} /\ \A s \in Task : caller'[s] \notin {"resolving", "compiling"}
    BY <1>2, <1>t, <2>1 DEF UseCache, Give
  <2>3. cache' = "ReadySome" => cache = "ReadySome"
    BY <1>2 DEF UseCache
  <2> QED
    BY <2>2, <2>3
<1>3. ASSUME NEW t \in Task, BeginResolve(t)
      PROVE  (HolderResolves /\ ReadyLeavesNothing)'
  <2>1. holder = {} /\ holder' = {t} /\ cache' = cache /\ HasScript
    BY <1>3 DEF BeginResolve, Locked, LockFree
  <2>2. cache # "ReadySome"
    BY <1>3 DEF BeginResolve, NeedsResolution
  <2>3. \A s \in Task : caller'[s] \in {"resolving", "compiling"} <=> s = t
    BY <1>3, <1>t, <2>1 DEF BeginResolve
  <2> QED
    BY <2>1, <2>2, <2>3
<1>4. ASSUME NEW t \in Task, CompileOk(t)
      PROVE  (HolderResolves /\ ReadyLeavesNothing)'
  <2>1. holder = {t} /\ holder' = {}
    BY <1>4, <1>t DEF CompileOk, Give
  <2>2. \A s \in Task : caller'[s] \notin {"resolving", "compiling"}
    BY <1>4, <1>t, <2>1 DEF CompileOk, Give
  <2>3. HasScript
    BY <2>1
  <2> QED
    BY <2>1, <2>2, <2>3
<1>8. ASSUME NEW t \in Task, Fetched(t)
      PROVE  (HolderResolves /\ ReadyLeavesNothing)'
  BY <1>8, <1>t DEF Fetched
<1>5. ASSUME NEW t \in Task, PublishFailure(t), caller[t] \in {"resolving", "compiling"}
      PROVE  (HolderResolves /\ ReadyLeavesNothing)'
  <2>1. holder = {t} /\ holder' = {} /\ cache' = "Failed"
    BY <1>5, <1>t DEF PublishFailure, Give
  <2>2. \A s \in Task : caller'[s] \notin {"resolving", "compiling"}
    BY <1>5, <1>t, <2>1 DEF PublishFailure, Give
  <2> QED
    BY <2>1, <2>2
<1>6. CASE Tick
  BY <1>6 DEF Tick
<1>7. CASE UNCHANGED vars
  BY <1>7 DEF vars
<1> QED
  BY <1>1, <1>2, <1>3, <1>4, <1>5, <1>6, <1>7, <1>8
     DEF Next, ResolveErr, ResolveTimeout, Expired

(* Every reachable state satisfies the invariant. *)
THEOREM Inductive == Spec => []Inv
  BY InitInv, NextInv, PTL DEF Spec

(* Every variable keeps its type. *)
THEOREM TypeCorrect == Spec => []TypeOK
<1>1. Inv => TypeOK
  BY DEF Inv
<1> QED
  BY <1>1, Inductive, PTL

(* However many callers ask at once, one of them resolves the script and   *)
(* the others wait for what it publishes.                                  *)
THEOREM SingleFlightHolds == Spec => []SingleFlight
<1>1. Inv => SingleFlight
  <2> SUFFICES ASSUME Inv
               PROVE  Cardinality(Resolving) <= 1
    BY DEF SingleFlight
  <2>1. CASE Resolving = {}
    BY <2>1, FS_EmptySet, SMT
  <2>2. CASE Resolving # {}
    <3>1. PICK t \in Task : Resolving = {t}
      BY <2>2 DEF Inv, HolderResolves, Resolving
    <3>2. Cardinality(Resolving) = 1
      BY <3>1, FS_Singleton
    <3> QED
      BY <3>2, SMT
  <2> QED
    BY <2>1, <2>2
<1> QED
  BY <1>1, Inductive, PTL

(* No step takes the compiled script out of the cache, and none makes a    *)
(* caller pass its logs through once it is there.                          *)
THEOREM ReadyIsFinalHolds == Spec => ReadyIsFinal
<1> DEFINE Keeps == cache = "ReadySome" =>
                      /\ cache' = "ReadySome"
                      /\ \A t \in Task :
                           caller'[t] = "passthrough" => caller[t] = "passthrough"
<1>1. Inv /\ [Next]_vars => [Keeps]_vars
  <2> SUFFICES ASSUME Inv, Next, cache = "ReadySome"
               PROVE  /\ cache' = "ReadySome"
                      /\ \A t \in Task :
                           caller'[t] = "passthrough" => caller[t] = "passthrough"
    OBVIOUS
  <2>1. HasScript /\ \A t \in Task : caller[t] \notin {"resolving", "compiling"}
    BY DEF Inv, HolderResolves, ReadyLeavesNothing
  <2>2. ~ NeedsResolution
    BY <2>1 DEF NeedsResolution
  <2>3. caller \in [Task -> CallerState]
    BY DEF Inv, TypeOK
  <2>4. ASSUME NEW t \in Task, Call(t)
        PROVE  cache' = cache /\ caller' = [caller EXCEPT ![t] = "queued"]
    BY <2>4 DEF Call
  <2>5. ASSUME NEW t \in Task, UseCache(t)
        PROVE  cache' = cache /\ caller' = [caller EXCEPT ![t] = "handle"]
    BY <2>2, <2>5 DEF UseCache, Give
  <2>6. ASSUME Tick
        PROVE  cache' = cache /\ caller' = caller
    BY <2>6 DEF Tick
  <2>7. \/ \E t \in Task : Call(t) \/ UseCache(t)
        \/ Tick
    BY <2>1, <2>2 DEF Next, BeginResolve, Fetched, CompileOk, ResolveErr, ResolveTimeout, Expired
  <2> QED
    BY <2>3, <2>4, <2>5, <2>6, <2>7
<1> QED
  BY <1>1, Inductive, PTL DEF Spec, ReadyIsFinal

(* What WaitBounded needs to be inductive: a caller that waits is queued;  *)
(* one that waits for a resolution came after it began, and neither the    *)
(* fetch nor the compilation has taken more than its time; if the mutex is free and a resolution is needed, everybody in the  *)
(* queue has just come.                                                    *)
InLine == \A t \in Task : caller[t] = "queued" => \E k \in 1 .. Len(queue) : queue[k] = t

CameLater ==
  \A h \in holder :
    /\ started[h] <= now
    /\ caller[h] = "resolving" => now - started[h] <= Timeout
    /\ caller[h] = "compiling" => /\ fetched[h] - started[h] <= Timeout
                                  /\ fetched[h] <= now /\ now - fetched[h] <= MaxCompile
    /\ \A t \in Waiting : started[h] <= since[t]

JustCame ==
  holder = {} /\ NeedsResolution => \A t \in Task : caller[t] = "queued" => since[t] = now

Bounded == \A t \in Waiting : now - since[t] <= Timeout + MaxCompile

Waits == Inv /\ InLine /\ CameLater /\ JustCame /\ Bounded

(* Dropping the first caller of the queue keeps the others in line.        *)
LEMMA HeadLeaves ==
  ASSUME TypeOK, InLine, NEW t \in Task, Locked(t), NEW s \in Task, s # t, caller[s] = "queued"
  PROVE  \E k \in 1 .. Len(queue') : queue'[k] = s
<1>1. queue \in Seq(Task) /\ queue # <<>> /\ t = queue[1] /\ queue' = Tail(queue)
  BY DEF TypeOK, Locked, LockFree
<1>2. PICK k \in 1 .. Len(queue) : queue[k] = s
  BY DEF InLine
<1>3. k # 1
  BY <1>1, <1>2
<1>4. k - 1 \in 1 .. Len(queue') /\ queue'[k - 1] = queue[k]
  BY <1>1, <1>3
<1> QED
  BY <1>2, <1>4

(* An instant that is now is no interval ago. *)
LEMMA NotYet ==
  ASSUME NEW n \in Nat, NEW r \in Nat \ {0}
  PROVE  ~ (n - n >= r)
OBVIOUS

(* Nobody waits at first. *)
LEMMA WaitsInit == Init => Waits
<1> SUFFICES ASSUME Init PROVE Waits
  OBVIOUS
<1>1. holder = {} /\ \A t \in Task : caller[t] = "idle"
  BY DEF Init
<1> QED
  BY <1>1, InitInv DEF Waits, InLine, CameLater, JustCame, Bounded, Waiting

(* While time passes somebody resolves, and it has not expired: whoever is *)
(* in the queue came after it began.                                       *)
LEMMA WaitsNext == Waits /\ [Next]_vars => Waits'
<1> SUFFICES ASSUME Waits, [Next]_vars PROVE Waits'
  OBVIOUS
<1>0. Inv /\ Inv' /\ TypeOK
  BY NextInv DEF Waits, Inv
<1>t. /\ caller \in [Task -> CallerState] /\ holder \subseteq Task /\ now \in Nat /\ Horizon \in Nat
      /\ since \in [Task -> 0 .. Horizon] /\ started \in [Task -> 0 .. Horizon]
      /\ fetched \in [Task -> 0 .. Horizon] /\ MaxCompile \in Nat
      /\ queue \in Seq(Task) /\ Timeout \in Nat \ {0} /\ RetryInterval \in Nat \ {0}
      /\ \A t \in Task : since[t] \in Nat /\ started[t] \in Nat /\ fetched[t] \in Nat
  BY <1>0, ConstantsAssumption DEF TypeOK, ConstantsAssumption
<1>h. /\ \A t \in Task : caller[t] \in {"resolving", "compiling"} <=> t \in holder
      /\ \A s, t \in holder : s = t
      /\ cache = "ReadySome" => HasScript
      /\ holder # {} => HasScript /\ cache # "ReadySome"
  BY <1>0 DEF Inv, HolderResolves, ReadyLeavesNothing
<1>w. InLine /\ CameLater /\ JustCame /\ Bounded
  BY DEF Waits
<1>1. ASSUME NEW t \in Task, Call(t) PROVE Waits'
  <2>1. /\ UNCHANGED <<now, holder, cache, failedAt, started, fetched, fetches>>
        /\ queue' = Append(queue, t)
        /\ caller[t] \notin {"queued", "resolving", "compiling"} /\ t \notin holder
        /\ \A s \in Task : /\ caller'[s] = IF s = t THEN "queued" ELSE caller[s]
                           /\ since'[s] = IF s = t THEN now ELSE since[s]
    BY <1>1, <1>t, <1>h DEF Call
  <2>2. InLine'
    <3>1. /\ Len(queue') = Len(queue) + 1 /\ queue'[Len(queue) + 1] = t
          /\ \A k \in 1 .. Len(queue) : queue'[k] = queue[k] /\ k \in 1 .. Len(queue')
          /\ Len(queue) + 1 \in 1 .. Len(queue')
      BY <1>t, <2>1
    <3> QED
      BY <1>w, <2>1, <3>1 DEF InLine
  <2>3. CameLater'
    BY <1>t, <1>w, <2>1 DEF CameLater, Waiting
  <2>4. JustCame'
    BY <1>w, <2>1 DEF JustCame, NeedsResolution
  <2>5. Bounded'
    <3> SUFFICES ASSUME NEW s \in Task, caller'[s] \in {"queued", "resolving", "compiling"}
                 PROVE  now' - since'[s] <= Timeout + MaxCompile
      BY DEF Bounded, Waiting
    <3>1. CASE s = t
      BY <1>t, <2>1, <3>1
    <3>2. CASE s # t
      BY <1>w, <2>1, <3>2 DEF Bounded, Waiting
    <3> QED
      BY <3>1, <3>2
  <2> QED
    BY <1>0, <2>2, <2>3, <2>4, <2>5 DEF Waits
<1>2. ASSUME NEW t \in Task, UseCache(t) PROVE Waits'
  <2>1. /\ holder = {} /\ holder' = {} /\ now' = now /\ failedAt' = failedAt /\ Locked(t)
        /\ \A s \in Task : s # t => caller'[s] = caller[s] /\ since'[s] = since[s]
        /\ caller'[t] \in {"handle", "passthrough"}
    BY <1>2, <1>t DEF UseCache, Give, Locked, LockFree
  <2>2. ~ NeedsResolution'
    BY <1>2 DEF UseCache, NeedsResolution
  <2>3. InLine'
    BY <1>0, <1>w, <2>1, HeadLeaves DEF InLine
  <2>4. CameLater' /\ JustCame'
    BY <2>1, <2>2 DEF CameLater, JustCame
  <2>5. Bounded'
    BY <1>w, <2>1 DEF Bounded, Waiting
  <2> QED
    BY <1>0, <2>3, <2>4, <2>5 DEF Waits
<1>3. ASSUME NEW t \in Task, BeginResolve(t) PROVE Waits'
  <2>1. /\ holder = {} /\ holder' = {t} /\ UNCHANGED <<now, cache, failedAt, since, fetched>>
        /\ Locked(t) /\ caller[t] = "queued" /\ NeedsResolution
        /\ started'[t] = now /\ caller'[t] = "resolving"
        /\ \A s \in Task : s # t => caller'[s] = caller[s]
    BY <1>3, <1>t DEF BeginResolve, Locked, LockFree
  <2>2. \A s \in Task : caller[s] = "queued" => since[s] = now
    BY <1>w, <2>1 DEF JustCame
  <2>3. \A s \in Task : caller'[s] \in {"queued", "resolving", "compiling"} => since'[s] = now'
    BY <1>h, <2>1, <2>2
  <2>4. InLine'
    BY <1>0, <1>w, <2>1, HeadLeaves DEF InLine
  <2>5. CameLater'
    BY <1>t, <2>1, <2>3 DEF CameLater, Waiting
  <2>6. JustCame' /\ Bounded'
    BY <1>t, <2>1, <2>3 DEF JustCame, Bounded, Waiting
  <2> QED
    BY <1>0, <2>4, <2>5, <2>6 DEF Waits
<1>4. ASSUME NEW t \in Task, CompileOk(t) \/ ResolveErr(t) \/ ResolveTimeout(t) PROVE Waits'
  <2>1. /\ holder = {t} /\ holder' = {} /\ now' = now /\ queue' = queue
        /\ \A s \in Task : s # t => caller'[s] = caller[s] /\ since'[s] = since[s]
        /\ caller'[t] \in {"handle", "passthrough"}
    BY <1>4, <1>t, <1>h DEF CompileOk, ResolveErr, ResolveTimeout, PublishFailure, Give, Expired
  <2>2. ~ NeedsResolution'
    <3>1. HasScript
      BY <1>h, <2>1
    <3>2. CASE CompileOk(t)
      BY <3>1, <3>2 DEF CompileOk, NeedsResolution
    <3>3. CASE PublishFailure(t)
      <4>1. cache' = "Failed" /\ failedAt' = now' /\ now' \in Nat
        BY <1>t, <3>3 DEF PublishFailure
      <4>2. RetryInterval \in Nat \ {0}
        BY <1>t
      <4>3. ~ (now' - failedAt' >= RetryInterval)
        BY <4>1, <4>2, NotYet
      <4> QED
        BY <4>1, <4>3 DEF NeedsResolution
    <3> QED
      BY <1>4, <3>2, <3>3 DEF ResolveErr, ResolveTimeout
  <2>3. InLine'
    BY <1>w, <2>1 DEF InLine
  <2>4. CameLater' /\ JustCame'
    BY <2>1, <2>2 DEF CameLater, JustCame
  <2>5. Bounded'
    BY <1>w, <2>1 DEF Bounded, Waiting
  <2> QED
    BY <1>0, <2>3, <2>4, <2>5 DEF Waits
<1>7. ASSUME NEW t \in Task, Fetched(t) PROVE Waits'
  <2>1. /\ UNCHANGED <<now, queue, holder, cache, failedAt, since, started, fetches>>
        /\ t \in holder /\ caller[t] = "resolving" /\ caller'[t] = "compiling" /\ fetched'[t] = now
        /\ \A s \in Task : s # t => caller'[s] = caller[s] /\ fetched'[s] = fetched[s]
    BY <1>7, <1>t, <1>h DEF Fetched
  <2>2. Waiting' = Waiting
    BY <2>1 DEF Waiting
  <2>3. CameLater'
    BY <1>t, <1>h, <1>w, <2>1, <2>2 DEF CameLater
  <2>4. InLine' /\ JustCame' /\ Bounded'
    BY <1>w, <2>1, <2>2 DEF InLine, JustCame, NeedsResolution, Bounded
  <2> QED
    BY <1>0, <2>3, <2>4 DEF Waits
<1>5. CASE Tick
  <2>1. /\ UNCHANGED <<queue, holder, cache, failedAt, caller, since, started, fetched, fetches>>
        /\ now' = now + 1 /\ ~ LockFree /\ \A t \in Task : ~ Expired(t) /\ ~ Overdue(t)
    BY <1>5 DEF Tick
  <2>2. holder = {} => Waiting = {}
    <3>1. holder = {} => queue = <<>>
      BY <2>1 DEF LockFree
    <3>2. queue = <<>> => \A t \in Task : caller[t] # "queued"
      BY <1>t, <1>w DEF InLine
    <3> QED
      BY <1>h, <3>1, <3>2 DEF Waiting
  <2>3. ASSUME NEW h \in holder
        PROVE  /\ started[h] <= now'
               /\ caller[h] = "resolving" => now' - started[h] <= Timeout
               /\ caller[h] = "compiling" => fetched[h] <= now' /\ now' - fetched[h] <= MaxCompile
               /\ now' - started[h] <= Timeout + MaxCompile
    <3>0. h \in Task /\ caller[h] \in {"resolving", "compiling"} /\ started[h] <= now
      BY <1>t, <1>h, <1>w DEF CameLater
    <3>1. CASE caller[h] = "resolving"
      <4>1. ~ (now - started[h] >= Timeout)
        BY <3>0, <3>1, <2>1 DEF Expired
      <4> QED
        BY <1>t, <2>1, <3>0, <3>1, <4>1
    <3>2. CASE caller[h] = "compiling"
      <4>1. ~ (now - fetched[h] >= MaxCompile)
        BY <3>0, <3>2, <2>1 DEF Overdue
      <4>2. fetched[h] - started[h] <= Timeout /\ fetched[h] <= now
        BY <1>w, <3>2 DEF CameLater
      <4> QED
        BY <1>t, <2>1, <3>0, <3>2, <4>1, <4>2
    <3> QED
      BY <3>0, <3>1, <3>2
  <2>4. CameLater'
    <3>1. Waiting' = Waiting
      BY <2>1 DEF Waiting
    <3> QED
      BY <1>w, <2>1, <2>3, <3>1 DEF CameLater
  <2>5. Bounded'
    <3> SUFFICES ASSUME NEW t \in Waiting
                 PROVE  now' - since[t] <= Timeout + MaxCompile
      BY <2>1 DEF Bounded, Waiting
    <3>1. PICK h \in holder : TRUE
      BY <2>2
    <3>2. now' - started[h] <= Timeout + MaxCompile /\ started[h] <= since[t]
      BY <1>w, <2>3 DEF CameLater
    <3>3. started[h] \in Nat /\ since[t] \in Nat /\ now' \in Nat
      BY <1>t, <2>1 DEF Waiting
    <3> QED
      BY <1>t, <3>2, <3>3
  <2>6. JustCame'
    BY <2>1, <2>2 DEF JustCame, Waiting
  <2>7. InLine'
    BY <1>w, <2>1 DEF InLine
  <2> QED
    BY <1>0, <2>4, <2>5, <2>6, <2>7 DEF Waits
<1>6. CASE UNCHANGED vars
  BY <1>0, <1>6, <1>w DEF vars, Waits, InLine, CameLater, JustCame, NeedsResolution, Bounded, Waiting
<1> QED
  BY <1>1, <1>2, <1>3, <1>4, <1>5, <1>6, <1>7 DEF Next

(* However many callers queue, nobody waits for longer than one Timeout    *)
(* and one compilation, nor longer than the Timeout behind a fetch that    *)
(* hangs.                                                                  *)
THEOREM WaitBoundedHolds == Spec => []WaitBounded
<1>1. Waits => WaitBounded
  <2> SUFFICES ASSUME Waits, NEW t \in Waiting, NEW h \in Task, caller[h] = "resolving"
               PROVE  now - since[t] <= Timeout
    BY DEF Waits, Bounded, WaitBounded
  <2>1. /\ h \in holder
        /\ since[t] \in Nat /\ started[h] \in Nat /\ now \in Nat /\ Timeout \in Nat
    BY ConstantsAssumption DEF Waits, Inv, HolderResolves, TypeOK, Waiting, ConstantsAssumption
  <2>2. now - started[h] <= Timeout /\ started[h] <= since[t]
    BY <2>1 DEF Waits, CameLater
  <2> QED
    BY <2>1, <2>2
<1> QED
  BY <1>1, WaitsInit, WaitsNext, PTL DEF Spec

(* What FetchRate needs: a resolution begins only with nothing cached, and *)
(* there has been none then, or an interval after the last failure.        *)
Paced ==
  /\ failedAt <= now
  /\ cache = "Empty" /\ holder = {} => fetches = 0
  /\ cache = "Failed" /\ holder = {} => fetches <= 1 + failedAt \div RetryInterval
  /\ cache = "ReadyNone" => ~ HasScript

Rate == Inv /\ Paced /\ FetchRate

(* Nothing has been fetched at first. *)
LEMMA RateInit == Init => Rate
<1> SUFFICES ASSUME Init PROVE Rate
  OBVIOUS
<1>1. now = 0 /\ failedAt = 0 /\ fetches = 0 /\ cache = "Empty"
  BY DEF Init
<1>2. 0 \div RetryInterval \in Nat
  BY Quotient, ConstantsAssumption DEF ConstantsAssumption
<1> QED
  BY <1>1, <1>2, InitInv DEF Rate, Paced, FetchRate

(* A resolution begins only a RetryInterval after the last failure, so it  *)
(* begins in a later interval.                                             *)
LEMMA RateNext == Rate /\ [Next]_vars => Rate'
<1> SUFFICES ASSUME Rate, [Next]_vars PROVE Rate'
  OBVIOUS
<1>0. Inv /\ Inv' /\ TypeOK
  BY NextInv DEF Rate, Inv
<1>t. /\ caller \in [Task -> CallerState] /\ holder \subseteq Task /\ now \in Nat /\ failedAt \in Nat
      /\ fetches \in Nat /\ RetryInterval \in Nat \ {0}
      /\ now \div RetryInterval \in Nat /\ failedAt \div RetryInterval \in Nat
  <2>1. /\ caller \in [Task -> CallerState] /\ holder \subseteq Task /\ fetches \in Nat
        /\ now \in Nat /\ failedAt \in Nat /\ RetryInterval \in Nat \ {0}
    BY <1>0, ConstantsAssumption DEF TypeOK, ConstantsAssumption
  <2> QED
    BY <2>1, Quotient
<1>r. Paced /\ FetchRate
  BY DEF Rate
<1>1. ASSUME NEW t \in Task, Call(t) PROVE Rate'
  BY <1>0, <1>1, <1>r DEF Call, Rate, Paced, FetchRate
<1>2. ASSUME NEW t \in Task, UseCache(t) PROVE Rate'
  <2>1. holder = {} /\ UNCHANGED <<now, failedAt, fetches>>
        /\ (cache' = cache \/ (cache' = "ReadyNone" /\ ~ HasScript))
    BY <1>2 DEF UseCache, Locked, LockFree
  <2> QED
    BY <1>0, <1>r, <2>1 DEF Rate, Paced, FetchRate
<1>3. ASSUME NEW t \in Task, BeginResolve(t) PROVE Rate'
  <2>1. /\ holder = {} /\ holder' = {t} /\ UNCHANGED <<now, cache, failedAt>>
        /\ fetches' = fetches + 1 /\ NeedsResolution /\ HasScript
    BY <1>3 DEF BeginResolve, Locked, LockFree
  <2>2. cache \in {"Empty", "Failed"}
    BY <1>0, <1>r, <2>1 DEF NeedsResolution, TypeOK, CacheState, Paced
  <2>3. fetches' <= 1 + now \div RetryInterval
    <3>1. CASE cache = "Empty"
      BY <1>t, <1>r, <2>1, <3>1 DEF Paced
    <3>2. CASE cache = "Failed"
      <4>1. now - failedAt >= RetryInterval /\ failedAt <= now
        BY <1>r, <2>1, <3>2 DEF NeedsResolution, Paced
      <4>2. failedAt + RetryInterval <= now
        BY <1>t, <4>1
      <4>3. (failedAt \div RetryInterval) + 1 <= now \div RetryInterval
        BY <1>t, <4>2, QuotientStep
      <4>4. fetches <= 1 + failedAt \div RetryInterval
        BY <1>r, <2>1, <3>2 DEF Paced
      <4> QED
        BY <1>t, <2>1, <4>3, <4>4
    <3> QED
      BY <2>2, <3>1, <3>2
  <2> QED
    BY <1>0, <1>r, <2>1, <2>3 DEF Rate, Paced, FetchRate
<1>4. ASSUME NEW t \in Task, CompileOk(t) \/ PublishFailure(t) PROVE Rate'
  <2>1. /\ UNCHANGED <<now, fetches>>
        /\ \/ cache' = "ReadySome" /\ failedAt' = failedAt
           \/ cache' = "Failed" /\ failedAt' = now
    BY <1>4 DEF CompileOk, PublishFailure
  <2>2. CASE cache' = "ReadySome" /\ failedAt' = failedAt
    BY <1>0, <1>r, <1>4, <2>2 DEF CompileOk, PublishFailure, Rate, Paced, FetchRate
  <2>3. CASE cache' = "Failed" /\ failedAt' = now
    BY <1>0, <1>t, <1>r, <1>4, <2>3 DEF CompileOk, PublishFailure, Rate, Paced, FetchRate
  <2> QED
    BY <2>1, <2>2, <2>3
<1>7. ASSUME NEW t \in Task, Fetched(t) PROVE Rate'
  BY <1>0, <1>7, <1>r DEF Fetched, Rate, Paced, FetchRate
<1>5. CASE Tick
  <2>1. UNCHANGED <<holder, cache, failedAt, fetches>> /\ now' = now + 1
    BY <1>5 DEF Tick
  <2>2. now \div RetryInterval <= now' \div RetryInterval /\ now' \div RetryInterval \in Nat
    BY <1>t, <2>1, QuotientStep, Quotient
  <2>3. FetchRate'
    BY <1>t, <1>r, <2>1, <2>2 DEF FetchRate
  <2> QED
    BY <1>0, <1>t, <1>r, <2>1, <2>3 DEF Rate, Paced
<1>6. CASE UNCHANGED vars
  BY <1>0, <1>r, <1>6 DEF vars, Rate, Paced, FetchRate
<1> QED
  BY <1>1, <1>2, <1>3, <1>4, <1>5, <1>6, <1>7 DEF Next, ResolveErr, ResolveTimeout

(* The source of the script is asked at most once per RetryInterval.       *)
THEOREM FetchRateHolds == Spec => []FetchRate
<1>1. Rate => FetchRate
  BY DEF Rate
<1> QED
  BY <1>1, RateInit, RateNext, PTL DEF Spec

-----------------------------------------------------------------------------
(* Module RegexCache.                                                      *)
(*                                                                         *)
(* The list is the age order of the map: whatever stands behind a pattern  *)
(* was compiled after it.  A pattern leaves from the front of a full list, *)
(* so REGEX_CACHE_MAX - 1 patterns behind it and the new one came since.   *)

Counted ==
  /\ IsFiniteSet(entries)
  /\ Cardinality(entries) = Len(order)

AgeOrder ==
  /\ \A q \in entries : q \in DOMAIN newer
  /\ \A q \in DOMAIN newer : IsFiniteSet(newer[q])
  /\ \A i, j \in 1 .. Len(order) : i < j => order[j] \in newer[order[i]]

IInv == RegexTypeOK /\ Consistent /\ Counted /\ AgeOrder /\ CompiledOnce

-----------------------------------------------------------------------------
\* The cache of patterns has room for one.
LEMMA MaxIsPositive == MaxEntries \in Nat /\ MaxEntries > 0
BY RegexAssumption

(* What the list's elements are, in terms of positions. *)
LEMMA Positions ==
  ASSUME IInv
  PROVE  /\ Len(order) \in Nat /\ DOMAIN order = 1 .. Len(order)
         /\ \A i \in 1 .. Len(order) : order[i] \in entries
         /\ \A q \in entries : \E i \in 1 .. Len(order) : q = order[i]
         /\ \A i, j \in 1 .. Len(order) : order[i] = order[j] => i = j
<1>1. order \in Seq(Pattern) /\ entries = Range(order) /\ IsInjective(order)
  BY DEF IInv, RegexTypeOK, Consistent
<1>2. Len(order) \in Nat /\ DOMAIN order = 1 .. Len(order)
  BY <1>1
<1> QED
  BY <1>1, <1>2 DEF Range, IsInjective

\* The cache of patterns begins empty.
LEMMA InitIInv == RegexInit => IInv
<1> SUFFICES ASSUME RegexInit PROVE IInv
  OBVIOUS
<1>1. RegexTypeOK
  BY DEF RegexInit, RegexTypeOK
<1>2. Consistent
  BY MaxIsPositive DEF RegexInit, Consistent, Range, IsInjective
<1>3. Counted
  BY FS_EmptySet DEF RegexInit, Counted
<1>4. AgeOrder /\ CompiledOnce
  BY DEF RegexInit, AgeOrder, CompiledOnce
<1> QED
  BY <1>1, <1>2, <1>3, <1>4 DEF IInv

(* Making room: the state with the front of the list removed. *)
LEMMA InsertKeepsIInv ==
  ASSUME IInv, NEW p \in Pattern, Insert(p)
  PROVE  IInv'
<1> USE DEF IInv
<1> DEFINE full == Cardinality(entries) >= MaxEntries
           kept == IF full THEN Tail(order) ELSE order
           left == IF full THEN entries \ {Head(order)} ELSE entries
           off  == IF full THEN 1 ELSE 0
<1>1. order' = Append(kept, p) /\ entries' = left \union {p}
  BY DEF Insert
<1>2. /\ Len(order) \in Nat
      /\ full => Len(order) = MaxEntries /\ Len(order) > 0 /\ Head(order) = order[1]
      /\ ~ full => Len(order) < MaxEntries
  BY MaxIsPositive, Positions DEF Counted, Consistent, RegexTypeOK
<1>3. /\ kept \in Seq(Pattern)
      /\ Len(kept) = Len(order) - off
      /\ \A i \in 1 .. Len(kept) : kept[i] = order[i + off] /\ i + off \in 1 .. Len(order)
  BY <1>2 DEF RegexTypeOK
<1>4. p \in Pattern \ Invalid /\ p \notin entries
  BY DEF Insert
<1>5. /\ order' \in Seq(Pattern) /\ Len(order') = Len(kept) + 1
      /\ order'[Len(kept) + 1] = p
      /\ \A i \in 1 .. Len(kept) : order'[i] = kept[i]
  BY <1>1, <1>3
<1>6. /\ DOMAIN newer' = DOMAIN newer \union {p}
      /\ newer'[p] = {}
      /\ \A q \in DOMAIN newer \ {p} : newer'[q] = newer[q] \union {p}
  BY DEF Insert, Compiled
<1> HIDE DEF kept, left, off
<1>7. \A q : q \in left <=> \E i \in 1 .. Len(kept) : q = kept[i]
  <2>1. ASSUME NEW i \in 1 .. Len(kept) PROVE kept[i] \in left
    <3>1. kept[i] = order[i + off] /\ i + off \in 1 .. Len(order)
      BY <1>3
    <3>2. kept[i] \in entries
      BY <3>1, Positions
    <3>3. full => kept[i] # order[1]
      BY <1>2, <3>1, Positions DEF off
    <3> QED
      BY <1>2, <3>2, <3>3 DEF left
  <2>2. ASSUME NEW q \in left PROVE \E i \in 1 .. Len(kept) : q = kept[i]
    <3>1. q \in entries /\ (full => q # order[1])
      BY <1>2 DEF left
    <3>2. PICK j \in 1 .. Len(order) : q = order[j]
      BY <3>1, Positions
    <3>3. j - off \in 1 .. Len(kept) /\ (j - off) + off = j
      BY <1>2, <1>3, <3>1, <3>2 DEF off
    <3>4. kept[j - off] = order[(j - off) + off]
      BY <1>3, <3>3
    <3> QED
      BY <3>2, <3>3, <3>4
  <2> QED
    BY <2>1, <2>2
<1>8. RegexTypeOK'
  BY <1>1, <1>4, <1>5, <1>6 DEF RegexTypeOK, left
<1>9. Consistent'
  <2>1. entries' = Range(order')
    <3>1. DOMAIN order' = 1 .. Len(kept) + 1
      BY <1>3, <1>5
    <3>2. ASSUME NEW q \in entries' PROVE q \in Range(order')
      BY <1>1, <1>3, <1>5, <1>7, <3>1 DEF Range
    <3>3. ASSUME NEW i \in 1 .. Len(kept) + 1 PROVE order'[i] \in entries'
      BY <1>1, <1>3, <1>5, <1>7
    <3> QED
      BY <3>1, <3>2, <3>3 DEF Range
  <2>2. IsInjective(order')
    <3>1. \A i \in 1 .. Len(kept) : kept[i] # p
      BY <1>4, <1>7 DEF left
    <3>2. ASSUME NEW i \in 1 .. Len(kept), NEW j \in 1 .. Len(kept), kept[i] = kept[j]
          PROVE  i = j
      <4>1. order[i + off] = order[j + off]
        BY <1>3, <3>2
      <4>2. i + off = j + off
        BY <1>3, <4>1, Positions
      <4> QED
        BY <4>2 DEF off
    <3>3. DOMAIN order' = 1 .. Len(kept) + 1
      BY <1>3, <1>5
    <3> QED
      BY <1>3, <1>5, <3>1, <3>2, <3>3 DEF IsInjective
  <2>3. Len(order') <= MaxEntries
    BY <1>2, <1>3, <1>5, MaxIsPositive DEF off
  <2> QED
    BY <2>1, <2>2, <2>3 DEF Consistent
<1>10. Counted'
  <2>1. IsFiniteSet(left) /\ Cardinality(left) = Len(order) - off
    <3>1. CASE full
      <4>1. Head(order) \in entries
        BY <1>2, <3>1, Positions
      <4> QED
        BY <3>1, <4>1, FS_RemoveElement DEF left, off, Counted
    <3>2. CASE ~ full
      BY <1>2, <3>2 DEF left, off, Counted
    <3> QED
      BY <3>1, <3>2
  <2>2. p \notin left
    BY <1>4 DEF left
  <2> QED
    BY <1>1, <1>3, <1>5, <2>1, <2>2, FS_AddElement DEF Counted
<1>11. AgeOrder'
  <2>1. \A q \in entries' : q \in DOMAIN newer'
    BY <1>1, <1>6 DEF AgeOrder, left
  <2>2. \A q \in DOMAIN newer' : IsFiniteSet(newer'[q])
    <3>1. IsFiniteSet(newer'[p])
      BY <1>6, FS_EmptySet
    <3>2. ASSUME NEW q \in DOMAIN newer \ {p} PROVE IsFiniteSet(newer'[q])
      <4>1. IsFiniteSet(newer[q])
        BY DEF AgeOrder
      <4> QED
        BY <1>6, <4>1, FS_AddElement
    <3> QED
      BY <1>6, <3>1, <3>2
  <2>3. ASSUME NEW i \in 1 .. Len(order'), NEW j \in 1 .. Len(order'), i < j
        PROVE  order'[j] \in newer'[order'[i]]
    <3>1. i \in 1 .. Len(kept)
      BY <1>3, <1>5, <2>3
    <3>2. /\ order'[i] = order[i + off] /\ i + off \in 1 .. Len(order)
          /\ order'[i] \in DOMAIN newer \ {p}
      <4>1. order'[i] = order[i + off] /\ i + off \in 1 .. Len(order)
        BY <1>3, <1>5, <3>1
      <4>2. order[i + off] \in entries
        BY <4>1, Positions
      <4> QED
        BY <1>4, <4>1, <4>2 DEF AgeOrder
    <3>3. newer'[order'[i]] = newer[order'[i]] \union {p}
      BY <1>6, <3>2
    <3>4. CASE j = Len(kept) + 1
      BY <1>5, <3>3, <3>4
    <3>5. CASE j \in 1 .. Len(kept)
      <4>1. order'[j] = order[j + off] /\ j + off \in 1 .. Len(order) /\ i + off < j + off
        BY <1>3, <1>5, <2>3, <3>5 DEF off
      <4>2. order[j + off] \in newer[order[i + off]]
        BY <3>2, <4>1 DEF AgeOrder
      <4> QED
        BY <3>2, <3>3, <4>1, <4>2
    <3> QED
      BY <1>3, <1>5, <3>4, <3>5
  <2> QED
    BY <2>1, <2>2, <2>3 DEF AgeOrder
<1>12. CompiledOnce'
  <2> SUFFICES ASSUME NEW q \in DOMAIN newer', q \notin entries'
               PROVE  ~ (Cardinality(newer'[q]) < MaxEntries)
    BY DEF CompiledOnce
  <2>1. q \in DOMAIN newer \ {p} /\ newer'[q] = newer[q] \union {p}
    BY <1>1, <1>6
  <2>2. /\ IsFiniteSet(newer'[q]) /\ Cardinality(newer'[q]) \in Nat
        /\ Cardinality(newer[q]) \in Nat /\ Cardinality(newer[q]) <= Cardinality(newer'[q])
    BY <2>1, FS_AddElement, FS_Subset, FS_CardinalityType DEF AgeOrder
  <2>3. CASE q \notin entries
    BY <2>1, <2>2, <2>3, MaxIsPositive DEF CompiledOnce
  <2>4. CASE q \in entries
    <3>1. full /\ q = order[1] /\ left = entries \ {q}
      BY <1>1, <1>2, <2>4 DEF left
    <3>2. left \subseteq newer[q]
      <4> SUFFICES ASSUME NEW r \in left PROVE r \in newer[q]
        OBVIOUS
      <4>1. PICK j \in 1 .. Len(order) : r = order[j]
        BY <3>1, Positions
      <4>2. j > 1
        BY <3>1, <4>1
      <4> QED
        BY <1>2, <3>1, <4>1, <4>2 DEF AgeOrder
    <3>3. entries' \subseteq newer'[q]
      BY <1>1, <2>1, <3>2
    <3>4. Cardinality(entries') = MaxEntries
      BY <1>2, <1>3, <1>5, <1>10, <3>1 DEF Counted, off
    <3> QED
      BY <2>2, <3>3, <3>4, FS_Subset, MaxIsPositive
  <2> QED
    BY <2>3, <2>4
<1> QED
  BY <1>8, <1>9, <1>10, <1>11, <1>12

\* Every step keeps the map, the list and the history together.
LEMMA NextIInv == IInv /\ [RegexNext]_regexVars => IInv'
<1> SUFFICES ASSUME IInv, [RegexNext]_regexVars PROVE IInv'
  OBVIOUS
<1>1. ASSUME UNCHANGED regexVars PROVE IInv'
  BY <1>1 DEF regexVars, IInv, RegexTypeOK, Consistent, Counted, AgeOrder, CompiledOnce
<1>2. ASSUME NEW p \in Pattern, Hit(p) \/ CompileFails(p) PROVE IInv'
  BY <1>1, <1>2 DEF Hit, CompileFails
<1>3. ASSUME NEW p \in Pattern, Insert(p) PROVE IInv'
  BY <1>3, InsertKeepsIInv
<1> QED
  BY <1>1, <1>2, <1>3 DEF RegexNext

\* The invariant holds in every reachable state.
LEMMA RegexInvariant == RegexSpec => []IInv
BY InitIInv, NextIInv, PTL DEF RegexSpec

-----------------------------------------------------------------------------
(* The map and the list hold the same patterns, each once in the list, and *)
(* never more than REGEX_CACHE_MAX; and a pattern is compiled again only   *)
(* after REGEX_CACHE_MAX others.                                           *)
THEOREM PatternsAreKeptHolds == RegexSpec => []PatternsAreKept
<1>1. IInv => PatternsAreKept
  BY DEF IInv, PatternsAreKept
<1> QED
  BY RegexInvariant, <1>1, PTL

-----------------------------------------------------------------------------
(* Module ScriptSource. *)

(* Whose credentials the download is made with, by form and role. *)
Reader == IF form = "url" THEN "nobody" ELSE IF role THEN "role" ELSE "lambda"

(* What the steps rely on: nothing is returned before the end, only what   *)
(* has to be downloaded is located, and the identity is settled before the *)
(* request.                                                                *)
ByStep ==
  /\ step # "done" => result = "none"
  /\ step = "detect" => identity = "nobody"
  /\ step = "assume" => form = "s3" /\ role
  /\ step \in {"request", "read"} => form \in {"s3", "url"} /\ identity = Reader

SourceInv == S!SourceIsSound /\ ByStep

(* Nothing has been taken from anywhere at first. *)
LEMMA SourceInit == S!ConstantsOK /\ S!Init => SourceInv
<1> SUFFICES ASSUME S!ConstantsOK, S!Init PROVE SourceInv
  OBVIOUS
<1>1. 0 \in 0 .. MaxBytes /\ "none" \in S!Result
  BY DEF S!ConstantsOK, S!Result
<1>2. S!TypeOK
  BY <1>1 DEF S!Init, S!TypeOK
<1> QED
  BY <1>2 DEF S!Init, SourceInv, ByStep, S!SourceIsSound, S!WholeScript, S!TooLargeIfLarger, S!ReadAsRole

(* Ending with a result that the download justifies keeps the invariant.   *)
LEMMA EndKeeps ==
  ASSUME SourceInv, NEW with \in S!Result, S!Ends(with),
         with = "script" /\ form \in {"s3", "url"} =>
           \/ received = script.size /\ script.text
           \/ script.ends = "close" /\ received < script.size,
         with = "too large" => script.size > MaxBytes
  PROVE  SourceInv'
<1>1. /\ result' = with /\ step' = "done" /\ S!TypeOK
      /\ UNCHANGED <<form, role, script, identity, received>>
  BY DEF S!Ends, S!input, SourceInv, S!SourceIsSound
<1>2. S!TypeOK'
  BY <1>1 DEF S!TypeOK
<1> QED
  BY <1>1, <1>2 DEF SourceInv, ByStep, S!SourceIsSound, S!WholeScript, S!TooLargeIfLarger, S!ReadAsRole

(* One case per action; a chunk that is one too many tells that the script *)
(* is larger than MAX_SCRIPT_BYTES.                                        *)
LEMMA SourceNext == S!ConstantsOK /\ SourceInv /\ [S!Next]_S!vars => SourceInv'
<1> SUFFICES ASSUME S!ConstantsOK, SourceInv, [S!Next]_S!vars PROVE SourceInv'
  OBVIOUS
<1>t. /\ S!TypeOK /\ ByStep /\ S!SourceIsSound
      /\ script.size \in 0 .. MaxSize /\ script.text \in BOOLEAN
      /\ received \in 0 .. MaxBytes /\ MaxBytes \in Nat /\ MaxSize \in Nat
  BY DEF SourceInv, S!SourceIsSound, S!TypeOK, S!ConstantsOK
<1>r. {"script", "no script", "bad path", "denied", "too large", "broken", "not text"} \subseteq S!Result
  BY DEF S!Result
<1>1. CASE S!Inline
  <2>1. form \notin {"s3", "url"} /\ \E with \in S!Result \ {"too large"} : S!Ends(with)
    BY <1>1, <1>r DEF S!Inline, S!Text
  <2> QED
    BY <2>1, EndKeeps
<1>2. CASE S!BadPath
  BY <1>2, <1>r, EndKeeps DEF S!BadPath
<1>3. CASE S!Locate
  <2>1. /\ step = "detect" /\ form \in {"s3", "url"} /\ result = "none" /\ identity = "nobody"
        /\ step' = IF form = "s3" /\ role THEN "assume" ELSE "request"
        /\ identity' = IF form = "s3" /\ ~ role THEN "lambda" ELSE identity
        /\ UNCHANGED <<form, role, script, received, result>>
    BY <1>3, <1>t DEF S!Locate, S!input, ByStep
  <2>2. S!TypeOK'
    BY <1>t, <2>1 DEF S!TypeOK
  <2> QED
    BY <2>1, <2>2 DEF SourceInv, ByStep, Reader, S!SourceIsSound, S!WholeScript, S!TooLargeIfLarger, S!ReadAsRole
<1>4. CASE S!AssumeRole
  <2>1. CASE S!Ends("denied")
    BY <2>1, <1>r, EndKeeps
  <2>2. CASE /\ identity' = "role" /\ step' = "request"
             /\ UNCHANGED <<form, role, script, received, result>>
    <3>1. S!TypeOK'
      BY <1>t, <2>2 DEF S!TypeOK
    <3>2. form = "s3" /\ role /\ result = "none"
      BY <1>4, <1>t DEF S!AssumeRole, ByStep
    <3> QED
      BY <2>2, <3>1, <3>2 DEF SourceInv, ByStep, Reader, S!SourceIsSound, S!WholeScript, S!TooLargeIfLarger, S!ReadAsRole
  <2> QED
    BY <1>4, <2>1, <2>2 DEF S!AssumeRole, S!input
<1>5. CASE S!Request
  <2>1. CASE S!Ends("denied")
    BY <2>1, <1>r, EndKeeps
  <2>2. CASE S!Ends("too large") /\ script.size > MaxBytes
    BY <2>2, <1>r, EndKeeps
  <2>3. CASE step' = "read" /\ UNCHANGED <<form, role, script, identity, received, result>>
    <3>1. S!TypeOK'
      BY <1>t, <2>3 DEF S!TypeOK
    <3>2. step = "request" /\ result = "none" /\ form \in {"s3", "url"} /\ identity = Reader
      BY <1>5, <1>t DEF S!Request, ByStep
    <3> QED
      BY <2>3, <3>1, <3>2 DEF SourceInv, ByStep, Reader, S!SourceIsSound, S!WholeScript, S!TooLargeIfLarger, S!ReadAsRole
  <2> QED
    BY <1>5, <2>1, <2>2, <2>3 DEF S!Request, S!input
<1>6. CASE S!Read
  <2>1. PICK n \in 1 .. MaxSize :
           /\ n <= script.size - received
           /\ IF S!TooMany(n)
                THEN S!Ends("too large")
                ELSE /\ received' = received + n
                     /\ UNCHANGED <<form, role, script, identity, step, result>>
    BY <1>6 DEF S!Read, S!input
  <2>2. CASE S!TooMany(n)
    <3> DEFINE bytes == script.size
    <3>1. bytes \in Nat /\ received \in Nat /\ n \in Nat
      BY <1>t
    <3>2. n <= bytes - received
      BY <2>1
    <3>3. received + n > MaxBytes
      BY <2>2 DEF S!TooMany
    <3> HIDE DEF bytes
    <3>4. bytes > MaxBytes
      BY <1>t, <3>1, <3>2, <3>3
    <3>5. script.size > MaxBytes
      BY <3>4 DEF bytes
    <3> QED
      BY <1>r, <2>1, <2>2, <3>5, EndKeeps
  <2>3. CASE ~ S!TooMany(n)
    <3>1. received' \in 0 .. MaxBytes
      BY <1>t, <2>1, <2>3 DEF S!TooMany
    <3>2. S!TypeOK'
      BY <1>t, <2>1, <2>3, <3>1 DEF S!TypeOK
    <3>3. step = "read" /\ result = "none" /\ form \in {"s3", "url"} /\ identity = Reader
      BY <1>6, <1>t DEF S!Read, ByStep
    <3> QED
      BY <2>1, <2>3, <3>2, <3>3 DEF SourceInv, ByStep, Reader, S!SourceIsSound, S!WholeScript, S!TooLargeIfLarger, S!ReadAsRole
  <2> QED
    BY <2>2, <2>3
<1>7. CASE S!ReadEnds
  <2>1. CASE received = script.size /\ S!Ends(S!Text)
    <3>1. S!Text \in S!Result \ {"too large"} /\ (S!Text = "script" => script.text)
      BY <1>t, <1>r DEF S!Text
    <3> QED
      BY <2>1, <3>1, EndKeeps
  <2>2. CASE /\ script.ends = "close" /\ received < script.size
             /\ S!Ends("script") \/ S!Ends("not text")
    BY <2>2, <1>r, EndKeeps
  <2> QED
    BY <1>7, <2>1, <2>2 DEF S!ReadEnds
<1>8. CASE S!ReadFails
  BY <1>8, <1>r, EndKeeps DEF S!ReadFails
<1>9. CASE UNCHANGED S!vars
  <2>1. UNCHANGED <<form, role, script, step, identity, received, result>>
    BY <1>9 DEF S!vars, S!input
  <2>2. S!TypeOK'
    BY <1>t, <2>1 DEF S!TypeOK
  <2> QED
    BY <1>t, <2>1, <2>2 DEF SourceInv, ByStep, Reader, S!SourceIsSound, S!WholeScript, S!TooLargeIfLarger, S!ReadAsRole
<1> QED
  BY <1>1, <1>2, <1>3, <1>4, <1>5, <1>6, <1>7, <1>8, <1>9 DEF S!Next

(* For scripts and a limit of any size: a download is compiled only whole, *)
(* refused as too large only if it is, and made with the credentials that  *)
(* are configured.                                                         *)
THEOREM SourceIsSoundHolds == S!Spec => []SourceIsSound
<1>1. S!Init => SourceInv
  BY SourceAssumption, SourceInit
<1>2. SourceInv /\ [S!Next]_S!vars => SourceInv'
  BY SourceAssumption, SourceNext
<1>3. SourceInv => SourceIsSound
  BY DEF SourceIsSound, SourceInv
<1> QED
  BY <1>1, <1>2, <1>3, PTL DEF S!Spec

-----------------------------------------------------------------------------
(* Module ScriptTransform.  What becomes of a log is said of the stage, the *)
(* text and the script, given as arguments.                                *)
AnyText == [quotes : Nat, core : {"word", "number", "object", "blank"}]
Value   == [type : {"string", "json", "pass through"}, text : AnyText]
Result  == [log : Nat, body : Value]

BlankText == [quotes |-> 0, core |-> "blank"]

Slot(name, t) == IF name = "fails" THEN <<T!PassThrough>> ELSE T!Run(name, T!Parse(t))

(* The results of an outcome v and of the outcomes s of log i.             *)
ResultOf(af, i, t, v) ==
  IF af
    THEN IF T!DroppedBody(v) THEN <<>>
         ELSE <<[log |-> i, body |-> IF v = T!PassThrough THEN T!Parse(t) ELSE v]>>
    ELSE LET text == IF v = T!PassThrough THEN t ELSE T!Contents(v) IN
         IF T!Blank(text) THEN <<>> ELSE <<[log |-> i, body |-> T!Parse(text)]>>

ResultsOf(af, i, t, s) == Flattened([k \in DOMAIN s |-> ResultOf(af, i, t, s[k])])

\* What is parsed, serialized and parsed again is the same; it is never
\* blank when serialized, nor mistaken for a log that passes.
LEMMA ParseFacts ==
  ASSUME NEW t \in AnyText
  PROVE  LET v == T!Parse(t) IN
         /\ v \in Value /\ v # T!PassThrough
         /\ T!Serialize(v) \in AnyText /\ ~ T!Blank(T!Serialize(v))
         /\ T!Parse(T!Serialize(v)) = v
         /\ T!Contents(v) \in AnyText
         /\ t.quotes = 0 => T!Contents(v) = t
         /\ v.type # "string" => ~ T!Blank(v.text)
<1> DEFINE v == T!Parse(t)
           down == [t EXCEPT !.quotes = @ - 1]
<1>0. /\ t.quotes \in Nat /\ t.core \in {"word", "number", "object", "blank"}
      /\ t = [quotes |-> t.quotes, core |-> t.core]
  BY DEF AnyText
<1>1. CASE t.quotes > 0
  <2>1. v = [type |-> "string", text |-> down]
    BY <1>1 DEF T!Parse, T!Str
  <2>2. down \in AnyText /\ down.quotes = t.quotes - 1 /\ down.core = t.core
    BY <1>0, <1>1 DEF AnyText
  <2>3. [down EXCEPT !.quotes = @ + 1] = t
    <3>1. down = [quotes |-> t.quotes - 1, core |-> t.core]
      BY <1>0
    <3>2. (t.quotes - 1) + 1 = t.quotes
      BY <1>0
    <3> DEFINE d == t.quotes - 1
    <3> HIDE DEF d, down
    <3>3. down = [quotes |-> d, core |-> t.core]
      BY <3>1 DEF d
    <3>4. [down EXCEPT !.quotes = @ + 1] = [quotes |-> d + 1, core |-> t.core]
      BY <3>3
    <3> QED
      BY <1>0, <3>2, <3>4 DEF d
  <2> HIDE DEF v, down
  <2>4. v.type = "string" /\ v.text = down
    BY <2>1
  <2>5. T!Serialize(v) = t
    BY <2>3, <2>4 DEF T!Serialize
  <2>6. v \in Value /\ v # T!PassThrough
    BY <2>1, <2>2 DEF Value, T!PassThrough
  <2>7. ~ T!Blank(t) /\ T!Contents(v) = down
    BY <1>1, <2>4 DEF T!Blank, T!Contents
  <2> QED
    BY <1>1, <2>2, <2>4, <2>5, <2>6, <2>7 DEF v
<1>2. CASE t.quotes = 0 /\ t.core \in {"number", "object"}
  <2>1. v = [type |-> "json", text |-> t]
    BY <1>2 DEF T!Parse, T!Json
  <2> HIDE DEF v
  <2>2. v.type = "json" /\ v.text = t
    BY <2>1
  <2>3. T!Serialize(v) = t /\ T!Contents(v) = t
    BY <2>2 DEF T!Serialize, T!Contents
  <2>4. v \in Value /\ v # T!PassThrough /\ ~ T!Blank(t)
    BY <1>2, <2>1 DEF Value, T!PassThrough, T!Blank
  <2> QED
    BY <2>2, <2>3, <2>4 DEF v
<1>3. CASE t.quotes = 0 /\ t.core \notin {"number", "object"}
  <2> DEFINE up == [t EXCEPT !.quotes = @ + 1]
  <2>1. v = [type |-> "string", text |-> t]
    BY <1>3 DEF T!Parse, T!Str
  <2>2. up \in AnyText /\ up.quotes = 1 /\ up.core = t.core
    BY <1>0, <1>3 DEF AnyText
  <2>3. [up EXCEPT !.quotes = @ - 1] = t
    <3>1. up = [quotes |-> 1, core |-> t.core]
      BY <1>0, <1>3
    <3> HIDE DEF up
    <3>2. [up EXCEPT !.quotes = @ - 1] = [quotes |-> 1 - 1, core |-> t.core]
      BY <3>1
    <3> QED
      BY <1>0, <1>3, <3>2
  <2> HIDE DEF v
  <2>4. v.type = "string" /\ v.text = t
    BY <2>1
  <2>5. T!Serialize(v) = up /\ T!Contents(v) = t
    BY <2>4 DEF T!Serialize, T!Contents
  <2> HIDE DEF up
  <2>6. T!Parse(up) = v
    BY <2>1, <2>2, <2>3 DEF T!Parse, T!Str
  <2>7. v \in Value /\ v # T!PassThrough
    BY <2>1 DEF Value, T!PassThrough
  <2>8. ~ T!Blank(up)
    BY <2>2 DEF T!Blank
  <2> QED
    BY <2>2, <2>4, <2>5, <2>6, <2>7, <2>8 DEF v
<1> QED
  BY <1>0, <1>1, <1>2, <1>3

\* The results of each outcome a script may have.
LEMMA ResultOfFacts ==
  ASSUME NEW af \in BOOLEAN, NEW i \in Nat, NEW t \in AnyText, ~ T!Blank(t)
  PROVE  LET v == T!Parse(t)
             c == T!Contents(v)
             j == T!Str(T!Serialize(v)) IN
         /\ ResultOf(af, i, t, T!PassThrough) = <<[log |-> i, body |-> v]>>
         /\ ResultOf(af, i, t, v) = IF T!Blank(c) THEN <<>>
                                    ELSE <<[log |-> i, body |-> IF af THEN v ELSE T!Parse(c)]>>
         /\ ResultOf(af, i, t, j) = <<[log |-> i, body |-> IF af THEN j ELSE v]>>
         /\ ResultOf(af, i, t, T!Str(T!Word))
              = <<[log |-> i, body |-> IF af THEN T!Str(T!Word) ELSE T!Parse(T!Word)]>>
         /\ ResultOf(af, i, t, T!Str(BlankText)) = <<>>
<1> DEFINE v == T!Parse(t)
           c == T!Contents(v)
           w == T!Serialize(v)
           j == T!Str(w)
<1>1. /\ v \in Value /\ v # T!PassThrough
      /\ w \in AnyText /\ ~ T!Blank(w)
      /\ T!Parse(w) = v
      /\ v.type # "string" => ~ T!Blank(v.text)
  BY ParseFacts
<1>2. c = v.text
  BY DEF T!Contents
<1>3. j = [type |-> "string", text |-> w] /\ j # T!PassThrough /\ j.type = "string" /\ j.text = w
  BY DEF T!Str, T!PassThrough
<1> HIDE DEF v, c, w, j
<1>4. ResultOf(af, i, t, T!PassThrough) = <<[log |-> i, body |-> v]>>
  <2>1. ~ T!DroppedBody(T!PassThrough)
    BY DEF T!DroppedBody, T!PassThrough
  <2> QED
    BY <2>1 DEF ResultOf, v
<1>5. ResultOf(af, i, t, v) = IF T!Blank(c) THEN <<>>
                              ELSE <<[log |-> i, body |-> IF af THEN v ELSE T!Parse(c)]>>
  <2>1. T!DroppedBody(v) <=> T!Blank(c)
    BY <1>1, <1>2 DEF T!DroppedBody
  <2>2. T!Contents(v) = c
    BY DEF c
  <2> QED
    BY <1>1, <2>1, <2>2 DEF ResultOf
<1>6. ResultOf(af, i, t, j) = <<[log |-> i, body |-> IF af THEN j ELSE v]>>
  <2>1. ~ T!DroppedBody(j) /\ T!Contents(j) = w
    BY <1>1, <1>3 DEF T!DroppedBody, T!Contents
  <2> QED
    BY <1>1, <1>3, <2>1 DEF ResultOf
<1>7. ResultOf(af, i, t, T!Str(T!Word))
        = <<[log |-> i, body |-> IF af THEN T!Str(T!Word) ELSE T!Parse(T!Word)]>>
  <2> DEFINE x == T!Str(T!Word)
  <2>1. x # T!PassThrough /\ x.text = T!Word /\ ~ T!Blank(T!Word)
    BY DEF T!Str, T!PassThrough, T!Word, T!Blank
  <2>2. ~ T!DroppedBody(x) /\ T!Contents(x) = T!Word
    BY <2>1 DEF T!DroppedBody, T!Contents
  <2> HIDE DEF x
  <2>3. ResultOf(af, i, t, x) = <<[log |-> i, body |-> IF af THEN x ELSE T!Parse(T!Word)]>>
    BY <2>1, <2>2 DEF ResultOf
  <2> QED
    BY <2>3 DEF x
<1>8. ResultOf(af, i, t, T!Str(BlankText)) = <<>>
  <2> DEFINE x == T!Str(BlankText)
  <2>1. x # T!PassThrough /\ x.text = BlankText /\ x.type = "string" /\ T!Blank(BlankText)
    BY DEF T!Str, T!PassThrough, BlankText, T!Blank
  <2>2. T!DroppedBody(x) /\ T!Contents(x) = BlankText
    BY <2>1 DEF T!DroppedBody, T!Contents
  <2> HIDE DEF x
  <2>3. ResultOf(af, i, t, x) = <<>>
    BY <2>1, <2>2 DEF ResultOf
  <2> QED
    BY <2>3 DEF x
<1> QED
  BY <1>4, <1>5, <1>6, <1>7, <1>8 DEF v, c, w, j

(* The results of no outcome, of one and of two.                           *)
Few(af, i, t, v, w) ==
  /\ ResultsOf(af, i, t, <<>>) = <<>>
  /\ ResultsOf(af, i, t, <<v>>) = ResultOf(af, i, t, v)
  /\ ResultsOf(af, i, t, <<v, w>>) = ResultOf(af, i, t, v) \o ResultOf(af, i, t, w)

\* A script has no outcome, one or two.
LEMMA ResultsOfFew ==
  ASSUME NEW af, NEW i, NEW t, NEW v, NEW w,
         ResultOf(af, i, t, v) \in Seq(Result), ResultOf(af, i, t, w) \in Seq(Result)
  PROVE  Few(af, i, t, v, w)
<1> DEFINE r(x) == ResultOf(af, i, t, x)
           e == <<>>
           u == <<v>>
           p == <<v, w>>
           m(s) == [k \in DOMAIN s |-> r(s[k])]
<1>1. m(e) = <<>>
  OBVIOUS
<1>2. m(u) = <<r(v)>>
  <2>1. DOMAIN u = {1} /\ u[1] = v /\ DOMAIN <<r(v)>> = {1} /\ <<r(v)>>[1] = r(v)
    OBVIOUS
  <2>2. <<r(v)>> = [k \in {1} |-> r(v)]
    OBVIOUS
  <2> HIDE DEF u, r
  <2> QED
    BY <2>1, <2>2
<1>3. m(p) = <<r(v), r(w)>>
  <2>1. DOMAIN p = {1, 2} /\ p[1] = v /\ p[2] = w
    OBVIOUS
  <2>2. <<r(v), r(w)>> = [k \in {1, 2} |-> IF k = 1 THEN r(v) ELSE r(w)]
    OBVIOUS
  <2> HIDE DEF p, r
  <2> QED
    BY <2>1, <2>2
<1>4. Flattened(<<>>) = <<>> /\ Flattened(<<r(v)>>) = r(v) /\ Flattened(<<r(v), r(w)>>) = r(v) \o r(w)
  BY FlattenedEmpty, FlattenedSingle, FlattenedTwo
<1> QED
  BY <1>1, <1>2, <1>3, <1>4 DEF ResultsOf, Few

(* The results r of log i are n times the body b.                          *)
Bodies(r, i, n, b) ==
  r \in Seq(Result) /\ Len(r) = n /\ \A x \in Elements(r) : x.log = i /\ x.body = b

\* None, one and two results.
LEMMA FewBodies ==
  ASSUME NEW i \in Nat, NEW b \in Value
  PROVE  LET x == <<[log |-> i, body |-> b]>> IN
         Bodies(<<>>, i, 0, b) /\ Bodies(x, i, 1, b) /\ Bodies(x \o x, i, 2, b)
<1> DEFINE y == [log |-> i, body |-> b]
           x == <<y>>
           e == <<>>
<1>1. y \in Result /\ y.log = i /\ y.body = b
  BY DEF Result
<1> HIDE DEF y
<1>2. x \in Seq(Result) /\ Elements(x) = {y} /\ Len(x) = 1
  BY <1>1, SingleElement
<1>3. e \in Seq(Result) /\ Elements(e) = {} /\ Len(e) = 0
  BY NoElement
<1> HIDE DEF x, e
<1>4. x \o x \in Seq(Result) /\ Len(x \o x) = 2
  BY <1>2
<1>5. Elements(x \o x) = {y}
  BY <1>2, ConcatElements
<1> QED
  BY <1>1, <1>2, <1>3, <1>4, <1>5 DEF Bodies, x, e, y

(* How many results a script makes of a text.                              *)
Number(name, t) ==
  LET blank == T!Blank(T!Contents(T!Parse(t))) IN
  CASE name \in {"none", "blank"}             -> 0
    [] name \in {"same", "twice"} /\ blank    -> 0
    [] name = "twice" /\ ~ blank              -> 2
    [] name = "same" /\ ~ blank               -> 1
    [] name \in {"to_json", "tuple", "fails"} -> 1

(* What is in a result, where the stage and the script decide it.          *)
BodyAs(af, name, t, b) ==
  /\ name = "fails" => b = T!Parse(t)
  /\ name \in {"same", "twice"} /\ (af \/ t.quotes = 0) => b = T!Parse(t)
  /\ name = "to_json" => b = IF af THEN T!Str(T!Serialize(T!Parse(t))) ELSE T!Parse(t)

\* The results of a log, whatever the script.
LEMMA ResultsOfFacts ==
  ASSUME NEW af \in BOOLEAN, NEW i \in Nat, NEW t \in AnyText, ~ T!Blank(t), NEW name \in T!Script
  PROVE  \E b \in Value : /\ Bodies(ResultsOf(af, i, t, Slot(name, t)), i, Number(name, t), b)
                          /\ BodyAs(af, name, t, b)
<1> DEFINE v == T!Parse(t)
           c == T!Contents(v)
           j == T!Str(T!Serialize(v))
           word == T!Str(T!Word)
           blank == T!Str(BlankText)
           pass == T!PassThrough
           r(x) == ResultOf(af, i, t, x)
           one(b) == <<[log |-> i, body |-> b]>>
           R(s) == ResultsOf(af, i, t, s)
<1>1. /\ v \in Value /\ c \in AnyText /\ T!Serialize(v) \in AnyText
      /\ t.quotes = 0 => c = t
  BY ParseFacts
<1>2. j \in Value /\ word \in Value /\ T!Parse(c) \in Value /\ T!Parse(T!Word) \in Value
  <2>1. T!Word \in AnyText
    BY DEF T!Word, AnyText
  <2>2. T!Parse(c) \in Value /\ T!Parse(T!Word) \in Value
    BY <1>1, <2>1, ParseFacts
  <2>3. j \in Value /\ word \in Value
    BY <1>1, <2>1 DEF Value, T!Str
  <2> QED
    BY <2>2, <2>3
<1>3. /\ r(pass) = one(v)
      /\ r(v) = IF T!Blank(c) THEN <<>> ELSE one(IF af THEN v ELSE T!Parse(c))
      /\ r(j) = one(IF af THEN j ELSE v)
      /\ r(word) = one(IF af THEN word ELSE T!Parse(T!Word))
      /\ r(blank) = <<>>
  BY ResultOfFacts
<1>4. ASSUME NEW b \in Value
      PROVE  /\ <<>> \in Seq(Result) /\ one(b) \in Seq(Result)
             /\ Bodies(<<>>, i, 0, b) /\ Bodies(one(b), i, 1, b) /\ Bodies(one(b) \o one(b), i, 2, b)
  <2>1. Bodies(<<>>, i, 0, b) /\ Bodies(one(b), i, 1, b) /\ Bodies(one(b) \o one(b), i, 2, b)
    BY FewBodies
  <2> QED
    BY <2>1 DEF Bodies
<1>5. ASSUME NEW x, NEW y, r(x) \in Seq(Result), r(y) \in Seq(Result)
      PROVE  R(<<>>) = <<>> /\ R(<<x>>) = r(x) /\ R(<<x, y>>) = r(x) \o r(y)
  <2>1. ResultOf(af, i, t, x) \in Seq(Result) /\ ResultOf(af, i, t, y) \in Seq(Result)
    BY <1>5
  <2> HIDE DEF r, R
  <2>2. Few(af, i, t, x, y)
    BY <2>1, ResultsOfFew
  <2> QED
    BY <2>2 DEF r, R, Few
<1>6. Slot(name, t) = CASE name = "fails"   -> <<pass>>
                        [] name = "same"    -> <<v>>
                        [] name = "twice"   -> <<v, v>>
                        [] name = "none"    -> <<>>
                        [] name = "to_json" -> <<j>>
                        [] name = "tuple"   -> <<word>>
                        [] name = "blank"   -> <<blank>>
  BY DEF Slot, T!Run, T!Script, BlankText
<1>7. name \in {"same", "twice", "none", "to_json", "tuple", "blank", "fails"}
  BY DEF T!Script
<1> HIDE DEF v, c, j, word, blank, pass, r, one, R
<1>8. CASE name = "fails"
  <2>1. R(<<pass>>) = one(v)
    BY <1>1, <1>3, <1>4, <1>5
  <2>2. Bodies(R(Slot(name, t)), i, 1, v)
    BY <1>1, <1>4, <1>6, <1>8, <2>1
  <2>3. Number(name, t) = 1 /\ BodyAs(af, name, t, v)
    BY <1>8 DEF Number, BodyAs, v
  <2> QED
    BY <1>1, <2>2, <2>3 DEF R
<1>9. CASE name \in {"same", "twice"} /\ T!Blank(c)
  <2>1. r(v) = <<>> /\ r(v) \in Seq(Result)
    BY <1>1, <1>3, <1>4, <1>9
  <2>2. R(<<v>>) = <<>> /\ R(<<v, v>>) = <<>>
    <3>1. R(<<v>>) = r(v) /\ R(<<v, v>>) = r(v) \o r(v)
      BY <1>5, <2>1
    <3>2. <<>> \o <<>> = <<>>
      OBVIOUS
    <3> QED
      BY <2>1, <3>1, <3>2
  <2>3. Bodies(R(Slot(name, t)), i, 0, v)
    BY <1>1, <1>4, <1>6, <1>9, <2>2
  <2>4. Number(name, t) = 0 /\ BodyAs(af, name, t, v)
    BY <1>9 DEF Number, BodyAs, v, c
  <2> QED
    BY <1>1, <2>3, <2>4 DEF R
<1>10. CASE name \in {"same", "twice"} /\ ~ T!Blank(c)
  <2> DEFINE b == IF af THEN v ELSE T!Parse(c)
  <2>1. b \in Value /\ r(v) = one(b) /\ r(v) \in Seq(Result)
    BY <1>1, <1>2, <1>3, <1>4, <1>10
  <2>2. af \/ t.quotes = 0 => b = v
    BY <1>1 DEF v
  <2> HIDE DEF b
  <2>3. R(<<v>>) = one(b) /\ R(<<v, v>>) = one(b) \o one(b)
    BY <1>5, <2>1
  <2>4. Bodies(R(Slot(name, t)), i, IF name = "same" THEN 1 ELSE 2, b)
    BY <1>4, <1>6, <1>10, <2>1, <2>3
  <2>5. Number(name, t) = IF name = "same" THEN 1 ELSE 2
    BY <1>10 DEF Number, v, c
  <2>6. BodyAs(af, name, t, b)
    BY <1>10, <2>2 DEF BodyAs, v
  <2> QED
    BY <2>1, <2>4, <2>5, <2>6 DEF R
<1>11. CASE name = "none"
  <2>1. R(<<>>) = <<>>
    BY <1>1, <1>3, <1>4, <1>5
  <2>2. Bodies(R(Slot(name, t)), i, 0, v)
    BY <1>1, <1>4, <1>6, <1>11, <2>1
  <2>3. Number(name, t) = 0 /\ BodyAs(af, name, t, v)
    BY <1>11 DEF Number, BodyAs
  <2> QED
    BY <1>1, <2>2, <2>3 DEF R
<1>12. CASE name = "to_json"
  <2> DEFINE b == IF af THEN j ELSE v
  <2>1. b \in Value /\ r(j) = one(b)
    BY <1>1, <1>2, <1>3
  <2> HIDE DEF b
  <2>2. R(<<j>>) = one(b)
    BY <1>4, <1>5, <2>1
  <2>3. Bodies(R(Slot(name, t)), i, 1, b)
    BY <1>4, <1>6, <1>12, <2>1, <2>2
  <2>4. Number(name, t) = 1 /\ BodyAs(af, name, t, b)
    BY <1>12 DEF Number, BodyAs, b, j, v
  <2> QED
    BY <2>1, <2>3, <2>4 DEF R
<1>13. CASE name = "tuple"
  <2> DEFINE b == IF af THEN word ELSE T!Parse(T!Word)
  <2>1. b \in Value /\ r(word) = one(b)
    BY <1>2, <1>3
  <2> HIDE DEF b
  <2>2. R(<<word>>) = one(b)
    BY <1>4, <1>5, <2>1
  <2>3. Bodies(R(Slot(name, t)), i, 1, b)
    BY <1>4, <1>6, <1>13, <2>1, <2>2
  <2>4. Number(name, t) = 1 /\ BodyAs(af, name, t, b)
    BY <1>13 DEF Number, BodyAs
  <2> QED
    BY <2>1, <2>3, <2>4 DEF R
<1>14. CASE name = "blank"
  <2>1. R(<<blank>>) = <<>>
    BY <1>1, <1>3, <1>4, <1>5
  <2>2. Bodies(R(Slot(name, t)), i, 0, v)
    BY <1>1, <1>4, <1>6, <1>14, <2>1
  <2>3. Number(name, t) = 0 /\ BodyAs(af, name, t, v)
    BY <1>14 DEF Number, BodyAs
  <2> QED
    BY <1>1, <2>2, <2>3 DEF R
<1> QED
  BY <1>7, <1>8, <1>9, <1>10, <1>11, <1>12, <1>13, <1>14

LogText == {t \in AnyText : ~ T!Blank(t)}

AllResults(af, ls, ev) == Flattened([i \in DOMAIN ev |-> ResultsOf(af, i, ls[i], Slot(ev[i], ls[i]))])

(* The inductive invariant of a batch: every log evaluated has the slot    *)
(* its script makes of it, and the results are those of the slots.         *)
TransformInv ==
  /\ after \in BOOLEAN
  /\ logs \in Seq(LogText) /\ Len(logs) >= 1
  /\ evaluated \in Seq(T!Script) /\ Len(evaluated) <= Len(logs)
  /\ slots = [i \in DOMAIN evaluated |-> Slot(evaluated[i], logs[i])]
  /\ done => Len(evaluated) = Len(logs) /\ results = AllResults(after, logs, evaluated)

(* Nothing is evaluated at first. *)
LEMMA TransformInit == T!Init => TransformInv
<1> SUFFICES ASSUME T!Init PROVE TransformInv
  OBVIOUS
<1>1. after \in BOOLEAN /\ slots = <<>> /\ evaluated = <<>> /\ ~ done
  BY DEF T!Init
<1>2. PICK n \in 1 .. MaxLogs :
        logs \in [1 .. n -> {t \in T!Text : t.quotes <= MaxQuotes /\ ~ T!Blank(t)}]
  BY DEF T!Init
<1>3. {t \in T!Text : t.quotes <= MaxQuotes /\ ~ T!Blank(t)} \subseteq LogText
  <2>1. T!Text \subseteq AnyText
    BY TransformAssumption DEF T!Text, AnyText, T!ConstantsOK
  <2> QED
    BY <2>1 DEF LogText
<1>4. logs \in Seq(LogText) /\ Len(logs) = n
  <2>1. logs \in [1 .. n -> LogText]
    BY <1>2, <1>3
  <2>2. n \in Nat
    BY TransformAssumption DEF T!ConstantsOK
  <2> QED
    BY <2>1, <2>2
<1>5. slots = [i \in DOMAIN evaluated |-> Slot(evaluated[i], logs[i])]
  BY <1>1
<1>6. evaluated \in Seq(T!Script) /\ Len(evaluated) = 0
  BY <1>1
<1> QED
  BY <1>1, <1>4, <1>5, <1>6 DEF TransformInv

\* What the script is given is the log parsed, in both places.
LEMMA EventIsParsed ==
  ASSUME logs \in Seq(LogText), NEW i \in DOMAIN logs
  PROVE  T!Event(i) = T!Parse(logs[i])
<1>1. logs[i] \in AnyText
  <2> DEFINE A == LogText
  <2> HIDE DEF A
  <2>1. logs \in Seq(A) => logs[i] \in A
    OBVIOUS
  <2> QED
    BY <2>1 DEF A, LogText
<1>2. T!Parse(T!Serialize(T!Parse(logs[i]))) = T!Parse(logs[i])
  BY <1>1, ParseFacts
<1> QED
  BY <1>2 DEF T!Event

(* A log evaluated adds the slot of its script; the slots of the logs      *)
(* before it stay as they are.                                             *)
LEMMA TransformNext == TransformInv /\ [T!Next]_(T!vars) => TransformInv'
<1> SUFFICES ASSUME TransformInv, [T!Next]_(T!vars) PROVE TransformInv'
  OBVIOUS
<1>0. /\ after \in BOOLEAN
      /\ logs \in Seq(LogText) /\ Len(logs) >= 1 /\ Len(logs) \in Nat
      /\ evaluated \in Seq(T!Script) /\ Len(evaluated) <= Len(logs) /\ Len(evaluated) \in Nat
      /\ slots = [i \in DOMAIN evaluated |-> Slot(evaluated[i], logs[i])]
      /\ done => Len(evaluated) = Len(logs) /\ results = AllResults(after, logs, evaluated)
      /\ DOMAIN logs = 1 .. Len(logs) /\ DOMAIN evaluated = 1 .. Len(evaluated)
  BY DEF TransformInv
<1>a. /\ Len(logs) \in Nat /\ Len(logs) >= 1 /\ Len(evaluated) \in Nat /\ Len(evaluated) <= Len(logs)
      /\ DOMAIN logs = 1 .. Len(logs) /\ DOMAIN evaluated = 1 .. Len(evaluated)
  BY <1>0
<1>b. evaluated \in Seq(T!Script) /\ logs \in Seq(LogText) /\ after \in BOOLEAN
  BY <1>0
<1>c. slots = [i \in DOMAIN evaluated |-> Slot(evaluated[i], logs[i])]
  BY <1>0
<1>d. done => Len(evaluated) = Len(logs)
  BY <1>0
<1>1. CASE T!Evaluate
  <2>1. PICK name \in T!Script :
          /\ evaluated' = Append(evaluated, name)
          /\ slots' = Append(slots, IF name = "fails" THEN <<T!PassThrough>>
                                    ELSE T!Run(name, T!Event(Len(evaluated) + 1)))
    BY <1>1 DEF T!Evaluate
  <2>2. after' = after /\ logs' = logs /\ results' = results /\ done' = done
    BY <1>1 DEF T!Evaluate
  <2>8. Len(evaluated) < Len(logs)
    BY <1>1 DEF T!Evaluate
  <2> DEFINE l == Len(evaluated) + 1
             e == Append(evaluated, name)
             s == Slot(name, logs[l])
  <2>3. slots' = Append(slots, s)
    <3>1. l \in DOMAIN logs
      BY <1>a, <2>8
    <3>2. T!Event(l) = T!Parse(logs[l])
      BY <1>b, <3>1, EventIsParsed
    <3> QED
      BY <2>1, <3>2 DEF Slot
  <2>4. /\ e \in Seq(T!Script) /\ Len(e) = l /\ DOMAIN e = 1 .. l
        /\ \A i \in DOMAIN evaluated : e[i] = evaluated[i]
        /\ e[l] = name
    <3> DEFINE A == T!Script
    <3> HIDE DEF A
    <3>1. evaluated \in Seq(A) /\ name \in A
      BY <1>b DEF A
    <3>2. /\ e \in Seq(A) /\ Len(e) = l /\ DOMAIN e = 1 .. l
          /\ \A i \in DOMAIN evaluated : e[i] = evaluated[i]
          /\ e[l] = name
      BY <3>1
    <3> QED
      BY <3>2 DEF A
  <2> HIDE DEF e, s
  <2>5. Append(slots, s) = [i \in DOMAIN e |-> Slot(e[i], logs[i])]
    <3> DEFINE A == {Slot(evaluated[i], logs[i]) : i \in DOMAIN evaluated} \cup {s}
    <3>1. slots \in [1 .. Len(evaluated) -> A]
      BY <1>a, <1>c
    <3> HIDE DEF A
    <3>2. slots \in Seq(A) /\ Len(slots) = Len(evaluated)
      BY <1>a, <3>1
    <3>0. s \in A
      BY DEF A
    <3>3. Append(slots, s) = [i \in 1 .. l |-> IF i = l THEN s ELSE slots[i]]
      <4> DEFINE n == Append(slots, s)
      <4>1. n \in Seq(A) /\ Len(n) = Len(slots) + 1
        BY <3>0, <3>2
      <4>2. n = [i \in 1 .. Len(n) |-> n[i]]
        <5> HIDE DEF n
        <5>1. n \in [1 .. Len(n) -> A]
          BY <4>1
        <5> QED
          BY <5>1
      <4>3. Len(n) = l
        BY <3>2, <4>1
      <4>4. \A i \in 1 .. l : n[i] = IF i = l THEN s ELSE slots[i]
        BY <1>a, <3>0, <3>2
      <4> HIDE DEF n, l
      <4>5. n = [i \in 1 .. l |-> IF i = l THEN s ELSE slots[i]]
        BY <4>2, <4>3, <4>4
      <4> QED
        BY <4>5 DEF n
    <3>4. ASSUME NEW i \in 1 .. l PROVE Slot(e[i], logs[i]) = IF i = l THEN s ELSE slots[i]
      <4>1. CASE i = l
        BY <2>4, <4>1 DEF s
      <4>2. CASE i # l
        <5>1. i \in DOMAIN evaluated
          BY <1>a, <4>2
        <5> QED
          BY <1>c, <2>4, <4>2, <5>1
      <4> QED
        BY <4>1, <4>2
    <3> QED
      BY <2>4, <3>3, <3>4
  <2>6. ~ done
    <3> DEFINE n == Len(evaluated)
               m == Len(logs)
    <3>0. n \in Nat /\ m \in Nat
      BY <1>a
    <3>2. n < m
      BY <2>8
    <3> HIDE DEF n, m
    <3>3. n # m
      BY <3>0, <3>2
    <3>1. Len(evaluated) # Len(logs)
      BY <3>3 DEF n, m
    <3> QED
      BY <1>d, <3>1
  <2>7. Len(e) <= Len(logs)
    BY <1>a, <2>4, <2>8
  <2> QED
    BY <1>0, <2>1, <2>2, <2>3, <2>4, <2>5, <2>6, <2>7 DEF TransformInv, e
<1>2. CASE T!Unavailable
  <2>1. /\ evaluated = <<>> /\ slots' = [i \in DOMAIN logs |-> <<T!PassThrough>>]
        /\ evaluated' = [i \in DOMAIN logs |-> "fails"]
        /\ after' = after /\ logs' = logs /\ results' = results /\ done' = done
    BY <1>2 DEF T!Unavailable
  <2>2. ~ done
    BY <1>a, <1>d, <2>1
  <2>3. evaluated' \in Seq(T!Script) /\ Len(evaluated') = Len(logs)
    <3>1. "fails" \in T!Script
      BY DEF T!Script
    <3>2. evaluated' \in [1 .. Len(logs) -> T!Script]
      BY <1>a, <2>1, <3>1
    <3> DEFINE A == T!Script
    <3> HIDE DEF A
    <3>3. evaluated' \in [1 .. Len(logs) -> A]
      BY <3>2 DEF A
    <3>4. evaluated' \in Seq(A) /\ Len(evaluated') = Len(logs)
      BY <1>a, <3>3
    <3> QED
      BY <3>4 DEF A
  <2>4. slots' = [i \in DOMAIN evaluated' |-> Slot(evaluated'[i], logs[i])]
    BY <2>1 DEF Slot
  <2> QED
    BY <1>0, <2>1, <2>2, <2>3, <2>4 DEF TransformInv
<1>3. CASE T!Collect
  <2>1. /\ Len(evaluated) = Len(logs)
        /\ results' = T!FlattenSeq([i \in DOMAIN slots |-> IF after THEN T!FromBodies(i) ELSE T!FromTexts(i)])
        /\ after' = after /\ logs' = logs /\ slots' = slots /\ evaluated' = evaluated
    BY <1>3 DEF T!Collect
  <2>2. \A ss : T!FlattenSeq(ss) = Flattened(ss)
    BY DEF T!FlattenSeq, Flattened, IsFlattening
  <2>3. ASSUME NEW i \in DOMAIN slots
        PROVE  (IF after THEN T!FromBodies(i) ELSE T!FromTexts(i)) = ResultsOf(after, i, logs[i], slots[i])
    <3>1. CASE after
      BY <2>2, <3>1 DEF T!FromBodies, ResultsOf, ResultOf
    <3>2. CASE ~ after
      BY <2>2, <3>2 DEF T!FromTexts, ResultsOf, ResultOf
    <3> QED
      BY <3>1, <3>2
  <2>4. [i \in DOMAIN slots |-> IF after THEN T!FromBodies(i) ELSE T!FromTexts(i)]
          = [i \in DOMAIN evaluated |-> ResultsOf(after, i, logs[i], Slot(evaluated[i], logs[i]))]
    BY <1>0, <2>3
  <2>5. results' = AllResults(after, logs, evaluated)
    BY <2>1, <2>2, <2>4 DEF AllResults
  <2> QED
    BY <1>0, <2>1, <2>5 DEF TransformInv
<1>4. CASE UNCHANGED T!vars
  BY <1>4 DEF TransformInv, T!vars
<1> QED
  BY <1>1, <1>2, <1>3, <1>4 DEF T!Next

(* The results rs are those of the scripts ev for the logs ls, in order.   *)
Own(af, ls, ev, rs) ==
  /\ \A j, k \in DOMAIN rs : j < k => rs[j].log <= rs[k].log
  /\ \A i \in DOMAIN ls :
       /\ Cardinality({k \in DOMAIN rs : rs[k].log = i}) = Number(ev[i], ls[i])
       /\ \A k \in DOMAIN rs : rs[k].log = i => BodyAs(af, ev[i], ls[i], rs[k].body)

\* The results of a batch, by log.
LEMMA AllResultsFacts ==
  ASSUME NEW af \in BOOLEAN, NEW ls \in Seq(LogText), NEW ev \in Seq(T!Script), Len(ev) = Len(ls)
  PROVE  Own(af, ls, ev, AllResults(af, ls, ev))
<1> DEFINE T1 == Seq(Result)
           of(i) == ResultsOf(af, i, ls[i], Slot(ev[i], ls[i]))
           m == [i \in DOMAIN ev |-> of(i)]
           rs == AllResults(af, ls, ev)
           R == {p \in Result \X Result : p[1].log <= p[2].log}
<1>1. /\ Len(ev) \in Nat /\ DOMAIN ev = 1 .. Len(ev) /\ DOMAIN ls = DOMAIN ev
      /\ \A i \in DOMAIN ls : ls[i] \in LogText /\ ev[i] \in T!Script /\ i \in Nat
  <2> DEFINE S1 == LogText
             S2 == T!Script
  <2> HIDE DEF S1, S2
  <2>1. ls \in Seq(S1) /\ ev \in Seq(S2)
    BY DEF S1, S2
  <2>2. /\ Len(ev) \in Nat /\ DOMAIN ev = 1 .. Len(ev) /\ DOMAIN ls = DOMAIN ev
        /\ \A i \in DOMAIN ls : ls[i] \in S1 /\ ev[i] \in S2 /\ i \in Nat
    BY <2>1
  <2> QED
    BY <2>2 DEF S1, S2
<1>2. ASSUME NEW i \in DOMAIN ev
      PROVE  /\ of(i) \in T1 /\ Len(of(i)) = Number(ev[i], ls[i])
             /\ \A x \in Elements(of(i)) : x.log = i /\ BodyAs(af, ev[i], ls[i], x.body)
  <2>1. ls[i] \in AnyText /\ ~ T!Blank(ls[i]) /\ ev[i] \in T!Script /\ i \in Nat
    BY <1>1 DEF LogText
  <2>2. PICK b \in Value : Bodies(of(i), i, Number(ev[i], ls[i]), b) /\ BodyAs(af, ev[i], ls[i], b)
    BY <2>1, ResultsOfFacts
  <2> HIDE DEF of
  <2> QED
    BY <2>2 DEF Bodies
<1>3. m \in Seq(T1) /\ DOMAIN m = DOMAIN ev /\ \A i \in DOMAIN ev : m[i] = of(i)
  <2> HIDE DEF T1, of
  <2>1. m \in [1 .. Len(ev) -> T1]
    BY <1>1, <1>2
  <2>2. DOMAIN m = DOMAIN ev /\ \A i \in DOMAIN ev : m[i] = of(i)
    OBVIOUS
  <2> HIDE DEF m
  <2>3. m \in Seq(T1)
    BY <1>1, <2>1
  <2> QED
    BY <2>2, <2>3
<1>4. rs = Flattened(m)
  BY DEF AllResults
<1> HIDE DEF m, of, rs
<1>5. Flattened(m) \in Seq(Result)
  BY <1>3, FlattenedType
<1>6. Elements(Flattened(m)) = UNION {Elements(m[i]) : i \in DOMAIN m}
  BY <1>3, FlattenedElements
<1>7. Pairwise(R, Flattened(m))
  <2>0. \A i \in DOMAIN m : \A x \in Elements(m[i]) : x \in Result /\ x.log = i
    <3>1. \A i \in DOMAIN m : Elements(m[i]) \subseteq Result
      BY <1>2, <1>3 DEF Elements
    <3> QED
      BY <1>2, <1>3, <3>1
  <2>1. \A k \in DOMAIN m : Pairwise(R, m[k])
    <3> SUFFICES ASSUME NEW k \in DOMAIN m, NEW a \in DOMAIN m[k], NEW b \in DOMAIN m[k]
                 PROVE  <<m[k][a], m[k][b]>> \in R
      BY DEF Pairwise
    <3>1. m[k][a] \in Elements(m[k]) /\ m[k][b] \in Elements(m[k])
      BY DEF Elements
    <3>2. k \in Nat
      BY <1>1, <1>3
    <3> QED
      BY <2>0, <3>1, <3>2
  <2>2. ASSUME NEW j \in DOMAIN m, NEW k \in DOMAIN m, j < k
        PROVE  Elements(m[j]) \X Elements(m[k]) \subseteq R
    <3>1. j \in Nat /\ k \in Nat
      BY <1>1, <1>3
    <3> QED
      BY <2>0, <2>2, <3>1
  <2> HIDE DEF R
  <2> QED
    BY <1>3, <2>1, <2>2, FlattenedPairwise
<1>8. \A j, k \in DOMAIN rs : j < k => rs[j].log <= rs[k].log
  BY <1>4, <1>7 DEF Pairwise
<1>9. ASSUME NEW i \in DOMAIN ls
      PROVE  Cardinality({k \in DOMAIN rs : rs[k].log = i}) = Number(ev[i], ls[i])
  <2> DEFINE g == [x \in Result |-> x.log]
  <2>1. \A k \in DOMAIN m : \A x \in Elements(m[k]) : g[x] = k
    <3>1. \A k \in DOMAIN m : Elements(m[k]) \subseteq Result
      BY <1>2, <1>3 DEF Elements
    <3> QED
      BY <1>2, <1>3, <3>1
  <2>2. i \in DOMAIN m
    BY <1>1, <1>3
  <2>3. Cardinality({n \in DOMAIN Flattened(m) : g[Flattened(m)[n]] = i}) = Len(m[i])
    <3> HIDE DEF g
    <3>1. m \in Seq(Seq(Result))
      BY <1>3 DEF T1
    <3> QED
      BY <2>1, <2>2, <3>1, FlattenedCount
  <2>4. \A n \in DOMAIN rs : g[rs[n]] = rs[n].log
    BY <1>4, <1>5
  <2> HIDE DEF g
  <2>5. {n \in DOMAIN rs : g[rs[n]] = i} = {n \in DOMAIN rs : rs[n].log = i}
    BY <2>4
  <2> QED
    BY <1>1, <1>2, <1>3, <1>4, <2>3, <2>5
<1>10. ASSUME NEW i \in DOMAIN ls, NEW k \in DOMAIN rs, rs[k].log = i
       PROVE  BodyAs(af, ev[i], ls[i], rs[k].body)
  <2>1. rs[k] \in Elements(Flattened(m))
    BY <1>4 DEF Elements
  <2>2. PICK j \in DOMAIN m : rs[k] \in Elements(m[j])
    BY <1>6, <2>1
  <2> QED
    BY <1>2, <1>3, <1>10, <2>2
<1> QED
  BY <1>8, <1>9, <1>10 DEF rs, Own

(* What the invariant says of the results when they are complete. *)
LEMMA TransformKeeps == TransformInv => ResultsAreOwn
<1> SUFFICES ASSUME TransformInv, done PROVE ResultsAreOwn
  BY DEF ResultsAreOwn, T!ResultsAreOwn, T!FailureKeepsBody, T!SameKeepsBody, T!ToJsonByStage, T!OwnResults
<1>1. /\ after \in BOOLEAN /\ logs \in Seq(LogText) /\ evaluated \in Seq(T!Script)
      /\ Len(evaluated) = Len(logs) /\ results = AllResults(after, logs, evaluated)
  BY DEF TransformInv
<1>2. /\ \A j, k \in DOMAIN results : j < k => results[j].log <= results[k].log
      /\ \A i \in DOMAIN logs :
           /\ Cardinality({k \in DOMAIN results : results[k].log = i}) = Number(evaluated[i], logs[i])
           /\ \A k \in DOMAIN results : results[k].log = i => BodyAs(after, evaluated[i], logs[i], results[k].body)
  <2>1. Own(after, logs, evaluated, AllResults(after, logs, evaluated))
    BY <1>1, AllResultsFacts
  <2> QED
    BY <1>1, <2>1 DEF Own
<1>3. ASSUME NEW i \in DOMAIN logs
      PROVE  /\ T!Cardinality(T!Bodies(i)) = Number(evaluated[i], logs[i])
             /\ \A k \in T!Bodies(i) : BodyAs(after, evaluated[i], logs[i], results[k].body)
             /\ T!Event(i) = T!Parse(logs[i])
  <2>1. T!Bodies(i) = {k \in DOMAIN results : results[k].log = i}
    BY DEF T!Bodies
  <2>2. T!Cardinality(T!Bodies(i)) = Cardinality(T!Bodies(i))
    BY DEF T!Cardinality, Cardinality
  <2>3. T!Event(i) = T!Parse(logs[i])
    BY <1>1, EventIsParsed
  <2> QED
    BY <1>2, <2>1, <2>2, <2>3
<1>4. T!FailureKeepsBody
  BY <1>3 DEF T!FailureKeepsBody, Number, BodyAs
<1>5. T!SameKeepsBody
  BY <1>3 DEF T!SameKeepsBody, BodyAs
<1>6. T!ToJsonByStage
  BY <1>3 DEF T!ToJsonByStage, BodyAs
<1>7. T!OwnResults
  BY <1>2, <1>3 DEF T!OwnResults, Number
<1> QED
  BY <1>4, <1>5, <1>6, <1>7 DEF ResultsAreOwn, T!ResultsAreOwn

(* For any number of logs in any number of quotes: each log has as many    *)
(* results as its script made, in order, with the body the stage gives     *)
(* them, and its own body if the script fails.                             *)
THEOREM ResultsAreOwnHolds == T!Spec => []ResultsAreOwn
<1>1. T!Init => TransformInv
  BY TransformInit
<1>2. TransformInv /\ [T!Next]_(T!vars) => TransformInv'
  BY TransformNext
<1>3. TransformInv => ResultsAreOwn
  BY TransformKeeps
<1> QED
  BY <1>1, <1>2, <1>3, PTL DEF T!Spec
=============================================================================
