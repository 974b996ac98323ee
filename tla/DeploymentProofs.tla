-------------------------- MODULE DeploymentProofs --------------------------
(***************************************************************************)
(* Proofs about the deployment, modules BucketNotifications and StartUp.   *)
(* For every list of buckets and every bound: the custom resource keeps    *)
(* the notifications of other owners unless one of them writes between a   *)
(* read and the write that follows, and success of a creation means that   *)
(* every bucket of the list notifies the shipper.  For any configuration:  *)
(* what starts has its own credentials and nobody else's.                  *)
(***************************************************************************)
EXTENDS Deployment, TLAPS

-----------------------------------------------------------------------------
(* Module BucketNotifications. *)

Configurations == [mine : 0 .. 1, others : SUBSET Owners]

\* A configuration is held only while a bucket is in hand, and is, as far as
\* other owners are concerned, what they want unless one has just written.
HeldIsFresh ==
    got # <<>> =>
        /\ phase # "idle"
        /\ pos \in 1 .. Len(Buckets)
        /\ ~raced => got[1].others = kept[Bucket]

\* What the phases have done so far.
Progress ==
    /\ phase # "idle" => answer = "none" /\ request # "none" /\ ~topic
    /\ phase = "delete" => request # "Create"
    /\ permission = "added" => got # <<>> /\ Bucket \in permits
    /\ phase # "create" => permission = "kept"
    /\ phase = "create" =>
        /\ request # "Delete"
        /\ \A i \in 1 .. pos - 1 : config[Buckets[i]].mine = 1 /\ Buckets[i] \in permits

IInv == TypeOK /\ HeldIsFresh /\ Progress /\ OthersKept /\ CreatedEverywhere

USE DEF Configurations

-----------------------------------------------------------------------------
(* The list of buckets and the set of its elements.                        *)

\* The buckets of a list and their names.
LEMMA BucketsType ==
    /\ Len(Buckets) \in Nat
    /\ \A i \in 1 .. Len(Buckets) : Buckets[i] \in Names
    /\ \A b \in Names : \E i \in 1 .. Len(Buckets) : b = Buckets[i]
    /\ \A i, j \in 1 .. Len(Buckets) : Buckets[i] = Buckets[j] => i = j
    /\ MaxRequests \in Nat /\ MaxWrites \in Nat
BY ConstantsAssumption DEF Names

\* A held configuration has the shape of a configuration.
LEMMA HeldType ==
    ASSUME TypeOK, got # <<>>
    PROVE  got[1] \in Configurations /\ got = <<got[1]>>
BY DEF TypeOK

-----------------------------------------------------------------------------
(* The invariant holds initially and is kept by every step.                *)

\* The stack begins without notifications of the shipper.
LEMMA InitIInv == Init => IInv
<1> SUFFICES ASSUME Init PROVE IInv
    OBVIOUS
<1>1. TypeOK
    <2>1. config \in [Names -> Configurations]
        <3>1. ASSUME NEW b \in Names
              PROVE  [mine |-> 0, others |-> kept[b]] \in [mine : 0 .. 1, others : SUBSET Owners]
            <4>1. kept[b] \in SUBSET Owners
                BY DEF Init
            <4> QED
                BY <4>1
        <3>2. [b \in Names |-> [mine |-> 0, others |-> kept[b]]]
                  \in [Names -> [mine : 0 .. 1, others : SUBSET Owners]]
            BY <3>1, Zenon
        <3> QED
            BY <3>2, Zenon DEF Init
    <2>2. kept \in [Names -> SUBSET Owners] /\ permits \subseteq Names
        BY DEF Init
    <2>3. pos \in 1 .. Len(Buckets) + 1 /\ requests \in 0 .. MaxRequests /\ writes \in 0 .. MaxWrites
        BY BucketsType DEF Init
    <2> QED
        BY <2>1, <2>2, <2>3 DEF Init, TypeOK
<1>2. HeldIsFresh /\ Progress
    BY DEF Init, HeldIsFresh, Progress
<1>3. OthersKept /\ CreatedEverywhere
    BY DEF Init, OthersKept, CreatedEverywhere
<1> QED
    BY <1>1, <1>2, <1>3 DEF IInv

\* Each call keeps what is known of the configurations.
LEMMA NextIInv == IInv /\ [Next]_vars => IInv'
<1> SUFFICES ASSUME IInv, [Next]_vars PROVE IInv'
    OBVIOUS
<1> USE DEF IInv
<1>1. ASSUME NEW r \in {"Create", "Update", "Delete"}, Send(r) PROVE IInv'
    <2>1. TypeOK'
        <3>1. /\ requests' \in 0 .. MaxRequests /\ pos' \in 1 .. Len(Buckets) + 1
              /\ phase' \in {"delete", "create"}
            BY <1>1, BucketsType DEF Send, MaySend, FromStart, TypeOK
        <3>2. /\ request' \in {"none", "Create", "Update", "Delete"} /\ topic' \in BOOLEAN
              /\ answer' \in {"none", "SUCCESS", "FAILED"}
              /\ got' = <<>> /\ permission' = "kept"
              /\ UNCHANGED <<config, kept, permits, writes, raced>>
            BY <1>1 DEF Send, FromStart
        <3> QED
            BY <3>1, <3>2 DEF TypeOK
    <2>2. (HeldIsFresh /\ Progress)'
        BY <1>1 DEF Send, MaySend, FromStart, HeldIsFresh, Progress
    <2>3. (OthersKept /\ CreatedEverywhere)'
        BY <1>1 DEF Send, OthersKept, CreatedEverywhere
    <2> QED
        BY <2>1, <2>2, <2>3
<1>1b. ASSUME NEW r \in {"Create", "Update", "Delete"}, Skip(r) PROVE IInv'
    <2>1. TypeOK'
        BY <1>1b, BucketsType DEF Skip, MaySend, TypeOK
    <2>2. (HeldIsFresh /\ Progress)'
        BY <1>1b DEF Skip, MaySend, HeldIsFresh, Progress, Bucket
    <2>3. (OthersKept /\ CreatedEverywhere)'
        BY <1>1b DEF Skip, OthersKept, CreatedEverywhere
    <2> QED
        BY <2>1, <2>2, <2>3
<1>2. CASE Read
    <2>1. Bucket \in Names /\ pos \in 1 .. Len(Buckets)
        BY <1>2, BucketsType DEF Read, TypeOK, Bucket
    <2>2. TypeOK'
        BY <1>2, <2>1 DEF Read, TypeOK
    <2>3. HeldIsFresh'
        BY <1>2, <2>1 DEF Read, HeldIsFresh, OthersKept, Bucket
    <2>4. (Progress /\ OthersKept /\ CreatedEverywhere)'
        BY <1>2 DEF Read, Progress, OthersKept, CreatedEverywhere, Bucket
    <2> QED
        BY <2>2, <2>3, <2>4
<1>3. CASE ReturnEarly
    <2>1. TypeOK'
        BY <1>3, BucketsType DEF ReturnEarly, DeleteReturns, Respond, FromStart, TypeOK
    <2>2. (HeldIsFresh /\ Progress)'
        BY <1>3 DEF ReturnEarly, DeleteReturns, Respond, FromStart, HeldIsFresh, Progress
    <2>3. (OthersKept /\ CreatedEverywhere)'
        BY <1>3 DEF ReturnEarly, DeleteReturns, Respond, FromStart, OthersKept, CreatedEverywhere, Progress, TypeOK
    <2> QED
        BY <2>1, <2>2, <2>3
<1>4. CASE Remove
    <2>1. Bucket \in Names /\ pos \in 1 .. Len(Buckets)
        BY <1>4, BucketsType DEF Remove, HeldIsFresh, Bucket
    <2>2. got[1] \in Configurations
        BY <1>4, HeldType DEF Remove
    <2>3. TypeOK'
        BY <1>4, <2>1, <2>2, BucketsType DEF Remove, TypeOK
    <2>4. (HeldIsFresh /\ Progress)'
        BY <1>4 DEF Remove, HeldIsFresh, Progress
    <2>5. OthersKept'
        BY <1>4, <2>1 DEF Remove, HeldIsFresh, OthersKept, TypeOK
    <2>6. CreatedEverywhere'
        BY <1>4 DEF Remove, CreatedEverywhere
    <2> QED
        BY <2>3, <2>4, <2>5, <2>6
<1>5. CASE Permit
    <2>1. Bucket \in Names
        BY <1>5, BucketsType DEF Permit, AddsPermission, HeldIsFresh, Bucket
    <2>2. TypeOK'
        BY <1>5, <2>1 DEF Permit, TypeOK
    <2>3. (HeldIsFresh /\ Progress)'
        BY <1>5 DEF Permit, AddsPermission, HeldIsFresh, Progress, Bucket
    <2>4. (OthersKept /\ CreatedEverywhere)'
        BY <1>5 DEF Permit, OthersKept, CreatedEverywhere
    <2> QED
        BY <2>2, <2>3, <2>4
<1>5a. CASE RemovePermission
    <2>1. Bucket \in Names /\ pos \in 1 .. Len(Buckets)
        BY <1>5a, BucketsType DEF RemovePermission, HeldIsFresh, Bucket
    <2>2. permits' \subseteq permits /\ \A b \in permits : b # Bucket => b \in permits'
        BY <1>5a DEF RemovePermission
    <2>3. TypeOK'
        BY <1>5a, <2>1, <2>2 DEF RemovePermission, TypeOK
    <2>4. HeldIsFresh'
        BY <1>5a DEF RemovePermission, HeldIsFresh, Bucket
    <2>5. Progress'
        <3>1. ASSUME NEW i \in 1 .. pos - 1
              PROVE  config[Buckets[i]].mine = 1 /\ Buckets[i] \in permits'
            <4>1. Buckets[i] # Bucket
                BY <2>1, BucketsType DEF Bucket
            <4> QED
                BY <1>5a, <2>2, <4>1 DEF RemovePermission, Progress
        <3> QED
            BY <1>5a, <3>1 DEF RemovePermission, Progress
    <2>6. (OthersKept /\ CreatedEverywhere)'
        BY <1>5a DEF RemovePermission, OthersKept, CreatedEverywhere
    <2> QED
        BY <2>3, <2>4, <2>5, <2>6
<1>6. CASE PermitRefused
    <2>1. TypeOK'
        BY <1>6, BucketsType DEF PermitRefused, AddsPermission, Respond, FromStart, TypeOK
    <2>2. (HeldIsFresh /\ Progress)'
        BY <1>6 DEF PermitRefused, AddsPermission, Respond, FromStart, HeldIsFresh, Progress
    <2>3. (OthersKept /\ CreatedEverywhere)'
        BY <1>6 DEF PermitRefused, AddsPermission, Respond, FromStart, OthersKept, CreatedEverywhere
    <2> QED
        BY <2>1, <2>2, <2>3
<1>7. CASE Add
    <2>1. Bucket \in Names /\ pos \in 1 .. Len(Buckets)
        BY <1>7, BucketsType DEF Add, HeldIsFresh, Bucket
    <2>2. got[1] \in Configurations
        BY <1>7, HeldType DEF Add
    <2>3. TypeOK'
        BY <1>7, <2>1, <2>2, BucketsType DEF Add, TypeOK
    <2>4. HeldIsFresh'
        BY <1>7 DEF Add, HeldIsFresh
    <2>5. Progress'
        <3>1. ASSUME NEW i \in 1 .. pos' - 1
              PROVE  config'[Buckets[i]].mine = 1 /\ Buckets[i] \in permits'
            <4>1. i \in 1 .. pos - 1 \/ i = pos
                BY <1>7, <2>1 DEF Add
            <4>2. Buckets[i] \in Names
                BY <2>1, <4>1, BucketsType
            <4>3. CASE i = pos
                BY <1>7, <2>1, <4>3 DEF Add, TypeOK, Progress, Bucket
            <4>4. CASE i \in 1 .. pos - 1
                BY <1>7, <2>1, <4>2, <4>4 DEF Add, TypeOK, Progress
            <4> QED
                BY <4>1, <4>3, <4>4
        <3> QED
            BY <1>7, <3>1 DEF Add, Progress
    <2>6. OthersKept'
        BY <1>7, <2>1 DEF Add, HeldIsFresh, OthersKept, TypeOK
    <2>7. CreatedEverywhere'
        BY <1>7 DEF Add, CreatedEverywhere
    <2> QED
        BY <2>3, <2>4, <2>5, <2>6, <2>7
<1>8. CASE EndOfLoop
    <2>1. TypeOK'
        BY <1>8, BucketsType DEF EndOfLoop, DeleteReturns, Respond, FromStart, TypeOK
    <2>2. (HeldIsFresh /\ Progress)'
        BY <1>8 DEF EndOfLoop, DeleteReturns, Respond, FromStart, HeldIsFresh, Progress
    <2>3. OthersKept'
        BY <1>8 DEF EndOfLoop, OthersKept
    <2>4. CreatedEverywhere'
        <3>1. CASE phase = "delete"
            BY <1>8, <3>1 DEF EndOfLoop, DeleteReturns, Respond, FromStart, CreatedEverywhere, Progress, TypeOK
        <3>2. CASE phase = "create"
            <4>1. \A i \in 1 .. Len(Buckets) : i \in 1 .. pos - 1
                BY <1>8, BucketsType DEF EndOfLoop, TypeOK
            <4>2. \A b \in Names : config[b].mine = 1 /\ b \in permits
                BY <3>2, <4>1, BucketsType DEF Progress
            <4> QED
                BY <1>8, <4>2 DEF EndOfLoop, CreatedEverywhere
        <3> QED
            BY <1>8, <3>1, <3>2 DEF EndOfLoop, TypeOK
    <2> QED
        BY <2>1, <2>2, <2>3, <2>4
<1>9. CASE CallFails
    <2>1. TypeOK'
        BY <1>9, BucketsType DEF CallFails, Respond, FromStart, TypeOK
    <2>2. (HeldIsFresh /\ Progress)'
        BY <1>9 DEF CallFails, Respond, FromStart, HeldIsFresh, Progress
    <2>3. (OthersKept /\ CreatedEverywhere)'
        BY <1>9 DEF CallFails, Respond, FromStart, OthersKept, CreatedEverywhere
    <2> QED
        BY <2>1, <2>2, <2>3
<1>10. CASE Repeat
    <2>1. TypeOK'
        BY <1>10, BucketsType DEF Repeat, FromStart, TypeOK
    <2>2. (HeldIsFresh /\ Progress)'
        BY <1>10 DEF Repeat, FromStart, HeldIsFresh, Progress
    <2>3. (OthersKept /\ CreatedEverywhere)'
        BY <1>10 DEF Repeat, OthersKept, CreatedEverywhere
    <2> QED
        BY <2>1, <2>2, <2>3
<1>11. ASSUME NEW b \in Names, NEW owners \in SUBSET Owners, OtherWrites(b, owners)
       PROVE  IInv'
    <2>1. /\ config' \in [Names -> Configurations]
          /\ \A n \in Names : config'[n].mine = config[n].mine
          /\ \A n \in Names : n # b => config'[n] = config[n] /\ kept'[n] = kept[n]
          /\ config'[b].others = owners /\ kept'[b] = owners
          /\ kept' \in [Names -> SUBSET Owners]
        BY <1>11 DEF OtherWrites, TypeOK
    <2>2. TypeOK'
        BY <1>11, <2>1, BucketsType DEF OtherWrites, TypeOK
    <2>3. HeldIsFresh'
        <3> SUFFICES ASSUME got # <<>>
                     PROVE  /\ phase # "idle"
                            /\ pos \in 1 .. Len(Buckets)
                            /\ ~raced' => got[1].others = kept'[Bucket]
            BY <1>11 DEF OtherWrites, HeldIsFresh, Bucket
        <3>1. Bucket \in Names
            BY BucketsType DEF HeldIsFresh, Bucket
        <3> QED
            BY <1>11, <2>1, <3>1 DEF OtherWrites, HeldIsFresh
    <2>4. Progress'
        BY <1>11, <2>1, BucketsType DEF OtherWrites, Progress, TypeOK, Bucket
    <2>5. OthersKept'
        BY <1>11, <2>1 DEF OtherWrites, OthersKept
    <2>6. CreatedEverywhere'
        BY <1>11, <2>1 DEF OtherWrites, CreatedEverywhere
    <2> QED
        BY <2>2, <2>3, <2>4, <2>5, <2>6
<1>12. CASE UNCHANGED vars
    BY <1>12 DEF vars, TypeOK, HeldIsFresh, Bucket, Progress, OthersKept, CreatedEverywhere
<1> QED
    BY <1>1, <1>2, <1>3, <1>4, <1>5, <1>6, <1>7, <1>8, <1>9, <1>10, <1>11, <1>12,
       <1>1b, <1>5a DEF Next

\* The invariant of every behaviour.
LEMMA Invariant == Spec => []IInv
BY InitIInv, NextIInv, PTL DEF Spec

-----------------------------------------------------------------------------

\* Types: a bucket has at most one notification of the shipper, however often
\* requests fail and are repeated.
THEOREM TypeCorrect == Spec => []TypeOK
<1>1. IInv => TypeOK
    BY DEF IInv
<1> QED
    BY Invariant, <1>1, PTL

\* The notifications of other owners are lost only to a race with one of them.
THEOREM OthersAreKept == Spec => []OthersKept
<1>1. IInv => OthersKept
    BY DEF IInv
<1> QED
    BY Invariant, <1>1, PTL

\* Success of a creation or an update is the truth about every bucket.
THEOREM CreationIsComplete == Spec => []CreatedEverywhere
<1>1. IInv => CreatedEverywhere
    BY DEF IInv
<1> QED
    BY Invariant, <1>1, PTL

-----------------------------------------------------------------------------
(* Module StartUp. *)

Started == {"secret", "role", "build", "running"}

Spaced == {"blank", "padded key", "padded arn"}

(* Where telemetry goes is settled when the configuration is loaded; from  *)
(* then on only Coralogix has a key, and only a collector has headers.     *)
RouteByStep ==
  /\ step = "load" => route = S!NoRoute /\ headers = <<>> /\ ~ secrets
  /\ step = "headers" => route.to = "collector"
  /\ step \in Started \union {"headers"} =>
       IF route.to = "collector" THEN route.key = "unset" /\ ~ secrets
                                 ELSE route.key # "unset" /\ headers = <<>>
  /\ step \in {"role", "build", "running"} => route.key # "arn"
  /\ step \in Started /\ route.key \in Spaced =>
       env.TELEMETRY_MODE # "traces" /\ env.CORALOGIX_API_KEY = route.key

HeadersSoFar ==
  /\ \A i, j \in DOMAIN headers : headers[i] = headers[j] => i = j
  /\ step \in Started /\ route.to = "collector" => Len(headers) = Len(env.OTLP_HEADERS)

(* Nobody assumes a role before its turn. *)
IdentityByStep ==
  /\ step \in {"load", "headers", "secret", "role"} =>
       identity = [s \in S!Service |-> "lambda"]
  /\ step \in {"build", "running"} =>
       /\ identity["sqs"] = "lambda"
       /\ env.TELEMETRY_MODE = "logs" =>
            identity["s3"] = IF env.LAMBDA_ASSUME_ROLE THEN "role" ELSE "lambda"

StartInv == S!TypeOK /\ RouteByStep /\ HeadersSoFar /\ IdentityByStep

-----------------------------------------------------------------------------
(* The fields of the environment that the proof is about. *)
LEMMA EnvFields ==
  ASSUME S!ConstantsOK, NEW e \in S!Env
  PROVE  /\ Len(e.OTLP_HEADERS) \in 0 .. MaxHeaders
         /\ \A k \in 1 .. Len(e.OTLP_HEADERS) : e.OTLP_HEADERS[k] \in S!Header
         /\ e.CORALOGIX_API_KEY \in S!Key
         /\ e.LAMBDA_ASSUME_ROLE \in BOOLEAN
<1>1. e.OTLP_HEADERS \in UNION {[1 .. n -> S!Header] : n \in 0 .. MaxHeaders}
  BY DEF S!Env
<1>2. PICK n \in 0 .. MaxHeaders : e.OTLP_HEADERS \in [1 .. n -> S!Header]
  BY <1>1
<1>3. n \in Nat
  BY DEF S!ConstantsOK
<1>4. Len(e.OTLP_HEADERS) = n
  BY <1>2, <1>3
<1> QED
  BY <1>2, <1>4 DEF S!Env

\* A start begins with nothing read.
LEMMA StartInit == S!ConstantsOK /\ S!Init => StartInv
<1> SUFFICES ASSUME S!ConstantsOK, S!Init PROVE StartInv
  OBVIOUS
<1>1. headers = <<>> /\ Len(headers) = 0 /\ headers \in Seq({"a", "b"}) /\ MaxHeaders \in Nat
  BY DEF S!Init, S!ConstantsOK
<1>2. route \in S!Route
  BY DEF S!Init, S!NoRoute, S!Route, S!Key
<1>2a. identity \in [S!Service -> {"lambda", "role"}] /\ Len(headers) <= MaxHeaders
  BY <1>1 DEF S!Init
<1>3. S!TypeOK
  BY <1>1, <1>2, <1>2a DEF S!Init, S!TypeOK
<1> QED
  BY <1>1, <1>3 DEF S!Init, StartInv, RouteByStep, HeadersSoFar, IdentityByStep, Started

(* A failure keeps what holds of every step. *)
LEMMA FailureKeeps ==
  ASSUME StartInv, step' = "failed", UNCHANGED <<env, headers, identity>>,
         route' \in S!Route, secrets' \in BOOLEAN
  PROVE  StartInv'
BY DEF StartInv, S!TypeOK, RouteByStep, HeadersSoFar, IdentityByStep, Started

(* What loading a configuration leaves to the steps behind it. *)
LEMMA LoadedKeeps ==
  ASSUME S!ConstantsOK, StartInv, step = "load",
         NEW to \in {"coralogix", "collector"}, NEW key \in S!Key, NEW next,
         next = (IF to = "collector" THEN "headers" ELSE "secret"),
         (to = "collector") <=> (key = "unset"),
         key \in Spaced => env.TELEMETRY_MODE # "traces" /\ key = env.CORALOGIX_API_KEY,
         S!Loaded(to, key, next)
  PROVE  StartInv'
<1>1. /\ env \in S!Env /\ env' = env /\ identity' = identity
      /\ headers = <<>> /\ headers' = headers /\ ~ secrets /\ secrets' = secrets
      /\ step' = next
      /\ route' = [to |-> to, key |-> key]
  BY DEF S!Loaded, StartInv, RouteByStep, S!TypeOK
<1>2. /\ route' \in S!Route
      /\ to = "coralogix" => route'.to = "coralogix" /\ route'.key # "unset"
      /\ to = "collector" => route'.to = "collector" /\ route'.key = "unset"
  BY <1>1 DEF S!Route
<1>3. S!TypeOK'
  BY <1>1, <1>2 DEF StartInv, S!TypeOK
<1>4. RouteByStep' /\ HeadersSoFar'
  BY <1>1, <1>2 DEF StartInv, RouteByStep, HeadersSoFar, Started, Spaced
<1>5. IdentityByStep'
  BY <1>1 DEF StartInv, IdentityByStep
<1> QED
  BY <1>3, <1>4, <1>5 DEF StartInv

(* An accepted header has a name that none before it has. *)
LEMMA HeaderKeeps == S!ConstantsOK /\ StartInv /\ S!ParseHeader => StartInv'
<1> SUFFICES ASSUME S!ConstantsOK, StartInv, S!ParseHeader PROVE StartInv'
  OBVIOUS
<1> DEFINE header == env.OTLP_HEADERS[Len(headers) + 1]
           name == S!Lower(header)
<1>1. /\ step = "headers" /\ Len(headers) < Len(env.OTLP_HEADERS)
      /\ IF S!Accepts(header, headers)
           THEN /\ headers' = Append(headers, name)
                /\ UNCHANGED <<env, step, route, identity, secrets>>
           ELSE S!Fails
  BY DEF S!ParseHeader
<1>2. /\ env \in S!Env /\ headers \in Seq({"a", "b"}) /\ Len(headers) \in Nat
      /\ DOMAIN headers = 1 .. Len(headers) /\ Len(env.OTLP_HEADERS) \in 0 .. MaxHeaders
      /\ MaxHeaders \in Nat
  BY EnvFields DEF StartInv, S!TypeOK, S!ConstantsOK
<1>3. CASE ~ S!Accepts(header, headers)
  <2>1. S!Fails
    BY <1>1, <1>3
  <2> QED
    BY <2>1, FailureKeeps DEF S!Fails, StartInv, S!TypeOK
<1>4. CASE S!Accepts(header, headers)
  <2>1. headers' = Append(headers, name) /\ UNCHANGED <<env, step, route, identity, secrets>>
    BY <1>1, <1>4
  <2>2. header \in S!Header
    <3>1. Len(headers) + 1 \in 1 .. Len(env.OTLP_HEADERS)
      BY <1>1, <1>2
    <3> QED
      BY <1>2, <3>1, EnvFields
  <2>3. name \in {"a", "b"} /\ \A k \in 1 .. Len(headers) : headers[k] # name
    <3>1. header \in {"a", "A", "b"}
      BY <1>4, <2>2 DEF S!Accepts, S!Header
    <3> QED
      BY <1>2, <1>4, <3>1 DEF S!Accepts, S!Lower
  <2> HIDE DEF name, header
  <2>4. /\ headers' \in Seq({"a", "b"}) /\ Len(headers') = Len(headers) + 1
        /\ DOMAIN headers' = 1 .. Len(headers) + 1
        /\ \A k \in 1 .. Len(headers) : headers'[k] = headers[k]
        /\ headers'[Len(headers) + 1] = name
    BY <1>2, <2>1, <2>3
  <2>5. Len(headers') <= MaxHeaders
    BY <1>1, <1>2, <2>4
  <2>6. S!TypeOK'
    BY <2>1, <2>4, <2>5 DEF StartInv, S!TypeOK
  <2>7. \A p, q \in DOMAIN headers' : headers'[p] = headers'[q] => p = q
    <3> SUFFICES ASSUME NEW p \in 1 .. Len(headers) + 1, NEW q \in 1 .. Len(headers) + 1,
                        headers'[p] = headers'[q]
                 PROVE  p = q
      BY <2>4
    <3>1. CASE p <= Len(headers) /\ q <= Len(headers)
      <4>1. p \in DOMAIN headers /\ q \in DOMAIN headers /\ headers[p] = headers[q]
        BY <1>2, <2>4, <3>1
      <4> QED
        BY <4>1 DEF StartInv, HeadersSoFar
    <3>2. CASE p <= Len(headers) /\ q = Len(headers) + 1
      BY <1>2, <2>3, <2>4, <3>2
    <3>3. CASE q <= Len(headers) /\ p = Len(headers) + 1
      BY <1>2, <2>3, <2>4, <3>3
    <3> QED
      BY <1>2, <3>1, <3>2, <3>3
  <2>8. HeadersSoFar' /\ RouteByStep' /\ IdentityByStep'
    BY <1>1, <2>1, <2>7 DEF StartInv, HeadersSoFar, RouteByStep, IdentityByStep, Started
  <2> QED
    BY <2>6, <2>8 DEF StartInv
<1> QED
  BY <1>3, <1>4

\* Each stage keeps what the stages before it have read.
LEMMA StartNext == S!ConstantsOK /\ StartInv /\ [S!Next]_S!vars => StartInv'
<1> SUFFICES ASSUME S!ConstantsOK, StartInv, [S!Next]_S!vars PROVE StartInv'
  OBVIOUS
<1>t. S!TypeOK /\ route \in S!Route /\ secrets \in BOOLEAN /\ env \in S!Env
  BY DEF StartInv, S!TypeOK
<1>f. S!Fails => StartInv'
  BY <1>t, FailureKeeps DEF S!Fails
<1>k. S!RawKey \in S!Key /\ S!RawKey = env.CORALOGIX_API_KEY /\ "unset" \in S!Key
  BY <1>t, EnvFields DEF S!RawKey, S!Key
<1>1. CASE S!LoadLogs
  <2>1. step = "load" /\ env.TELEMETRY_MODE # "traces"
    BY <1>1 DEF S!LoadLogs
  <2>2. CASE S!Loaded("collector", "unset", "headers")
    BY <1>k, <2>1, <2>2, LoadedKeeps DEF Spaced
  <2>3. CASE S!RawKey # "unset" /\ S!Loaded("coralogix", S!RawKey, "secret")
    BY <1>k, <2>1, <2>3, LoadedKeeps
  <2> QED
    BY <1>1, <1>f, <2>2, <2>3 DEF S!LoadLogs
<1>2. CASE S!LoadMetrics
  <2>1. step = "load" /\ env.TELEMETRY_MODE # "traces"
    BY <1>2 DEF S!LoadMetrics
  <2>2. CASE S!RawKey # "unset" /\ S!Loaded("coralogix", S!RawKey, "secret")
    BY <1>k, <2>1, <2>2, LoadedKeeps
  <2> QED
    BY <1>2, <1>f, <2>2 DEF S!LoadMetrics
<1>3. CASE S!LoadTraces
  <2> DEFINE key == S!Trimmed(env.CORALOGIX_API_KEY)
  <2>1. step = "load"
    BY <1>3 DEF S!LoadTraces
  <2>2. key \in S!Key /\ key \notin Spaced
    BY <1>t, EnvFields DEF S!Trimmed, S!Key, Spaced
  <2>3. CASE S!Loaded("collector", "unset", "headers")
    BY <1>k, <2>1, <2>3, LoadedKeeps DEF Spaced
  <2>4. CASE key # "unset" /\ S!Loaded("coralogix", key, "secret")
    <3> HIDE DEF key
    <3> QED
      BY <2>1, <2>2, <2>4, LoadedKeeps
  <2> QED
    BY <1>3, <1>f, <2>3, <2>4 DEF S!LoadTraces
<1>4. CASE S!ParseHeader
  BY <1>4, HeaderKeeps
<1>5. CASE S!HeadersParsed
  <2>1. /\ step = "headers" /\ step' = "secret" /\ Len(headers) = Len(env.OTLP_HEADERS)
        /\ UNCHANGED <<env, route, headers, identity, secrets>>
    BY <1>5 DEF S!HeadersParsed
  <2>2. S!TypeOK'
    BY <2>1 DEF StartInv, S!TypeOK
  <2>3. RouteByStep'
    BY <2>1 DEF StartInv, RouteByStep, Started, Spaced
  <2>4. HeadersSoFar' /\ IdentityByStep'
    BY <2>1 DEF StartInv, HeadersSoFar, IdentityByStep, Started
  <2> QED
    BY <2>2, <2>3, <2>4 DEF StartInv
<1>6. CASE S!ResolveKey
  <2>1. step = "secret" /\ UNCHANGED <<env, headers, identity>>
    BY <1>6 DEF S!ResolveKey
  <2>2. CASE step' = "failed"
    BY <1>6, <1>t, <2>1, <2>2, FailureKeeps DEF S!ResolveKey
  <2>3. CASE /\ route.key = "arn" /\ secrets' = TRUE /\ step' = "role"
             /\ route' = [route EXCEPT !.key = "secret"]
    <3>1. route'.key = "secret" /\ route'.to = route.to /\ route' \in S!Route
      BY <1>t, <2>3 DEF S!Route
    <3>2. route.to # "collector"
      BY <2>1, <2>3 DEF StartInv, RouteByStep, Started
    <3>3. S!TypeOK'
      BY <2>1, <2>3, <3>1 DEF StartInv, S!TypeOK
    <3>4. RouteByStep'
      BY <2>1, <2>3, <3>1, <3>2 DEF StartInv, RouteByStep, Started, Spaced
    <3>5. HeadersSoFar' /\ IdentityByStep'
      BY <2>1, <2>3, <3>1, <3>2 DEF StartInv, HeadersSoFar, IdentityByStep, Started
    <3> QED
      BY <3>3, <3>4, <3>5 DEF StartInv
  <2>4. CASE route.key # "arn" /\ step' = "role" /\ UNCHANGED <<route, secrets>>
    <3>1. S!TypeOK'
      BY <2>1, <2>4 DEF StartInv, S!TypeOK
    <3> QED
      BY <2>1, <2>4, <3>1 DEF StartInv, RouteByStep, HeadersSoFar, IdentityByStep, Started
  <2> QED
    BY <1>6, <2>2, <2>3, <2>4 DEF S!ResolveKey
<1>7. CASE S!AssumeRole
  <2>1. step = "role" /\ UNCHANGED <<env, route, headers, secrets>>
    BY <1>7 DEF S!AssumeRole
  <2>2. CASE step' = "failed" /\ UNCHANGED identity
    BY <1>t, <2>1, <2>2, FailureKeeps
  <2>3. CASE /\ step' = "build"
             /\ IF env.TELEMETRY_MODE = "logs" /\ env.LAMBDA_ASSUME_ROLE
                  THEN identity' = S!Assumed ELSE identity' = identity
    <3>1. identity = [s \in S!Service |-> "lambda"]
      BY <2>1 DEF StartInv, IdentityByStep
    <3>2. identity' \in [S!Service -> {"lambda", "role"}] /\ IdentityByStep'
      BY <2>1, <2>3, <3>1 DEF IdentityByStep, S!Assumed, S!Service
    <3>3. S!TypeOK'
      BY <2>1, <2>3, <3>2 DEF StartInv, S!TypeOK
    <3> QED
      BY <2>1, <2>3, <3>2, <3>3 DEF StartInv, RouteByStep, HeadersSoFar, Started
  <2> QED
    BY <1>7, <2>2, <2>3 DEF S!AssumeRole
<1>8. CASE S!Build
  <2>1. step = "build" /\ step' \in {"running", "failed"}
        /\ UNCHANGED <<env, route, headers, identity, secrets>>
    BY <1>8 DEF S!Build
  <2>2. S!TypeOK'
    BY <2>1 DEF StartInv, S!TypeOK
  <2> QED
    BY <2>1, <2>2 DEF StartInv, RouteByStep, HeadersSoFar, IdentityByStep, Started
<1>9. CASE UNCHANGED S!vars
  <2>1. S!TypeOK'
    BY <1>9 DEF StartInv, S!TypeOK, S!vars
  <2> QED
    BY <1>9, <2>1 DEF S!vars, StartInv, RouteByStep, HeadersSoFar, IdentityByStep, Started
<1> QED
  BY <1>1, <1>2, <1>3, <1>4, <1>5, <1>6, <1>7, <1>8, <1>9 DEF S!Next

\* The invariant is what the property asks for.
LEMMA StartSound == ASSUME StartInv PROVE S!StartIsSound
<1>1. /\ S!TypeOK /\ RouteByStep /\ HeadersSoFar /\ IdentityByStep
      /\ route.key \in S!Key \union {"secret"}
  BY DEF StartInv, S!TypeOK, S!Route
<1>2. S!CredentialsByRoute /\ S!ArnIsNoKey
  BY <1>1 DEF RouteByStep, Started, Spaced, S!Key, S!CredentialsByRoute, S!ArnIsNoKey
<1>3. S!HeadersDiffer /\ S!QueueIsOwn
  BY <1>1 DEF HeadersSoFar, IdentityByStep, Started, S!HeadersDiffer, S!QueueIsOwn
<1> QED
  BY <1>1, <1>2, <1>3 DEF S!StartIsSound

(* For any number of headers: whatever starts has a key only for Coralogix *)
(* and headers only for a collector, never an ARN for a key but a padded   *)
(* one outside traces, no header twice, the role for the data and the      *)
(* Lambda's own permissions for the queue.                                 *)
THEOREM StartIsSoundHolds == S!Spec => []StartIsSound
<1>1. S!Init => StartInv
  BY StartAssumption, StartInit
<1>2. StartInv /\ [S!Next]_S!vars => StartInv'
  BY StartAssumption, StartNext
<1>3. StartInv => StartIsSound
  BY StartAssumption, StartSound DEF StartIsSound
<1> QED
  BY <1>1, <1>2, <1>3, PTL DEF S!Spec
=============================================================================
