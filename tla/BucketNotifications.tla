------------------------ MODULE BucketNotifications ------------------------
(***************************************************************************)
(* ConfigureS3Integration of the custom resource: on stack creation,       *)
(* update and deletion the shipper's notification is added to or removed   *)
(* from each bucket of a list.  S3 keeps one notification configuration    *)
(* per bucket, which is read, changed and written back as a whole; other   *)
(* owners keep their notifications in it too.  Each call to AWS is a step  *)
(* and may fail; an invocation may stop at any point and be repeated.      *)
(***************************************************************************)
EXTENDS Naturals, Sequences

CONSTANTS Buckets,      \* sequence of the buckets in S3BucketName
          MaxRequests,  \* invocations of the custom resource
          MaxWrites     \* writes of other owners while it runs

ASSUME ConstantsAssumption ==
    /\ Buckets \in Seq(STRING)
    /\ \A i, j \in 1 .. Len(Buckets) : Buckets[i] = Buckets[j] => i = j
    /\ {MaxRequests, MaxWrites} \subseteq Nat

Names == {Buckets[i] : i \in 1 .. Len(Buckets)}

\* A bucket's configuration: how many notifications of the shipper, and the
\* owners of others: a function, a topic or queue, the event bridge.
Owners == {"function", "topic", "bridge"}
Nothing == [mine |-> 0, others |-> {}]
Lambdas(c) == c.mine + (IF "function" \in c.others THEN 1 ELSE 0)

VARIABLES config,   \* the configuration of every bucket, as S3 has it
          kept,     \* the notifications of the other owners, as they want them
          permits,  \* buckets that may invoke the shipper, as Lambda has it
          request,  \* "none", "Create", "Update" or "Delete"
          phase,    \* "idle", "delete" or "create"
          pos,      \* the bucket in hand
          got,      \* the configuration read, in a sequence of length 0 or 1
          permission, \* of the bucket in hand: "kept" so far, "removed" or "added"
          topic,    \* the last request was for a topic or queue in the buckets' place
          answer,   \* of the last request: "none", "SUCCESS" or "FAILED"
          requests, \* invocations so far
          writes,   \* writes of other owners so far
          raced     \* one of them came between a read and its write

vars == <<config, kept, permits, request, phase, pos, got,
          permission, topic, answer, requests, writes, raced>>

Bucket == Buckets[pos]

TypeOK ==
    /\ config \in [Names -> [mine : 0 .. 1, others : SUBSET Owners]]
    /\ kept \in [Names -> SUBSET Owners]
    /\ permits \subseteq Names
    /\ request \in {"none", "Create", "Update", "Delete"}
    /\ phase \in {"idle", "delete", "create"}
    /\ pos \in 1 .. Len(Buckets) + 1
    /\ got \in {<<>>} \cup {<<c>> : c \in [mine : 0 .. 1, others : SUBSET Owners]}
    /\ permission \in {"kept", "removed", "added"}
    /\ topic \in BOOLEAN
    /\ answer \in {"none", "SUCCESS", "FAILED"}
    /\ requests \in 0 .. MaxRequests
    /\ writes \in 0 .. MaxWrites
    /\ raced \in BOOLEAN

Init ==
    /\ kept \in [Names -> SUBSET Owners]
    /\ config = [b \in Names |-> [mine |-> 0, others |-> kept[b]]]
    /\ permits = {}
    /\ request = "none" /\ phase = "idle"
    /\ pos = 1 /\ got = <<>> /\ permission = "kept" /\ topic = FALSE
    /\ answer = "none"
    /\ requests = 0 /\ writes = 0 /\ raced = FALSE

\* What comes next from CloudFormation: a stack begins with Create, and is
\* deleted with the parameters it has.
MaySend(r, t) ==
    /\ phase = "idle" /\ requests < MaxRequests
    /\ request = "none" => r = "Create"
    /\ request = "Delete" => answer # "SUCCESS"
    /\ r = "Delete" => t = topic

\* A run of create() or delete() begins with the first bucket.
FromStart == pos' = 1 /\ got' = <<>> /\ permission' = "kept"

Send(r) ==
    /\ MaySend(r, FALSE)
    /\ request' = r /\ topic' = FALSE
    /\ phase' = IF r = "Create" THEN "create" ELSE "delete"
    /\ FromStart
    /\ answer' = "none"
    /\ requests' = requests + 1
    /\ UNCHANGED <<config, kept, permits, writes, raced>>

\* handle(): with a topic or queue no bucket is touched, not even one that
\* an earlier request has wired.
Skip(r) ==
    /\ MaySend(r, TRUE)
    /\ request' = r /\ topic' = TRUE
    /\ answer' = "SUCCESS"
    /\ requests' = requests + 1
    /\ UNCHANGED <<config, kept, permits, phase, pos, got, permission, writes, raced>>

\* CFNResponse.send
Respond(status) == answer' = status /\ phase' = "idle" /\ FromStart

\* An update deletes and then creates; otherwise the request is done.
DeleteReturns ==
    IF request = "Update"
      THEN phase' = "create" /\ FromStart /\ answer' = answer
      ELSE Respond("SUCCESS")

\* get_bucket_notification_configuration
Read ==
    /\ phase # "idle" /\ got = <<>> /\ pos <= Len(Buckets)
    /\ got' = <<config[Bucket]>>
    /\ UNCHANGED <<config, kept, permits, request, phase, pos, permission, topic, answer,
                   requests, writes, raced>>

\* delete(): a bucket without any function's notification ends the loop.
ReturnEarly ==
    /\ phase = "delete" /\ got # <<>>
    /\ Lambdas(got[1]) = 0
    /\ DeleteReturns
    /\ UNCHANGED <<config, kept, permits, request, topic, requests, writes, raced>>

\* Variant: the event bridge is not carried over.
RemoveBridge ==
    /\ phase = "delete" /\ got # <<>>
    /\ Lambdas(got[1]) > 0
    /\ config' = [config EXCEPT ![Bucket] = [mine |-> 0, others |-> got[1].others \ {"bridge"}]]
    /\ pos' = pos + 1 /\ got' = <<>>
    /\ UNCHANGED <<kept, permits, request, phase, permission, topic, answer, requests, writes,
                   raced>>

\* delete(): the configuration is written without the shipper's part.
Remove ==
    /\ phase = "delete" /\ got # <<>>
    /\ Lambdas(got[1]) > 0
    /\ config' = [config EXCEPT ![Bucket] = [mine |-> 0, others |-> got[1].others]]
    /\ pos' = pos + 1 /\ got' = <<>>
    /\ UNCHANGED <<kept, permits, request, phase, permission, topic, answer, requests, writes,
                   raced>>

\* handle_lambda_permissions: an update removes the permission first; a
\* failure to is ignored.
RemovePermission ==
    /\ phase = "create" /\ got # <<>>
    /\ request = "Update" /\ permission = "kept"
    /\ permission' = "removed"
    /\ permits' \in {permits \ {Bucket}, permits}
    /\ UNCHANGED <<config, kept, request, phase, pos, got, topic, answer, requests, writes, raced>>

\* add_permission; Lambda refuses it when there is one with this statement id.
AddsPermission ==
    /\ phase = "create" /\ got # <<>>
    /\ permission = IF request = "Update" THEN "removed" ELSE "kept"

Permit ==
    /\ AddsPermission /\ Bucket \notin permits
    /\ permits' = permits \cup {Bucket}
    /\ permission' = "added"
    /\ UNCHANGED <<config, kept, request, phase, pos, got, topic, answer, requests, writes, raced>>

PermitRefused ==
    /\ AddsPermission /\ Bucket \in permits
    /\ Respond("FAILED")
    /\ UNCHANGED <<config, kept, permits, request, topic, requests, writes, raced>>

\* Variant: the configuration is written though the permission was not added.
AddAnyway ==
    /\ phase = "create" /\ got # <<>> /\ permission # "kept"
    /\ config' = [config EXCEPT ![Bucket] = [mine |-> 1, others |-> got[1].others]]
    /\ pos' = pos + 1 /\ got' = <<>> /\ permission' = "kept"
    /\ UNCHANGED <<kept, permits, request, phase, topic, answer, requests, writes, raced>>

\* create(): the configuration is written with one entry of the shipper.
Add ==
    /\ phase = "create" /\ got # <<>> /\ permission = "added"
    /\ config' = [config EXCEPT ![Bucket] = [mine |-> 1, others |-> got[1].others]]
    /\ pos' = pos + 1 /\ got' = <<>> /\ permission' = "kept"
    /\ UNCHANGED <<kept, permits, request, phase, topic, answer, requests, writes, raced>>

EndOfLoop ==
    /\ phase # "idle" /\ pos > Len(Buckets)
    /\ IF phase = "delete" THEN DeleteReturns ELSE Respond("SUCCESS")
    /\ UNCHANGED <<config, kept, permits, request, topic, requests, writes, raced>>

\* Variant: a failure of an update's deletion does not end it.
CallFailsForgotten ==
    /\ phase # "idle"
    /\ IF phase = "delete" THEN DeleteReturns ELSE Respond("SUCCESS")
    /\ UNCHANGED <<config, kept, permits, request, topic, requests, writes, raced>>

\* A call to AWS fails: handle_exceptions turns it into a failed request.
CallFails ==
    /\ phase # "idle"
    /\ Respond("FAILED")
    /\ UNCHANGED <<config, kept, permits, request, topic, requests, writes, raced>>

\* The invocation times out; the same request is invoked again.
Repeat ==
    /\ phase # "idle" /\ requests < MaxRequests
    /\ phase' = IF request = "Create" THEN "create" ELSE "delete"
    /\ FromStart
    /\ requests' = requests + 1
    /\ UNCHANGED <<config, kept, permits, request, topic, answer, writes, raced>>

\* Another owner changes its notifications of a bucket.
OtherWrites(b, owners) ==
    /\ writes < MaxWrites
    /\ kept' = [kept EXCEPT ![b] = owners]
    /\ config' = [config EXCEPT ![b] = [mine |-> config[b].mine, others |-> owners]]
    /\ writes' = writes + 1
    /\ raced' = (raced \/ (got # <<>> /\ b = Bucket))
    /\ UNCHANGED <<permits, request, phase, pos, got, permission, topic, answer, requests>>

Next ==
    \/ \E r \in {"Create", "Update", "Delete"} : Send(r) \/ Skip(r)
    \/ Read \/ ReturnEarly \/ Remove
    \/ RemovePermission \/ Permit \/ PermitRefused \/ Add
    \/ EndOfLoop \/ CallFails \/ Repeat
    \/ \E b \in Names, owners \in SUBSET Owners : OtherWrites(b, owners)

Spec == Init /\ [][Next]_vars

-----------------------------------------------------------------------------
(* Properties                                                              *)

\* The notifications of other owners of a bucket are what those owners
\* configured, whatever the resource is asked to do, wherever it fails and
\* however often a request is repeated: they can be lost only by a change
\* that falls between the resource's read and its write.
OthersKept == ~raced => \A b \in Names : config[b].others = kept[b]

\* A creation or update of the buckets that CloudFormation is told has worked
\* has left the shipper's notification, and the permission to act on it, on
\* every bucket.
CreatedEverywhere ==
    (answer = "SUCCESS" /\ phase = "idle" /\ request # "Delete" /\ ~topic) =>
        \A b \in Names : config[b].mine = 1 /\ b \in permits

\* A deletion of the buckets' wiring that CloudFormation is told has worked has left no
\* notification of the shipper on a bucket.
RemovedEverywhere ==
    (answer = "SUCCESS" /\ phase = "idle" /\ request = "Delete" /\ ~topic) =>
        \A b \in Names : config[b].mine = 0
=============================================================================
