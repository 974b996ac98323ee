----------------------------- MODULE LogsProofs -----------------------------
(***************************************************************************)
(* Proofs about the logs mode, modules TagCache, RecordMetadata,           *)
(* LogEnvelope, EcrScan, EventDispatch and S3Object: for every set of log  *)
(* groups, every TTL, zero too, and every longest invocation, what the tag *)
(* cache serves is recent; for any number of records and of logs a script  *)
(* makes of one, a log keeps its place and the metadata of its time; for   *)
(* any fields of a log and any custom keys, its envelope loses nothing of  *)
(* it; for any findings of an image, its report is complete and each       *)
(* finding has its own package; for any object names and any queue event,  *)
(* each event is passed to its own processing, under the object's own      *)
(* name; for any text of an object, what is shipped is its data, in order, *)
(* sampled as configured, wherever an archive breaks off.                  *)
(***************************************************************************)
EXTENDS LogsMode, DataFacts

-----------------------------------------------------------------------------
(* Module TagCache. An entry is stored some time after its tags were read, *)
(* and used some time after that; the inductive invariant bounds the first *)
(* by the longest invocation and ties the history of fetches to the cache. *)

(* An entry holds the tags of its own group, stored within one invocation. *)
Entries ==
  \A g \in DOMAIN cache :
    /\ cache[g].tags.group = g
    /\ cache[g].tags.read <= cache[g].at
    /\ cache[g].at <= cache[g].tags.read + MaxRun
    /\ Ttl > 0
    /\ g \in DOMAIN fetched /\ fetched[g] = cache[g].at

(* The invocation in progress. *)
Invocation ==
  /\ step # "idle" => now <= started + MaxRun
  /\ step = "answered" => started <= read
  /\ step \in {"look", "fetch", "answered"} => tags = NoTags
  /\ step \in {"fetch", "answered"} /\ Ttl > 0 => group \notin DOMAIN cache

(* A fetch of the past TTL is still in the cache, unless it is asked for   *)
(* again because it has expired.                                           *)
Remembered ==
  \A g \in DOMAIN fetched :
    \/ g \in DOMAIN cache
    \/ now >= fetched[g] + Ttl

IInv == TypeOK /\ Entries /\ Invocation /\ Remembered /\ TagsAreRecent /\ FailureIsRetried

-----------------------------------------------------------------------------
\* The times are naturals.
LEMMA Constants == Ttl \in Nat /\ MaxRun \in Nat /\ MaxTime \in Nat
BY ConstantsAssumption

(* Removing an entry. *)
LEMMA WithoutEffect ==
  ASSUME NEW f, NEW g
  PROVE  /\ DOMAIN Without(f, g) = DOMAIN f \ {g}
         /\ \A h \in DOMAIN f \ {g} : Without(f, g)[h] = f[h]
BY DEF Without, Restrict

-----------------------------------------------------------------------------
\* The cache of tags begins empty.
LEMMA InitIInv == Init => IInv
<1> SUFFICES ASSUME Init PROVE IInv
  OBVIOUS
<1>1. TypeOK
  <2>1. /\ now \in Time /\ started \in 0 .. now /\ read \in 0 .. now
        /\ tags \in Tags \union {NoTags}
        /\ group \in LogGroup /\ failed \subseteq LogGroup
    BY Constants DEF Init, Time
  <2>2. DOMAIN cache = {} /\ DOMAIN fetched = {}
    BY DEF Init, Nothing
  <2> QED
    BY <2>1, <2>2 DEF Init, TypeOK
<1>2. Entries /\ Invocation /\ Remembered
  BY DEF Init, Entries, Invocation, Remembered, Nothing
<1>3. TagsAreRecent /\ FailureIsRetried
  BY DEF Init, TagsAreRecent, FailureIsRetried
<1> QED
  BY <1>1, <1>2, <1>3 DEF IInv

\* Every step keeps what is known of the cache and the lookup.
LEMMA NextIInv == IInv /\ [Next]_vars => IInv'
<1> SUFFICES ASSUME IInv, [Next]_vars PROVE IInv'
  OBVIOUS
<1> USE DEF IInv
<1>1. CASE Invoke
  <2>1. TypeOK'
    BY <1>1, Constants DEF Invoke, TypeOK, Time
  <2>2. (Entries /\ Invocation /\ Remembered)'
    BY <1>1, Constants DEF Invoke, Entries, Invocation, Remembered, TypeOK, Time
  <2>3. (TagsAreRecent /\ FailureIsRetried)'
    BY <1>1 DEF Invoke, TagsAreRecent, FailureIsRetried
  <2> QED
    BY <2>1, <2>2, <2>3
<1>2. CASE Hit
  <2>1. /\ cache[group].tags \in Tags /\ cache[group].at \in 0 .. now
        /\ cache[group].tags.group = group
        /\ cache[group].at <= cache[group].tags.read + MaxRun
        /\ now < cache[group].at + Ttl
    BY <1>2, Constants DEF Hit, Expired, Entries, TypeOK, Time
  <2>2. TypeOK'
    BY <1>2, <2>1 DEF Hit, TypeOK
  <2>3. (Entries /\ Invocation /\ Remembered /\ FailureIsRetried)'
    BY <1>2 DEF Hit, Entries, Invocation, Remembered, FailureIsRetried
  <2>4. TagsAreRecent'
    BY <1>2, <2>1, Constants DEF Hit, TagsAreRecent, TypeOK, Tags, Time
  <2> QED
    BY <2>2, <2>3, <2>4
<1>3. CASE Ask
  <2>1. /\ DOMAIN cache' \subseteq DOMAIN cache
        /\ \A g \in DOMAIN cache' : cache'[g] = cache[g]
        /\ \A g \in DOMAIN cache \ {group} : g \in DOMAIN cache'
        /\ Ttl > 0 => group \notin DOMAIN cache'
    BY <1>3, WithoutEffect DEF Ask
  <2>2. TypeOK'
    BY <1>3, <2>1 DEF Ask, TypeOK
  <2>3. (Entries /\ FailureIsRetried)'
    BY <1>3, <2>1 DEF Ask, Entries, FailureIsRetried
  <2>4. (Invocation /\ TagsAreRecent)'
    BY <1>3, <2>1 DEF Ask, Invocation, TagsAreRecent
  <2>5. Remembered'
    <3>1. group \in DOMAIN cache => now >= fetched[group] + Ttl
      BY <1>3, Constants DEF Ask, Expired, Entries, TypeOK, Time
    <3> QED
      BY <1>3, <2>1, <3>1 DEF Ask, Remembered
  <2> QED
    BY <2>2, <2>3, <2>4, <2>5
<1>4. CASE Read
  <2>1. TypeOK'
    BY <1>4 DEF Read, TypeOK, Time
  <2>2. (Entries /\ Invocation /\ Remembered /\ TagsAreRecent /\ FailureIsRetried)'
    BY <1>4 DEF Read, Entries, Invocation, Remembered, TagsAreRecent, FailureIsRetried, TypeOK
  <2> QED
    BY <2>1, <2>2
<1>5. CASE Fetched
  <2>1. PICK new \in [group : {group}, read : {read}, empty : BOOLEAN] :
          tags' = new /\ cache' = Stores(new)
    BY <1>5 DEF Fetched
  <2>2. new \in Tags /\ new.group = group /\ new.read = read
    <3>1. group \in LogGroup /\ read \in Time
      BY Constants DEF TypeOK, Time
    <3>2. new.group = group /\ new.read = read /\ new.empty \in BOOLEAN
          /\ new = [group |-> new.group, read |-> new.read, empty |-> new.empty]
      OBVIOUS
    <3> QED
      BY <3>1, <3>2 DEF Tags
  <2>3. /\ DOMAIN fetched' = DOMAIN fetched \union {group}
        /\ fetched'[group] = now
        /\ \A g \in DOMAIN fetched \ {group} : fetched'[g] = fetched[g]
    <3>1. fetched' = With(fetched, group, now)
      BY <1>5 DEF Fetched
    <3> QED
      BY <3>1 DEF With
  <2>4. /\ DOMAIN cache' = IF Ttl > 0 THEN DOMAIN cache \union {group} ELSE DOMAIN cache
        /\ Ttl > 0 => cache'[group] = [tags |-> new, at |-> now]
        /\ \A g \in DOMAIN cache \ {group} : cache'[g] = cache[g]
        /\ ~ (Ttl > 0) => cache' = cache
    <3>1. cache' = IF Ttl > 0 THEN With(cache, group, [tags |-> new, at |-> now]) ELSE cache
      BY <2>1 DEF Stores
    <3> QED
      BY <3>1 DEF With
  <2>5. read <= now /\ now <= read + MaxRun
    BY <1>5, Constants DEF Fetched, Invocation, TypeOK, Time
  <2>6. TypeOK'
    <3>1. \A g \in DOMAIN cache' : cache'[g] \in [tags : Tags, at : 0 .. now]
      BY <2>2, <2>4 DEF TypeOK, Time
    <3>2. \A g \in DOMAIN fetched' : fetched'[g] \in 0 .. now
      BY <2>3 DEF TypeOK, Time
    <3> QED
      BY <1>5, <2>1, <2>2, <2>3, <2>4, <3>1, <3>2 DEF Fetched, TypeOK
  <2>7. Entries'
    <3> SUFFICES ASSUME NEW g \in DOMAIN cache'
                 PROVE  /\ cache'[g].tags.group = g
                        /\ cache'[g].tags.read <= cache'[g].at
                        /\ cache'[g].at <= cache'[g].tags.read + MaxRun
                        /\ Ttl > 0
                        /\ g \in DOMAIN fetched' /\ fetched'[g] = cache'[g].at
      BY DEF Entries
    <3>1. CASE g = group /\ Ttl > 0
      BY <2>2, <2>3, <2>4, <2>5, <3>1
    <3>2. CASE ~ (g = group /\ Ttl > 0)
      BY <2>3, <2>4, <3>2 DEF Entries
    <3> QED
      BY <3>1, <3>2
  <2>8. (Invocation /\ FailureIsRetried)'
    BY <1>5, <2>4 DEF Fetched, Invocation, FailureIsRetried, TypeOK
  <2>9. Remembered'
    BY <1>5, <2>3, <2>4, Constants DEF Fetched, Remembered, TypeOK, Time
  <2>10. TagsAreRecent'
    BY <1>5, <2>1, <2>2, <2>5, Constants DEF Fetched, TagsAreRecent, Invocation, TypeOK, Time
  <2> QED
    BY <2>6, <2>7, <2>8, <2>9, <2>10
<1>6. CASE FetchFails
  <2>1. /\ DOMAIN fetched' = DOMAIN fetched \ {group}
        /\ \A g \in DOMAIN fetched' : fetched'[g] = fetched[g]
    BY <1>6, WithoutEffect DEF FetchFails
  <2>2. group \notin DOMAIN cache
    BY <1>6, Constants DEF FetchFails, Invocation, Entries
  <2>3. TypeOK'
    BY <1>6, <2>1 DEF FetchFails, TypeOK
  <2>4. (Entries /\ Invocation /\ Remembered)'
    BY <1>6, <2>1, <2>2 DEF FetchFails, Entries, Invocation, Remembered
  <2>5. (TagsAreRecent /\ FailureIsRetried)'
    BY <1>6, <2>2 DEF FetchFails, TagsAreRecent, FailureIsRetried
  <2> QED
    BY <2>3, <2>4, <2>5
<1>7. CASE Ship
  BY <1>7 DEF Ship, TypeOK, Entries, Invocation, Remembered, TagsAreRecent, FailureIsRetried
<1>8. CASE Replace
  <2>1. DOMAIN cache' = {} /\ DOMAIN fetched' = {}
    BY <1>8 DEF Replace, Nothing
  <2> QED
    BY <1>8, <2>1 DEF Replace, TypeOK, Entries, Invocation, Remembered, TagsAreRecent,
                      FailureIsRetried
<1>9. CASE Tick
  <2>1. TypeOK'
    BY <1>9, Constants DEF Tick, TypeOK, Time
  <2>2. (Entries /\ TagsAreRecent /\ FailureIsRetried)'
    BY <1>9 DEF Tick, Entries, TagsAreRecent, FailureIsRetried
  <2>3. (Invocation /\ Remembered)'
    BY <1>9, Constants DEF Tick, Invocation, Remembered, TypeOK, Time
  <2> QED
    BY <2>1, <2>2, <2>3
<1>10. CASE UNCHANGED vars
  BY <1>10 DEF vars, TypeOK, Entries, Invocation, Remembered, TagsAreRecent, FailureIsRetried
<1> QED
  BY <1>1, <1>2, <1>3, <1>4, <1>5, <1>6, <1>7, <1>8, <1>9, <1>10 DEF Next

\* The invariant holds in every reachable state.
LEMMA Invariant == Spec => []IInv
BY InitIInv, NextIInv, PTL DEF Spec

-----------------------------------------------------------------------------
(* Types: the cache holds tags and their times. *)
THEOREM TypeCorrect == Spec => []TypeOK
<1>1. IInv => TypeOK
  BY DEF IInv
<1> QED
  BY Invariant, <1>1, PTL

(* An invocation ships its own group's tags, no older than the TTL and the *)
(* longest invocation; with a TTL of zero they were read for it.           *)
THEOREM ShippedTagsAreRecent == Spec => []TagsAreRecent
<1>1. IInv => TagsAreRecent
  BY DEF IInv
<1> QED
  BY Invariant, <1>1, PTL

(* A failed fetch leaves no entry behind, so the next invocation asks. *)
THEOREM FailuresAreRetried == Spec => []FailureIsRetried
<1>1. IInv => FailureIsRetried
  BY DEF IInv
<1> QED
  BY Invariant, <1>1, PTL

(* Within the TTL of a fetch the API is not asked again. *)
THEOREM ApiIsSpared == Spec => AskedOncePerTtl
<1>1. IInv /\ [Next]_vars => (Ask /\ group \in DOMAIN fetched => now >= fetched[group] + Ttl)
  <2> SUFFICES ASSUME IInv, Ask, group \in DOMAIN fetched
               PROVE  now >= fetched[group] + Ttl
    OBVIOUS
  <2>1. CASE group \in DOMAIN cache
    <3>1. Expired(group) /\ cache[group].at = fetched[group]
      BY <2>1 DEF Ask, IInv, Entries
    <3> QED
      BY <2>1, <3>1, Constants DEF Expired, IInv, TypeOK, Time
  <2>2. CASE group \notin DOMAIN cache
    BY <2>2 DEF IInv, Remembered
  <2> QED
    BY <2>1, <2>2
<1> QED
  BY Invariant, <1>1, PTL DEF Spec, AskedOncePerTtl

-----------------------------------------------------------------------------
(* Module RecordMetadata. *)

(* What an entry has to be, given the number of records whose writes its   *)
(* metadata has.                                                           *)
Proper(e, i) ==
  /\ source = "kinesis" => records[e.record].form # "filtered"
  /\ \A k \in R!Key : R!Latest(k, e.meta[k], i)

(* A collected message has its snapshot, or in the case of Kafka will have *)
(* what all records wrote.                                                 *)
Named ==
  /\ \A n \in DOMAIN recordLogs :
       Proper(recordLogs[n], IF source = "kafka" THEN Len(records) ELSE recordLogs[n].record)
  /\ source = "sqs" => \A n \in DOMAIN collected : Proper(collected[n], collected[n].record)

Ascending(s) == \A m, n \in DOMAIN s : m < n => s[m].record < s[n].record

(* The logs are those of the first records, what is collected comes behind *)
(* them, and both are behind what is still to be read.                     *)
Sequenced ==
  /\ Ascending(recordLogs) /\ Ascending(collected)
  /\ \A m \in DOMAIN recordLogs : recordLogs[m].record < next
  /\ \A n \in DOMAIN collected : collected[n].record < next
  /\ \A m \in DOMAIN recordLogs, n \in DOMAIN collected : recordLogs[m].record < collected[n].record
  /\ source = "kinesis" => collected = <<>>
  /\ source # "kinesis" /\ next <= Len(records) => recordLogs = <<>>

(* The context has what the records read so far wrote, and nothing is      *)
(* shipped but the logs of everything.                                     *)
RecordInv ==
  /\ R!TypeOK
  /\ \A k \in R!Key : R!Latest(k, mctx[k], next - 1)
  /\ Named
  /\ Sequenced
  /\ recordAnswer = "none" => shipped = <<>>
  /\ shipped # <<>> => shipped = recordLogs /\ collected = <<>> /\ next > Len(records)

-----------------------------------------------------------------------------
(* What an entry adds to a sequence of entries: itself, or nothing. *)
Added(t, s, k, meta) ==
  /\ t \in Seq(R!LogEntry)
  /\ \A m \in DOMAIN t : \/ m \in DOMAIN s /\ t[m] = s[m]
                         \/ m = Len(s) + 1 /\ t[m].record = k /\ t[m].meta = meta

\* A log is appended to those of the records before it.
LEMMA EntryAdded ==
  ASSUME MaxLogs \in Nat, NEW s \in Seq(R!LogEntry), NEW k \in 1 .. MaxRecords,
         NEW meta \in R!Context, NEW n \in Nat, n <= MaxLogs,
         NEW t, t = s \o R!Entry(k, meta, n)
  PROVE  Added(t, s, k, meta)
<1>1. CASE n = 0
  BY <1>1 DEF R!Entry, Added
<1>2. CASE n # 0
  <2> DEFINE e == [record |-> k, meta |-> meta, count |-> n]
  <2>1. e \in R!LogEntry /\ e.record = k /\ e.meta = meta
    BY <1>2 DEF R!LogEntry
  <2>2. R!Entry(k, meta, n) = <<e>>
    BY <1>2 DEF R!Entry
  <2> HIDE DEF e
  <2>3. t = Append(s, e)
    BY <2>1, <2>2
  <2> QED
    BY <2>1, <2>3 DEF Added
<1> QED
  BY <1>1, <1>2

\* The logs of one record carry its number and its metadata.
LEMMA EntryRecord ==
  ASSUME NEW s \in Seq(R!LogEntry), NEW k \in DOMAIN s
  PROVE  s[k].record \in Nat
<1>1. s[k] \in R!LogEntry
  OBVIOUS
<1> QED
  BY <1>1 DEF R!LogEntry

(* An entry of a later record keeps the order. *)
LEMMA StaysAscending ==
  ASSUME NEW s \in Seq(R!LogEntry), NEW t \in Seq(R!LogEntry), NEW k \in Nat, Ascending(s),
         \A m \in DOMAIN s : s[m].record < k,
         \A m \in DOMAIN t : \/ m \in DOMAIN s /\ t[m] = s[m]
                             \/ m = Len(s) + 1 /\ t[m].record = k
  PROVE  Ascending(t)
<1> SUFFICES ASSUME NEW m \in DOMAIN t, NEW n \in DOMAIN t, m < n
             PROVE  t[m].record < t[n].record
  BY DEF Ascending
<1>1. m \in Nat /\ n \in Nat /\ Len(s) \in Nat /\ DOMAIN s = 1 .. Len(s)
  OBVIOUS
<1>2. m \in DOMAIN s /\ t[m] = s[m]
  BY <1>1
<1> QED
  BY <1>1, <1>2 DEF Ascending

(* One more record writes a key, or leaves it as it is.                    *)
LEMMA LatestStep ==
  ASSUME NEW i \in Nat \ {0}, NEW k \in R!Key, NEW j, NEW h, R!Latest(k, j, i - 1),
         \/ h = i /\ R!Writes(k, i)
         \/ h = j /\ ~ R!Writes(k, i)
  PROVE  R!Latest(k, h, i)
BY DEF R!Latest

(* Which records write a key does not change.                              *)
LEMMA RecordsKept ==
  ASSUME UNCHANGED <<source, records>>
  PROVE  \A k, j, i : R!Latest(k, j, i)' <=> R!Latest(k, j, i)
BY DEF R!Latest, R!Writes

\* The record before the one behind this is this.
LEMMA Successor == \A n \in Nat : (n + 1) - 1 = n
OBVIOUS

\* An invocation begins with all its records to come.
LEMMA RecordInit == R!ConstantsOK /\ R!Init => RecordInv
<1> SUFFICES ASSUME R!ConstantsOK, R!Init PROVE RecordInv
  OBVIOUS
<1>1. PICK n \in 1 .. MaxRecords : records \in [1 .. n -> R!Record]
  BY DEF R!Init
<1>2. records \in Seq(R!Record) /\ Len(records) = n /\ n \in Nat /\ MaxRecords \in Nat /\ n <= MaxRecords /\ 1 <= n
  BY <1>1 DEF R!ConstantsOK
<1>3. /\ source \in {"kinesis", "sqs", "kafka"} /\ deferred \in BOOLEAN /\ next = 1
      /\ mctx = [k \in R!Key |-> 0] /\ collected = <<>> /\ recordLogs = <<>> /\ shipped = <<>>
      /\ recordAnswer = "none"
  BY DEF R!Init
<1>4. next \in 1 .. Len(records) + 1 /\ mctx \in R!Context
  BY <1>2, <1>3 DEF R!Context
<1>5. R!TypeOK
  BY <1>2, <1>3, <1>4 DEF R!TypeOK
<1>6. \A k \in R!Key : R!Latest(k, mctx[k], next - 1)
  BY <1>3 DEF R!Latest
<1>7. Sequenced
  BY <1>3 DEF Sequenced, Ascending
<1> QED
  BY <1>3, <1>5, <1>6, <1>7 DEF RecordInv, Named

(* The logs of a later record are appended by a step that reads or         *)
(* transforms it: what is proper stays proper, and in order.               *)
LEMMA RecordNext == R!ConstantsOK /\ RecordInv /\ [R!Next]_R!vars => RecordInv'
<1> SUFFICES ASSUME R!ConstantsOK, RecordInv, [R!Next]_R!vars PROVE RecordInv'
  OBVIOUS
<1>t. /\ R!TypeOK /\ Sequenced /\ MaxRecords \in Nat /\ MaxLogs \in Nat /\ 1 <= MaxLogs
      /\ records \in Seq(R!Record) /\ Len(records) \in Nat /\ Len(records) <= MaxRecords
      /\ next \in Nat /\ 1 <= next /\ next <= Len(records) + 1
      /\ mctx \in R!Context /\ collected \in Seq(R!LogEntry) /\ recordLogs \in Seq(R!LogEntry)
      /\ source \in {"kinesis", "sqs", "kafka"}
  BY DEF RecordInv, R!TypeOK, R!ConstantsOK
<1>n. next <= Len(records) => /\ next \in 1 .. MaxRecords /\ next \in 0 .. MaxRecords
                              /\ records[next] \in R!Record /\ records[next].logs \in 0 .. MaxLogs
                              /\ next + 1 \in 1 .. Len(records) + 1
  <2> HAVE next <= Len(records)
  <2>1. next \in 1 .. Len(records)
    BY <1>t
  <2>2. records[next] \in R!Record
    BY <1>t, <2>1
  <2> QED
    BY <1>t, <2>1, <2>2 DEF R!Record
<1>m. \A k \in R!Key : mctx[k] \in 0 .. MaxRecords
  BY <1>t DEF R!Context
<1>1. CASE R!ReadKinesis
  <2>1. /\ recordAnswer = "none" /\ source = "kinesis" /\ next <= Len(records)
        /\ mctx' = R!WrittenBy(next) /\ next' = next + 1
        /\ UNCHANGED <<source, deferred, records, collected, shipped, recordAnswer>>
    BY <1>1 DEF R!ReadKinesis, R!Reading
  <2>2. /\ mctx' \in R!Context
        /\ \A k \in R!Key : \/ mctx'[k] = next /\ R!Writes(k, next)
                            \/ mctx'[k] = mctx[k] /\ ~ R!Writes(k, next)
    BY <1>t, <1>n, <2>1 DEF R!WrittenBy, R!Writes, R!Context, R!Key
  <2>3. \A k \in R!Key : R!Latest(k, mctx'[k], next)
    <3> TAKE k \in R!Key
    <3>1. R!Latest(k, mctx[k], next - 1) /\ next \in Nat \ {0}
      BY <1>t DEF RecordInv
    <3> QED
      BY <2>2, <3>1, LatestStep
  <2>4. \/ recordLogs' = recordLogs
        \/ \E n \in Nat : /\ n <= MaxLogs /\ R!HasLogs(next)
                          /\ recordLogs' = recordLogs \o R!Entry(next, mctx', n)
    <3>1. CASE R!HasLogs(next)
      <4>1. PICK n \in R!Transformed(records[next].logs) :
               recordLogs' = recordLogs \o R!Entry(next, mctx', n)
        BY <1>1, <3>1 DEF R!ReadKinesis
      <4>2. n \in Nat /\ n <= MaxLogs
        BY <1>t, <1>n, <2>1, <4>1 DEF R!Transformed
      <4> QED
        BY <3>1, <4>1, <4>2
    <3>2. CASE ~ R!HasLogs(next)
      BY <1>1, <3>2 DEF R!ReadKinesis
    <3> QED
      BY <3>1, <3>2
  <2>5. /\ recordLogs' \in Seq(R!LogEntry)
        /\ \A m \in DOMAIN recordLogs' :
             \/ m \in DOMAIN recordLogs /\ recordLogs'[m] = recordLogs[m]
             \/ /\ m = Len(recordLogs) + 1 /\ recordLogs'[m].record = next
                /\ recordLogs'[m].meta = mctx' /\ R!HasLogs(next)
    <3>1. CASE recordLogs' = recordLogs
      BY <1>t, <3>1
    <3>2. CASE \E n \in Nat : /\ n <= MaxLogs /\ R!HasLogs(next)
                              /\ recordLogs' = recordLogs \o R!Entry(next, mctx', n)
      <4>1. PICK n \in Nat : n <= MaxLogs /\ recordLogs' = recordLogs \o R!Entry(next, mctx', n)
        BY <3>2
      <4>2. next \in 1 .. MaxRecords
        BY <1>n, <2>1
      <4> QED
        <5>1. Added(recordLogs', recordLogs, next, mctx')
          BY <1>t, <2>2, <4>1, <4>2, EntryAdded
        <5> QED
          BY <3>2, <5>1 DEF Added
    <3> QED
      BY <2>4, <3>1, <3>2
  <2>6. R!TypeOK'
    BY <1>t, <1>n, <2>1, <2>2, <2>5 DEF R!TypeOK
  <2>7. Named'
    <3> SUFFICES ASSUME NEW k \in DOMAIN recordLogs'
                 PROVE  Proper(recordLogs'[k], recordLogs'[k].record)
      BY <2>1, RecordsKept DEF Named, Proper
    <3>1. CASE k \in DOMAIN recordLogs /\ recordLogs'[k] = recordLogs[k]
      BY <2>1, <3>1 DEF RecordInv, Named
    <3>2. CASE recordLogs'[k].record = next /\ recordLogs'[k].meta = mctx' /\ R!HasLogs(next)
      <4>1. records[next].form \in {"cw", "raw"}
        BY <3>2 DEF R!HasLogs
      <4> QED
        BY <2>1, <2>3, <3>2, <4>1 DEF Proper
    <3> QED
      BY <2>5, <3>1, <3>2
  <2>8. Sequenced'
    <3>1. collected = <<>> /\ collected' = <<>> /\ DOMAIN collected' = {}
      BY <1>t, <2>1 DEF Sequenced
    <3>2. Ascending(recordLogs)' /\ Ascending(collected)'
      <4>1. Ascending(recordLogs')
        BY <1>t, <2>5, StaysAscending DEF Sequenced
      <4> QED
        BY <3>1, <4>1 DEF Ascending
    <3>3. \A m \in DOMAIN recordLogs' : recordLogs'[m].record < next'
      <4> TAKE m \in DOMAIN recordLogs'
      <4>1. CASE m \in DOMAIN recordLogs /\ recordLogs'[m] = recordLogs[m]
        <5>1. recordLogs[m] \in R!LogEntry /\ recordLogs[m].record < next
          BY <1>t, <4>1 DEF Sequenced
        <5>2. recordLogs[m].record \in Nat
          BY <1>t, <5>1 DEF R!LogEntry
        <5> QED
          BY <1>t, <2>1, <4>1, <5>1, <5>2
      <4>2. CASE recordLogs'[m].record = next
        BY <1>t, <2>1, <4>2
      <4> QED
        BY <2>5, <4>1, <4>2
    <3> QED
      BY <2>1, <3>1, <3>2, <3>3 DEF Sequenced
  <2>9. shipped = <<>> /\ shipped' = <<>>
    BY <2>1 DEF RecordInv
  <2>10. (\A k \in R!Key : R!Latest(k, mctx[k], next - 1))'
    BY <1>t, <2>1, <2>3, RecordsKept, Successor
  <2> QED
    BY <1>t, <2>1, <2>6, <2>7, <2>8, <2>9, <2>10 DEF RecordInv, Sequenced
<1>2. CASE R!ReadSqs \/ R!ReadKafka
  <2>1. /\ recordAnswer = "none" /\ source # "kinesis" /\ next <= Len(records) /\ next' = next + 1
        /\ UNCHANGED <<source, deferred, records, recordLogs, shipped, recordAnswer>>
    BY <1>2 DEF R!ReadSqs, R!ReadKafka, R!Reading
  <2>2. /\ mctx' \in R!Context
        /\ \A k \in R!Key : \/ mctx'[k] = next /\ R!Writes(k, next)
                            \/ mctx'[k] = mctx[k] /\ ~ R!Writes(k, next)
        /\ \/ collected' = collected
           \/ collected' = collected \o R!Entry(next, mctx', 1)
    BY <1>2, <1>t, <1>n, <2>1 DEF R!ReadSqs, R!ReadKafka, R!Reading, R!Writes, R!Context, R!Key
  <2>l. \A k \in R!Key : R!Latest(k, mctx'[k], next)
    <3> TAKE k \in R!Key
    <3>1. R!Latest(k, mctx[k], next - 1) /\ next \in Nat \ {0}
      BY <1>t DEF RecordInv
    <3> QED
      BY <2>2, <3>1, LatestStep
  <2>3. /\ collected' \in Seq(R!LogEntry)
        /\ \A m \in DOMAIN collected' :
             \/ m \in DOMAIN collected /\ collected'[m] = collected[m]
             \/ /\ m = Len(collected) + 1 /\ collected'[m].record = next
                /\ collected'[m].meta = mctx'
    <3>1. CASE collected' = collected
      BY <1>t, <3>1
    <3>2. CASE collected' = collected \o R!Entry(next, mctx', 1)
      <4>1. next \in 1 .. MaxRecords /\ 1 \in Nat /\ 1 <= MaxLogs
        BY <1>t, <1>n, <2>1
      <4> QED
        <5>1. Added(collected', collected, next, mctx')
          BY <1>t, <2>2, <3>2, <4>1, EntryAdded
        <5> QED
          BY <3>2, <5>1 DEF Added
    <3> QED
      BY <2>2, <3>1, <3>2
  <2>4. R!TypeOK'
    BY <1>t, <1>n, <2>1, <2>2, <2>3 DEF R!TypeOK
  <2>5. (\A k \in R!Key : R!Latest(k, mctx[k], next - 1))'
    BY <1>t, <2>1, <2>l, RecordsKept, Successor
  <2>6. Named'
    <3>1. recordLogs' = <<>>
      BY <1>t, <2>1 DEF Sequenced
    <3>2. ASSUME source = "sqs", NEW k \in DOMAIN collected'
          PROVE  Proper(collected'[k], collected'[k].record)
      <4>1. CASE k \in DOMAIN collected /\ collected'[k] = collected[k]
        BY <3>2, <4>1 DEF RecordInv, Named
      <4>2. CASE collected'[k].record = next /\ collected'[k].meta = mctx'
        BY <3>2, <2>l, <4>2 DEF Proper
      <4> QED
        BY <2>3, <4>1, <4>2
    <3> QED
      BY <2>1, <3>1, <3>2, RecordsKept DEF Named, Proper
  <2>7. recordLogs = <<>> /\ recordLogs' = <<>> /\ DOMAIN recordLogs' = {}
    BY <1>t, <2>1 DEF Sequenced
  <2>8. Sequenced'
    <3>1. Ascending(collected')
      BY <1>t, <2>3, StaysAscending DEF Sequenced
    <3>2. \A m \in DOMAIN collected' : collected'[m].record < next'
      <4> TAKE m \in DOMAIN collected'
      <4>1. CASE m \in DOMAIN collected /\ collected'[m] = collected[m]
        <5>1. collected[m] \in R!LogEntry /\ collected[m].record < next
          BY <1>t, <4>1 DEF Sequenced
        <5>2. collected[m].record \in Nat
          BY <1>t, <5>1 DEF R!LogEntry
        <5> QED
          BY <1>t, <2>1, <4>1, <5>1, <5>2
      <4>2. CASE collected'[m].record = next
        BY <1>t, <2>1, <4>2
      <4> QED
        BY <2>3, <4>1, <4>2
    <3> QED
      BY <2>1, <2>7, <3>1, <3>2 DEF Sequenced, Ascending
  <2>9. shipped = <<>> /\ shipped' = <<>>
    BY <2>1 DEF RecordInv
  <2> QED
    BY <2>1, <2>4, <2>5, <2>6, <2>7, <2>8, <2>9 DEF RecordInv
<1>3. CASE R!TransformSqs \/ R!TransformKafka
  <2> DEFINE e == Head(collected)
  <2>1. /\ recordAnswer = "none" /\ next > Len(records) /\ source \in {"sqs", "kafka"}
        /\ collected # <<>> /\ collected' = Tail(collected)
        /\ UNCHANGED <<source, deferred, records, next, mctx, shipped, recordAnswer>>
        /\ \E n \in Nat, meta \in {e.meta, mctx} :
             /\ n <= MaxLogs /\ meta = IF source = "sqs" THEN e.meta ELSE mctx
             /\ recordLogs' = recordLogs \o R!Entry(e.record, meta, n)
    <3>1. \A n \in R!Transformed(1) : n \in Nat /\ n <= MaxLogs
      BY <1>t DEF R!Transformed
    <3>2. CASE R!TransformSqs
      BY <3>1, <3>2 DEF R!TransformSqs, R!AllRead
    <3>3. CASE R!TransformKafka
      BY <3>1, <3>3 DEF R!TransformKafka, R!AllRead
    <3> QED
      BY <1>3, <3>2, <3>3
  <2>2. /\ e = collected[1] /\ 1 \in DOMAIN collected /\ e \in R!LogEntry
        /\ Len(collected) \in Nat /\ DOMAIN collected = 1 .. Len(collected)
        /\ collected' \in Seq(R!LogEntry)
        /\ \A n \in DOMAIN collected' : n + 1 \in DOMAIN collected /\ collected'[n] = collected[n + 1]
                                        /\ n \in Nat /\ 1 < n + 1
    BY <1>t, <2>1
  <2>3. e.record \in 1 .. MaxRecords /\ e.record \in Nat /\ e.meta \in R!Context
    BY <1>t, <2>2 DEF R!LogEntry
  <2>4. (source = "sqs" => Proper(e, e.record)) /\ e.record < next
    BY <1>t, <2>2 DEF RecordInv, Named, Sequenced
  <2>5. \A m \in DOMAIN recordLogs : recordLogs[m].record < e.record
    BY <1>t, <2>2 DEF Sequenced
  <2>6. \A n \in DOMAIN collected' :
          /\ e.record < collected'[n].record /\ collected'[n].record < next
          /\ source = "sqs" => Proper(collected'[n], collected'[n].record)
    BY <1>t, <2>2 DEF RecordInv, Named, Sequenced, Ascending
  <2> HIDE DEF e
  <2>7. /\ recordLogs' \in Seq(R!LogEntry)
        /\ \A m \in DOMAIN recordLogs' :
             \/ m \in DOMAIN recordLogs /\ recordLogs'[m] = recordLogs[m]
             \/ /\ m = Len(recordLogs) + 1 /\ recordLogs'[m].record = e.record
                /\ recordLogs'[m].meta = IF source = "sqs" THEN e.meta ELSE mctx
    <3>1. PICK n \in Nat, meta \in {e.meta, mctx} :
             /\ n <= MaxLogs /\ meta = IF source = "sqs" THEN e.meta ELSE mctx
             /\ recordLogs' = recordLogs \o R!Entry(e.record, meta, n)
      BY <2>1
    <3>2. meta \in R!Context
      BY <1>t, <2>3
    <3>3. Added(recordLogs', recordLogs, e.record, meta)
      BY <1>t, <2>3, <3>1, <3>2, EntryAdded
    <3> QED
      BY <3>1, <3>3 DEF Added
  <2>8. R!TypeOK'
    BY <1>t, <2>1, <2>2, <2>7 DEF R!TypeOK
  <2>9. ASSUME NEW k \in DOMAIN recordLogs'
        PROVE  Proper(recordLogs'[k], IF source = "kafka" THEN Len(records) ELSE recordLogs'[k].record)
    <3>1. CASE k \in DOMAIN recordLogs /\ recordLogs'[k] = recordLogs[k]
      BY <3>1 DEF RecordInv, Named
    <3>2. CASE source = "sqs" /\ recordLogs'[k].record = e.record /\ recordLogs'[k].meta = e.meta
      BY <2>4, <3>2 DEF Proper
    <3>3. CASE source = "kafka" /\ recordLogs'[k].meta = mctx
      <4>1. next - 1 = Len(records)
        BY <1>t, <2>1
      <4> QED
        BY <3>3, <4>1 DEF Proper, RecordInv
    <3> QED
      BY <2>1, <2>7, <3>1, <3>2, <3>3
  <2>10. Named'
    BY <2>1, <2>6, <2>9, RecordsKept DEF Named, Proper
  <2>11. \A m \in DOMAIN recordLogs' : recordLogs'[m].record <= e.record
    <3> TAKE m \in DOMAIN recordLogs'
    <3>1. CASE m \in DOMAIN recordLogs /\ recordLogs'[m] = recordLogs[m]
      <4>1. recordLogs[m] \in R!LogEntry /\ recordLogs[m].record < e.record
        BY <1>t, <2>5, <3>1
      <4>2. recordLogs[m].record \in Nat
        BY <1>t, <4>1 DEF R!LogEntry
      <4> QED
        BY <2>3, <3>1, <4>1, <4>2
    <3>2. CASE recordLogs'[m].record = e.record
      BY <2>3, <3>2
    <3> QED
      BY <2>7, <3>1, <3>2
  <2>12. \A m \in DOMAIN recordLogs' : recordLogs'[m].record \in Nat
    BY <2>7, EntryRecord
  <2>13. \A n \in DOMAIN collected' : collected'[n].record \in Nat
    BY <2>2, EntryRecord
  <2>14. Sequenced'
    <3>1. Ascending(recordLogs')
      BY <1>t, <2>3, <2>5, <2>7, StaysAscending DEF Sequenced
    <3>2. Ascending(collected')
      <4> SUFFICES ASSUME NEW m \in DOMAIN collected', NEW n \in DOMAIN collected', m < n
                   PROVE  collected'[m].record < collected'[n].record
        BY DEF Ascending
      <4>1. m + 1 < n + 1
        BY <2>2
      <4> QED
        BY <1>t, <2>2, <4>1 DEF Sequenced, Ascending
    <3>3. \A m \in DOMAIN recordLogs' : recordLogs'[m].record < next'
      <4> TAKE m \in DOMAIN recordLogs'
      <4> DEFINE k == recordLogs'[m].record
      <4>1. k \in Nat /\ k <= e.record /\ e.record < next
        BY <2>4, <2>11, <2>12
      <4>2. next' = next /\ next \in Nat
        BY <1>t, <2>1
      <4> HIDE DEF k
      <4>3. k < next'
        BY <2>3, <4>1, <4>2
      <4> QED
        BY <4>3 DEF k
    <3>4. \A m \in DOMAIN recordLogs', n \in DOMAIN collected' :
             recordLogs'[m].record < collected'[n].record
      <4> TAKE m \in DOMAIN recordLogs', n \in DOMAIN collected'
      <4> DEFINE k == recordLogs'[m].record l == collected'[n].record
      <4>1. k \in Nat /\ k <= e.record /\ l \in Nat /\ e.record < l
        BY <2>6, <2>11, <2>12, <2>13
      <4> HIDE DEF k, l
      <4>2. k < l
        BY <2>3, <4>1
      <4> QED
        BY <4>2 DEF k, l
    <3>5. \A n \in DOMAIN collected' : collected'[n].record < next'
      BY <2>1, <2>6
    <3>6. /\ ~ (source' = "kinesis")
          /\ ~ (next' <= Len(records'))
      BY <1>t, <2>1
    <3> QED
      BY <3>1, <3>2, <3>3, <3>4, <3>5, <3>6 DEF Sequenced
  <2>15. shipped = <<>> /\ shipped' = <<>>
    BY <2>1 DEF RecordInv
  <2> QED
    BY <2>1, <2>8, <2>10, <2>14, <2>15, RecordsKept DEF RecordInv
<1>4. CASE R!Fail
  <2>1. recordAnswer = "none" /\ recordAnswer' = "err"
        /\ UNCHANGED <<source, deferred, records, next, mctx, collected, recordLogs, shipped>>
    BY <1>4 DEF R!Fail
  <2>2. R!TypeOK'
    BY <1>t, <2>1 DEF R!TypeOK
  <2> QED
    BY <2>1, <2>2, RecordsKept DEF RecordInv, Sequenced, Ascending, Named, Proper
<1>5. CASE R!Ship
  <2>1. /\ recordAnswer = "none" /\ next > Len(records) /\ collected = <<>>
        /\ shipped' = recordLogs /\ recordAnswer' \in {"ok", "err"}
        /\ UNCHANGED <<source, deferred, records, next, mctx, collected, recordLogs>>
    BY <1>5 DEF R!Ship, R!AllRead
  <2>2. R!TypeOK'
    BY <1>t, <2>1 DEF R!TypeOK
  <2> QED
    BY <2>1, <2>2, RecordsKept DEF RecordInv, Sequenced, Ascending, Named, Proper
<1>6. CASE UNCHANGED R!vars
  <2>1. UNCHANGED <<source, deferred, records, next, mctx, collected, recordLogs, shipped, recordAnswer>>
    BY <1>6 DEF R!vars
  <2>2. R!TypeOK'
    BY <1>t, <2>1 DEF R!TypeOK
  <2> QED
    BY <2>1, <2>2, RecordsKept DEF RecordInv, Sequenced, Ascending, Named, Proper
<1> QED
  BY <1>1, <1>2, <1>3, <1>4, <1>5, <1>6 DEF R!Next

\* The invariant is what the property asks for.
LEMMA RecordSound == ASSUME RecordInv PROVE R!MetadataIsLatest
<1>1. R!LatestMetadata /\ R!FilteredLeavesNoLog
  BY DEF RecordInv, Named, Proper, R!LatestMetadata, R!FilteredLeavesNoLog
<1>2. R!AllOrNothing
  BY DEF RecordInv, Sequenced, Ascending, R!AllOrNothing
<1> QED
  BY <1>1, <1>2 DEF RecordInv, R!MetadataIsLatest

(* For any number of records and logs: of each key a log has the value     *)
(* last written when its record had been read, never a later record's, and *)
(* it is shipped with the logs of all the other records in their order, or *)
(* not at all.                                                             *)
THEOREM MetadataIsLatestHolds ==
  R!Spec => []MetadataIsLatest
<1>1. R!Init => RecordInv
  BY RecordAssumption, RecordInit
<1>2. RecordInv /\ [R!Next]_R!vars => RecordInv'
  BY RecordAssumption, RecordNext
<1>3. RecordInv => MetadataIsLatest
  BY RecordAssumption, RecordSound DEF MetadataIsLatest
<1> QED
  BY <1>1, <1>2, <1>3, PTL DEF R!Spec

-----------------------------------------------------------------------------
(* Module LogEnvelope. *)

(* What is one map laid over another has. *)
IsOver(h, f, g) ==
  /\ DOMAIN h = DOMAIN f \union DOMAIN g
  /\ \A k \in DOMAIN f : h[k] = f[k]
  /\ \A k \in DOMAIN g : k \notin DOMAIN f => h[k] = g[k]

\* What a body laid over another has under each name.
LEMMA OverFields ==
  ASSUME NEW f, NEW g
  PROVE  IsOver(E!Over(f, g), f, g)
BY DEF E!Over, IsOver

(* What a body with metadata has under each of its names. *)
LEMMA EnvelopedFields ==
  /\ DOMAIN E!Enveloped =
       DOMAIN E!Tags \union customKeys \union DOMAIN E!Selected \union {"message"}
  /\ \A k \in DOMAIN E!Tags : E!Enveloped[k] = "tags"
  /\ \A k \in customKeys \ DOMAIN E!Tags : E!Enveloped[k] = "custom"
  /\ \A k \in DOMAIN E!Selected \ (customKeys \union DOMAIN E!Tags) : E!Enveloped[k] = "metadata"
  /\ "message" \notin customKeys \union DOMAIN E!Tags \union DOMAIN E!Selected =>
       E!Enveloped["message"] = "log"
<1> DEFINE first == E!Over(E!Selected, E!Whole("message"))
           second == E!Over(E!Custom, first)
<1>1. /\ DOMAIN E!Custom = customKeys /\ \A k \in customKeys : E!Custom[k] = "custom"
      /\ \A k \in DOMAIN E!Tags : E!Tags[k] = "tags"
      /\ \A k \in DOMAIN E!Selected : E!Selected[k] = "metadata"
      /\ DOMAIN E!Whole("message") = {"message"} /\ E!Whole("message")["message"] = "log"
  BY DEF E!Custom, E!Tags, E!Selected, E!Whole
<1>2. /\ DOMAIN first = DOMAIN E!Selected \union {"message"}
      /\ \A k \in DOMAIN E!Selected : first[k] = "metadata"
      /\ "message" \notin DOMAIN E!Selected => first["message"] = "log"
  <2>1. IsOver(first, E!Selected, E!Whole("message"))
    BY OverFields
  <2> HIDE DEF first
  <2> QED
    BY <1>1, <2>1 DEF IsOver
<1> HIDE DEF first
<1>3. /\ DOMAIN second = customKeys \union DOMAIN first
      /\ \A k \in customKeys : second[k] = "custom"
      /\ \A k \in DOMAIN first \ customKeys : second[k] = first[k]
  <2>1. IsOver(second, E!Custom, first)
    BY OverFields
  <2> HIDE DEF second
  <2> QED
    BY <1>1, <2>1 DEF IsOver
<1> HIDE DEF second
<1>4. E!Enveloped = E!Over(E!Tags, second)
  BY DEF E!Enveloped, first, second
<1>5. /\ DOMAIN E!Enveloped = DOMAIN E!Tags \union DOMAIN second
      /\ \A k \in DOMAIN E!Tags : E!Enveloped[k] = E!Tags[k]
      /\ \A k \in DOMAIN second \ DOMAIN E!Tags : E!Enveloped[k] = second[k]
  <2>1. IsOver(E!Enveloped, E!Tags, second)
    BY <1>4, OverFields
  <2> QED
    BY <2>1 DEF IsOver
<1> QED
  BY <1>1, <1>2, <1>3, <1>5

(* What the body is after it was wrapped: all its properties at once. *)
BodyIsFaithful(b) ==
  /\ DOMAIN b \subseteq E!BodyFields
  /\ \A k \in DOMAIN b : b[k] \in {"log", "own", "metadata", "custom", "tags"}
  /\ "message" \notin customKeys =>
       \/ \E k \in {"", "message", "text"} \intersect DOMAIN b : b[k] = "log"
       \/ /\ log.kind = "object"
          /\ \A f \in DOMAIN log.fields \ {"cw.tags"} : f \in DOMAIN b /\ b[f] = "own"
  /\ \A k \in E!Key \ customKeys :
       (k \in DOMAIN b /\ b[k] = "metadata") <=> k \in add /\ E!SourceOf(k) \in logMctx
  /\ (\E k \in DOMAIN b : b[k] = "tags") <=> "cw.tags" \in logMctx

\* The fields of a log are names of a body.
LEMMA LogFields ==
  ASSUME log \in E!Log
  PROVE  log.kind \in {"text", "object", "other"} /\ DOMAIN log.fields \subseteq Field
BY DEF E!Log

\* A body made of the log and its metadata keeps both.
LEMMA EnvelopedIsFaithful ==
  ASSUME E!TypeOK, E!HasMetadata
  PROVE  BodyIsFaithful(E!Enveloped)
<1>1. /\ DOMAIN E!Tags = {"cw.tags"} \intersect logMctx
      /\ DOMAIN E!Selected = {k \in add \intersect E!Key : E!SourceOf(k) \in logMctx}
      /\ E!Key = {"s3.bucket", "bucket_name"} /\ customKeys \subseteq CustomKey
      /\ DOMAIN E!Selected \subseteq E!Key
  BY DEF E!Tags, E!Selected, E!Key, E!TypeOK
<1>2. DOMAIN E!Enveloped \subseteq E!BodyFields
  BY <1>1, EnvelopedFields DEF E!BodyFields
<1>3. "message" \notin DOMAIN E!Tags \union DOMAIN E!Selected
  BY <1>1
<1>4. \A k \in DOMAIN E!Enveloped : E!Enveloped[k] \in {"log", "own", "metadata", "custom", "tags"}
  BY <1>1, <1>3, EnvelopedFields
<1>5. "message" \notin customKeys => "message" \in DOMAIN E!Enveloped /\ E!Enveloped["message"] = "log"
  BY <1>3, EnvelopedFields
<1>6. \A k \in E!Key \ customKeys :
        (k \in DOMAIN E!Enveloped /\ E!Enveloped[k] = "metadata")
          <=> k \in add /\ E!SourceOf(k) \in logMctx
  <2> TAKE k \in E!Key \ customKeys
  <2>1. k \notin DOMAIN E!Tags /\ k # "message"
    BY <1>1
  <2>2. k \in DOMAIN E!Enveloped <=> k \in DOMAIN E!Selected
    BY <2>1, EnvelopedFields
  <2>3. k \in DOMAIN E!Selected => E!Enveloped[k] = "metadata"
    BY <2>1, EnvelopedFields
  <2> QED
    BY <1>1, <2>2, <2>3
<1>7. (\E k \in DOMAIN E!Enveloped : E!Enveloped[k] = "tags") <=> "cw.tags" \in logMctx
  BY <1>1, <1>3, EnvelopedFields
<1> QED
  BY <1>2, <1>4, <1>5, <1>6, <1>7 DEF BodyIsFaithful

\* A log that takes the tags among its own fields keeps them.
LEMMA TaggedIsFaithful ==
  ASSUME E!TypeOK, ~ E!HasMetadata, "cw.tags" \in logMctx
  PROVE  BodyIsFaithful(E!Tagged)
<1>1. /\ DOMAIN E!Tags = {"cw.tags"} /\ E!Tags["cw.tags"] = "tags"
      /\ log.kind \in {"text", "object", "other"} /\ DOMAIN log.fields \subseteq Field
      /\ \A k \in E!Key : ~ (k \in add /\ E!SourceOf(k) \in logMctx)
      /\ E!Key = {"s3.bucket", "bucket_name"}
  BY LogFields DEF E!Tags, E!TypeOK, E!HasMetadata, E!Selected, E!Key
<1>2. \A n : DOMAIN E!Whole(n) = {n} /\ E!Whole(n)[n] = "log"
  BY DEF E!Whole
<1>3. ASSUME NEW n \in {"text", "message"}, E!Tagged = E!Over(E!Tags, E!Whole(n))
      PROVE  BodyIsFaithful(E!Tagged)
  <2>1. /\ DOMAIN E!Tagged = {"cw.tags", n}
        /\ E!Tagged["cw.tags"] = "tags" /\ E!Tagged[n] = "log"
    <3>1. IsOver(E!Tagged, E!Tags, E!Whole(n))
      BY <1>3, OverFields
    <3>2. DOMAIN E!Whole(n) = {n} /\ E!Whole(n)[n] = "log" /\ n # "cw.tags"
      BY <1>2
    <3> QED
      BY <1>1, <3>1, <3>2 DEF IsOver
  <2> QED
    BY <1>1, <2>1 DEF BodyIsFaithful, E!BodyFields
<1>4. CASE log.kind = "object"
  <2> DEFINE own == [f \in DOMAIN log.fields |-> "own"]
  <2>1. E!Tagged = E!Over(E!Tags, own)
    BY <1>4 DEF E!Tagged
  <2>2. DOMAIN own = DOMAIN log.fields /\ \A f \in DOMAIN log.fields : own[f] = "own"
    OBVIOUS
  <2> HIDE DEF own
  <2>3. /\ DOMAIN E!Tagged = {"cw.tags"} \union DOMAIN log.fields
        /\ E!Tagged["cw.tags"] = "tags"
        /\ \A f \in DOMAIN log.fields \ {"cw.tags"} : E!Tagged[f] = "own"
    <3>1. IsOver(E!Tagged, E!Tags, own)
      BY <2>1, OverFields
    <3> QED
      BY <1>1, <2>2, <3>1 DEF IsOver
  <2> QED
    BY <1>1, <1>4, <2>3 DEF BodyIsFaithful, E!BodyFields
<1>5. CASE log.kind = "text"
  BY <1>3, <1>5 DEF E!Tagged
<1>6. CASE log.kind = "other"
  BY <1>3, <1>6 DEF E!Tagged
<1> QED
  BY <1>1, <1>4, <1>5, <1>6

\* A log sent as it is keeps itself and has no metadata.
LEMMA RawIsFaithful ==
  ASSUME E!TypeOK, ~ E!HasMetadata, "cw.tags" \notin logMctx
  PROVE  BodyIsFaithful(E!Raw)
<1>1. DOMAIN E!Raw = {""} /\ E!Raw[""] = "log"
  BY DEF E!Raw, E!Whole
<1>2. \A k \in E!Key : ~ (k \in add /\ E!SourceOf(k) \in logMctx) /\ k # ""
  BY DEF E!HasMetadata, E!Selected, E!Key
<1> QED
  BY <1>1, <1>2 DEF BodyIsFaithful, E!BodyFields

(* The last of the tests that succeeds decides, and from info on they are  *)
(* in the order of the severities.                                         *)
LEMMA WorstWord ==
  ASSUME NEW found \in SUBSET E!Severity
  PROVE  /\ E!SeverityOf(found) \in E!Severity
         /\ detect => \A w \in found : w >= E!Info => E!SeverityOf(found) >= w
         /\ ~ detect => E!SeverityOf(found) = E!Info
<1> DEFINE hits == {k \in DOMAIN E!Tests : E!Tests[k] \in found}
<1>1. /\ E!Severity = 1 .. 6 /\ E!Info = 3 /\ E!Tests = <<2, 1, 3, 4, 5, 6>>
      /\ DOMAIN E!Tests = 1 .. 6
  BY DEF E!Severity, E!Info, E!Tests
<1>2. CASE ~ detect \/ found = {}
  BY <1>1, <1>2 DEF E!SeverityOf
<1>3. CASE detect /\ found # {}
  <2>0. PICK v \in found : v \in 1 .. 6
    BY <1>1, <1>3
  <2>w. v \in {1, 2, 3, 4, 5, 6}
    BY <2>0
  <2>k. \E k \in 1 .. 6 : E!Tests[k] = v
    BY <1>1, <2>w
  <2>1. hits \in SUBSET Nat /\ hits # {} /\ \A k \in hits : k <= 6
    <3>1. hits \subseteq 1 .. 6
      BY <1>1
    <3>2. hits # {}
      BY <1>1, <2>0, <2>k
    <3> QED
      BY <3>1, <3>2
  <2>2. E!Max(hits) \in hits /\ \A k \in hits : k <= E!Max(hits)
    <3>1. \E x \in hits : \A y \in hits : y <= x
      BY <2>1, GreatestElement
    <3>2. \E x \in hits : \A y \in hits : x >= y
      BY <2>1, <3>1
    <3> HIDE DEF hits
    <3>3. E!Max(hits) = CHOOSE x \in hits : \A y \in hits : x >= y
      BY DEF E!Max
    <3>4. E!Max(hits) \in hits /\ \A y \in hits : E!Max(hits) >= y
      BY <3>2, <3>3
    <3> QED
      BY <2>1, <3>4
  <2>3. E!SeverityOf(found) = E!Tests[E!Max(hits)]
    BY <1>3 DEF E!SeverityOf
  <2>4. \A w \in found : w >= 3 => w \in hits
    BY <1>1
  <2>5. \A k \in 3 .. 6 : E!Tests[k] = k
    BY <1>1
  <2>6. E!Max(hits) \in 1 .. 6 /\ E!Tests[E!Max(hits)] \in 1 .. 6
    BY <1>1, <2>2
  <2> HIDE DEF hits
  <2>7. ASSUME NEW w \in found, w >= 3
        PROVE  E!SeverityOf(found) >= w
    <3>1. w \in 1 .. 6 /\ w <= E!Max(hits)
      BY <1>1, <2>2, <2>4, <2>7
    <3>2. E!Max(hits) \in 3 .. 6
      BY <2>6, <2>7, <3>1
    <3> QED
      BY <2>3, <2>5, <3>1, <3>2
  <2> QED
    BY <1>1, <1>3, <2>3, <2>6, <2>7
<1> QED
  BY <1>2, <1>3

(* What a name becomes, by the form it is configured in. *)
LEMMA NameResolves ==
  ASSUME E!TypeOK, E!Name
  PROVE  E!TemplatesResolve' /\ logName' \in {"", "log", "metadata", "group", "unknown", "configured"}
<1>1. /\ UNCHANGED <<configured, logMctx>>
      /\ logName' = IF E!InLog THEN "log" ELSE IF E!Evaluate = "error" THEN "unknown" ELSE E!Evaluate
  BY DEF E!Name, E!input
<1>2. configured.form = "static" \/ configured.form \in {"json", "malformed"} \/ configured.form = "key"
  BY DEF E!TypeOK, E!Configured
<1>3. CASE configured.form = "static"
  BY <1>1, <1>3 DEF E!Evaluate, E!TemplatesResolve
<1>4. CASE configured.form \in {"json", "malformed"}
  <2>1. E!Evaluate = "error"
    BY <1>4 DEF E!Evaluate
  <2> QED
    BY <1>1, <1>4, <2>1 DEF E!TemplatesResolve
<1>5. CASE configured.form = "key"
  <2>1. ~ E!InLog
    BY <1>5 DEF E!InLog
  <2>2. CASE configured.key \in logMctx /\ configured.regex # "invalid"
    <3>1. E!Evaluate = IF configured.regex = "group" THEN "group" ELSE "metadata"
      BY <1>5, <2>2 DEF E!Evaluate
    <3> QED
      BY <1>1, <1>5, <2>1, <2>2, <3>1 DEF E!TemplatesResolve
  <2>3. CASE ~ (configured.key \in logMctx /\ configured.regex # "invalid")
    <3>1. E!Evaluate = "error"
      BY <1>5, <2>3 DEF E!Evaluate
    <3> QED
      BY <1>1, <1>5, <2>1, <2>3, <3>1 DEF E!TemplatesResolve
  <2> QED
    BY <2>2, <2>3
<1> QED
  BY <1>2, <1>3, <1>4, <1>5

(* The property is inductive as it stands. *)
EnvelopeInv ==
  /\ E!TypeOK /\ E!TemplatesResolve /\ E!WorstWordCounts
  /\ part \in {"severity", "done"} => BodyIsFaithful(body)

\* A log begins with no body.
LEMMA EnvelopeInit == E!Init => EnvelopeInv
<1> SUFFICES ASSUME E!Init PROVE EnvelopeInv
  OBVIOUS
<1>1. part = "name" /\ logName = "" /\ words = {} /\ severity = 3 /\ DOMAIN body = {} /\ E!Range(body) = {}
  BY DEF E!Init, E!Info, E!Range
<1>2. severity \in E!Severity
  <2>1. severity = 3
    BY DEF E!Init, E!Info
  <2>2. 3 \in E!Severity
    BY DEF E!Severity
  <2> QED
    BY <2>1, <2>2
<1>3. E!TypeOK
  BY <1>1, <1>2 DEF E!Init, E!TypeOK
<1> QED
  BY <1>1, <1>3 DEF EnvelopeInv, E!TemplatesResolve, E!WorstWordCounts

\* Each stage keeps what the stages before it have made.
LEMMA EnvelopeNext == EnvelopeInv /\ [E!Next]_E!vars => EnvelopeInv'
<1> SUFFICES ASSUME EnvelopeInv, [E!Next]_E!vars PROVE EnvelopeInv'
  OBVIOUS
<1>t. E!TypeOK
  BY DEF EnvelopeInv
<1>1. CASE E!Name
  <2>1. part' = "body" /\ UNCHANGED <<log, configured, logMctx, add, customKeys, detect, body, words, severity>>
    BY <1>1 DEF E!Name, E!input
  <2>2. E!TypeOK'
    BY <1>t, <1>1, <2>1, NameResolves DEF E!TypeOK
  <2> QED
    BY <1>t, <1>1, <2>1, <2>2, NameResolves DEF EnvelopeInv, E!WorstWordCounts
<1>2. CASE E!Wrap
  <2>1. /\ part = "body" /\ part' = "severity"
        /\ UNCHANGED <<log, configured, logMctx, add, customKeys, detect, logName, words, severity>>
        /\ body' = IF E!HasMetadata THEN E!Enveloped
                   ELSE IF "cw.tags" \in logMctx THEN E!Tagged ELSE E!Raw
    BY <1>2 DEF E!Wrap, E!input
  <2>2. BodyIsFaithful(body')
    BY <1>t, <2>1, EnvelopedIsFaithful, TaggedIsFaithful, RawIsFaithful
  <2>3. DOMAIN body' \subseteq E!BodyFields /\ E!Range(body') \subseteq {"log", "own", "metadata", "custom", "tags"}
    <3>1. DOMAIN body' \subseteq E!BodyFields
      BY <2>2 DEF BodyIsFaithful
    <3>2. \A k \in DOMAIN body' : body'[k] \in {"log", "own", "metadata", "custom", "tags"}
      BY <2>2 DEF BodyIsFaithful
    <3>3. \A v \in E!Range(body') : \E k \in DOMAIN body' : v = body'[k]
      BY DEF E!Range
    <3> QED
      BY <3>1, <3>2, <3>3
  <2>4. E!TypeOK'
    BY <1>t, <2>1, <2>3 DEF E!TypeOK
  <2>5. BodyIsFaithful(body)'
    BY <2>1, <2>2 DEF BodyIsFaithful
  <2> QED
    BY <2>1, <2>4, <2>5 DEF EnvelopeInv, E!TemplatesResolve, E!WorstWordCounts
<1>3. CASE E!Grade
  <2>1. /\ part = "severity" /\ part' = "done" /\ words' \in SUBSET E!Severity
        /\ severity' = E!SeverityOf(words')
        /\ UNCHANGED <<log, configured, logMctx, add, customKeys, detect, logName, body>>
    BY <1>3 DEF E!Grade, E!input
  <2>2. /\ severity' \in E!Severity
        /\ detect => \A w \in words' : w >= E!Info => severity' >= w
        /\ ~ detect => severity' = E!Info
    BY <2>1, WorstWord
  <2>3. E!TypeOK'
    BY <1>t, <2>1, <2>2 DEF E!TypeOK
  <2> QED
    BY <2>1, <2>2, <2>3 DEF EnvelopeInv, E!TemplatesResolve, E!WorstWordCounts, BodyIsFaithful
<1>4. CASE UNCHANGED E!vars
  <2>1. UNCHANGED <<log, configured, logMctx, add, customKeys, detect, part, logName, body, words, severity>>
    BY <1>4 DEF E!vars, E!input
  <2>2. E!TypeOK'
    BY <1>t, <2>1 DEF E!TypeOK
  <2> QED
    BY <2>1, <2>2 DEF EnvelopeInv, E!TemplatesResolve, E!WorstWordCounts, BodyIsFaithful
<1> QED
  BY <1>1, <1>2, <1>3, <1>4 DEF E!Next

(* For any fields of a log and any custom keys: a template is never a name *)
(* as it stands, the log can be read back from its body unless a custom    *)
(* key is called "message", the metadata are those configured unless a     *)
(* custom key is called like one, and the worst word counts.               *)
THEOREM EnvelopeIsFaithfulHolds == E!Spec => []EnvelopeIsFaithful
<1>1. EnvelopeInv => EnvelopeIsFaithful
  BY DEF EnvelopeIsFaithful, EnvelopeInv, BodyIsFaithful, E!EnvelopeIsFaithful, E!LogIsKept, E!MetadataAsConfigured
<1> QED
  BY <1>1, EnvelopeInit, EnvelopeNext, PTL DEF E!Spec

-----------------------------------------------------------------------------
(* Module EcrScan. *)

(* Where the first m attributes give a value for a key, and what a search  *)
(* through them has come to.                                               *)
Given(key, attributes, default, m) ==
  {n \in 1 .. m : attributes[n].key = key /\ attributes[n].value \notin {"absent", default}}

Search(key, attributes, default, m, value) ==
  LET given == Given(key, attributes, default, m)
  IN  IF given = {} THEN value = default
      ELSE \E n \in given : value = attributes[n].value /\ \A o \in given : n <= o

Text == Values \union {"absent", "NO_PACKAGE", "NO_VERSION", "counts", "by severity"}
Logged == Nat \X Text \X Text

Reports == {k \in 1 .. Len(scanLogs) : scanLogs[k] # Ecr!Summary}

ScanTypeOK ==
  /\ findings \in Seq(Ecr!Findings)
  /\ listed \in BOOLEAN /\ counted \in BOOLEAN
  /\ scanAnswer \in {"none", "ok", "error"}
  /\ atFinding \in 0 .. Len(Ecr!Page) + 1
  /\ atAttribute \in Nat
  /\ package \in Text /\ packageVersion \in Text
  /\ scanLogs \in Seq(Logged)

(* The finding in hand, whose first attributes have been searched. *)
FindingInHand ==
  atAttribute > 0 =>
    /\ atFinding \in 1 .. Len(Ecr!Page)
    /\ Ecr!Current # Ecr!NoList
    /\ atAttribute <= Len(Ecr!Current) + 1
    /\ Search("package_name", Ecr!Current, "NO_PACKAGE", atAttribute - 1, package)
    /\ Search("package_version", Ecr!Current, "NO_VERSION", atAttribute - 1, packageVersion)

(* The logs are those of the findings before it. *)
Reported ==
  /\ \A k \in Reports : /\ scanLogs[k][1] \in 1 .. Len(Ecr!Page) /\ scanLogs[k][1] < atFinding
                        /\ Ecr!Page[scanLogs[k][1]] # Ecr!NoList
  /\ \A n \in 1 .. Len(Ecr!Page) :
       n < atFinding /\ Ecr!Page[n] # Ecr!NoList => \E k \in Reports : scanLogs[k][1] = n
  /\ \A k, n \in Reports : k < n => scanLogs[k][1] < scanLogs[n][1]
  /\ scanAnswer = "none" => Reports = 1 .. Len(scanLogs)
  /\ scanAnswer = "none" /\ atFinding > 0 => listed
  /\ atFinding = 0 => scanLogs = <<>>

ScanInv == ScanTypeOK /\ FindingInHand /\ Reported /\ Ecr!PackageIsOwn /\ Ecr!ScanIsComplete

-----------------------------------------------------------------------------
\* A page is a sequence of findings.
LEMMA PageFacts ==
  ASSUME Ecr!ConstantsOK, findings \in Seq(Ecr!Findings)
  PROVE  /\ Ecr!Page \in Seq(Ecr!Findings) /\ Len(Ecr!Page) \in Nat
         /\ \A n \in 1 .. Len(Ecr!Page) : Ecr!Page[n] \in Ecr!Findings
<1>1. Len(findings) \in Nat /\ PageSize \in Nat
  BY DEF Ecr!ConstantsOK
<1> DEFINE m == IF Len(findings) < PageSize THEN Len(findings) ELSE PageSize
<1>2. m \in Nat /\ m <= Len(findings)
  BY <1>1
<1>3. Ecr!Page = SubSeq(findings, 1, m)
  BY DEF Ecr!Page
<1> HIDE DEF m
<1> QED
  BY <1>1, <1>2, <1>3

\* A finding with attributes is a sequence of them.
LEMMA FindingFacts ==
  ASSUME Ecr!ConstantsOK, NEW f \in Ecr!Findings, f # Ecr!NoList
  PROVE  /\ Len(f) \in Nat /\ DOMAIN f = 1 .. Len(f)
         /\ \A n \in 1 .. Len(f) : f[n] \in Ecr!Attributes
<1>1. PICK m \in 0 .. MaxAttributes : f \in [1 .. m -> Ecr!Attributes]
  BY DEF Ecr!Findings, Ecr!BoundedSeq, Ecr!SeqOf
<1>2. m \in Nat /\ f \in Seq(Ecr!Attributes) /\ Len(f) = m
  BY <1>1 DEF Ecr!ConstantsOK
<1> QED
  BY <1>1, <1>2

(* One attribute more. *)
LEMMA SearchStep ==
  ASSUME NEW key, NEW attributes, NEW default, NEW value, NEW m \in Nat,
         Search(key, attributes, default, m, value),
         NEW after,
         after = IF value = default /\ attributes[m + 1].key = key
                  THEN Ecr!Or(attributes[m + 1].value, default) ELSE value
  PROVE  Search(key, attributes, default, m + 1, after)
<1> DEFINE old == Given(key, attributes, default, m)
           new == Given(key, attributes, default, m + 1)
           hit == attributes[m + 1].key = key /\ attributes[m + 1].value \notin {"absent", default}
<1>1. /\ \A n \in old : n \in new /\ n \in 1 .. m /\ attributes[n].value # default
      /\ \A n \in new : n \in old \/ (n = m + 1 /\ hit)
      /\ hit => m + 1 \in new
  BY DEF Given
<1>2. CASE old # {}
  <2>1. PICK n \in old : value = attributes[n].value /\ \A o \in old : n <= o
    BY <1>2 DEF Search
  <2>2. after = value
    BY <1>1, <2>1
  <2>3. \A o \in new : n <= o
    BY <1>1, <2>1
  <2>4. n \in new
    BY <1>1, <2>1
  <2> QED
    BY <2>1, <2>2, <2>3, <2>4 DEF Search
<1>3. CASE old = {} /\ hit
  <2>1. value = default /\ after = attributes[m + 1].value
    BY <1>3 DEF Search, Ecr!Or
  <2>2. new = {m + 1} /\ m + 1 <= m + 1
    BY <1>1, <1>3
  <2> QED
    BY <2>1, <2>2 DEF Search
<1>4. CASE old = {} /\ ~ hit
  <2>1. value = default /\ after = default
    BY <1>4 DEF Search, Ecr!Or
  <2>2. new = {}
    BY <1>1, <1>4
  <2> QED
    BY <2>1, <2>2 DEF Search
<1> QED
  BY <1>2, <1>3, <1>4

(* A search through all attributes has found the first value. *)
LEMMA SearchEnds ==
  ASSUME NEW key, NEW attributes, NEW default, NEW value, Len(attributes) \in Nat,
         Search(key, attributes, default, Len(attributes), value)
  PROVE  value = Ecr!FirstOf(key, attributes, default)
<1> DEFINE given == Given(key, attributes, default, Len(attributes))
<1>0. given \subseteq Nat
  BY DEF Given
<1>1. Ecr!FirstOf(key, attributes, default) =
        IF given = {} THEN default ELSE attributes[Ecr!Min(given)].value
  BY DEF Ecr!FirstOf, Given
<1>2. CASE given = {}
  BY <1>1, <1>2 DEF Search
<1>3. CASE given # {}
  <2>1. PICK n \in given : value = attributes[n].value /\ \A o \in given : n <= o
    BY <1>3 DEF Search
  <2> HIDE DEF given
  <2>2. Ecr!Min(given) = CHOOSE x \in given : \A y \in given : x <= y
    BY DEF Ecr!Min
  <2>3. Ecr!Min(given) \in given /\ \A y \in given : Ecr!Min(given) <= y
    BY <2>1, <2>2
  <2>4. Ecr!Min(given) <= n /\ n <= Ecr!Min(given) /\ n \in Nat /\ Ecr!Min(given) \in Nat
    BY <1>0, <2>1, <2>3
  <2>5. n = Ecr!Min(given)
    BY <2>4
  <2> QED
    BY <1>1, <1>3, <2>1, <2>5
<1> QED
  BY <1>2, <1>3

(* What appending a log does. *)
Appended(t, s, e) ==
  /\ t \in Seq(Logged) /\ Len(s) \in Nat /\ Len(t) = Len(s) + 1
  /\ \A k \in 1 .. Len(s) : t[k] = s[k]
  /\ t[Len(s) + 1] = e

\* One more log leaves those before it as they are.
LEMMA LogAppended ==
  ASSUME NEW s \in Seq(Logged), NEW e \in Logged, NEW t, t = Append(s, e)
  PROVE  Appended(t, s, e)
BY DEF Appended

\* A scan begins before its first finding.
LEMMA ScanInit == Ecr!ConstantsOK /\ Ecr!Init => ScanInv
<1> SUFFICES ASSUME Ecr!ConstantsOK, Ecr!Init PROVE ScanInv
  OBVIOUS
<1>1. findings \in Seq(Ecr!Findings)
  <2>1. PICK m \in 0 .. MaxFindings : findings \in [1 .. m -> Ecr!Findings]
    BY DEF Ecr!Init, Ecr!BoundedSeq, Ecr!SeqOf
  <2> QED
    BY <2>1 DEF Ecr!ConstantsOK
<1>2. /\ atFinding = 0 /\ atAttribute = 0 /\ package = "NO_PACKAGE" /\ packageVersion = "NO_VERSION"
      /\ scanLogs = <<>> /\ scanAnswer = "none" /\ listed \in BOOLEAN /\ counted \in BOOLEAN
  BY DEF Ecr!Init
<1>3. ScanTypeOK
  BY <1>1, <1>2, PageFacts DEF ScanTypeOK, Text
<1>4. Reports = {} /\ Len(scanLogs) = 0
  BY <1>2 DEF Reports
<1>5. Reported
  BY <1>1, <1>2, <1>4, PageFacts DEF Reported
<1>6. FindingInHand /\ Ecr!PackageIsOwn /\ Ecr!ScanIsComplete
  BY <1>2, <1>4 DEF FindingInHand, Ecr!PackageIsOwn, Ecr!ScanIsComplete
<1> QED
  BY <1>3, <1>5, <1>6 DEF ScanInv

\* Each attribute read keeps the logs those of the findings passed.
LEMMA ScanNext == Ecr!ConstantsOK /\ ScanInv /\ [Ecr!Next]_Ecr!vars => ScanInv'
<1> SUFFICES ASSUME Ecr!ConstantsOK, ScanInv, [Ecr!Next]_Ecr!vars PROVE ScanInv'
  OBVIOUS
<1>t. /\ ScanTypeOK /\ FindingInHand /\ Reported /\ Ecr!PackageIsOwn /\ Ecr!ScanIsComplete
      /\ Len(Ecr!Page) \in Nat /\ Len(scanLogs) \in Nat
      /\ \A n \in 1 .. Len(Ecr!Page) : Ecr!Page[n] \in Ecr!Findings
  BY PageFacts DEF ScanInv, ScanTypeOK
<1>f. UNCHANGED <<findings, listed, counted>>
  BY DEF Ecr!Next, Ecr!vars, Ecr!Fixed, Ecr!AskFails, Ecr!Ask, Ecr!StartFinding,
         Ecr!ReadAttribute, Ecr!PushFinding, Ecr!PushCounts
<1>p. Ecr!Page' = Ecr!Page
  BY <1>f DEF Ecr!Page
<1>1. CASE Ecr!AskFails
  <2>1. atFinding' = atFinding /\ atAttribute' = atAttribute /\ package' = package /\ packageVersion' = packageVersion /\ scanLogs' = scanLogs
        /\ atFinding = 0 /\ scanAnswer' = "error"
    BY <1>1 DEF Ecr!AskFails
  <2>2. ScanTypeOK'
    BY <1>t, <1>f, <1>p, <2>1 DEF ScanTypeOK
  <2>3. atAttribute = 0
    BY <1>t, <2>1 DEF FindingInHand, ScanTypeOK
  <2>4. Reported'
    BY <1>t, <1>p, <1>f, <2>1 DEF Reported, Reports
  <2> QED
    BY <1>t, <1>p, <2>1, <2>2, <2>3, <2>4 DEF ScanInv, FindingInHand, Ecr!PackageIsOwn, Ecr!ScanIsComplete
<1>2. CASE Ecr!Ask
  <2>1. /\ atFinding = 0 /\ scanAnswer = "none" /\ scanLogs = <<>>
        /\ atAttribute' = atAttribute /\ package' = package /\ packageVersion' = packageVersion /\ scanLogs' = scanLogs
        /\ IF listed THEN atFinding' = 1 /\ scanAnswer' = "none" ELSE atFinding' = 0 /\ scanAnswer' = "ok"
    BY <1>2, <1>t DEF Ecr!Ask, Reported
  <2>2. ScanTypeOK'
    BY <1>t, <1>f, <1>p, <2>1 DEF ScanTypeOK
  <2>3. atAttribute = 0
    BY <1>t, <2>1 DEF FindingInHand, ScanTypeOK
  <2>4. Len(scanLogs) = 0 /\ Reports = {} /\ Reports' = {}
    BY <2>1 DEF Reports
  <2>5. Reported'
    BY <1>t, <1>p, <1>f, <2>1, <2>4 DEF Reported
  <2>6. Ecr!ScanIsComplete'
    BY <1>p, <1>f, <2>1, <2>4 DEF Ecr!ScanIsComplete
  <2> QED
    BY <1>t, <1>p, <2>1, <2>2, <2>3, <2>4, <2>5, <2>6 DEF ScanInv, FindingInHand, Ecr!PackageIsOwn
<1>3. CASE Ecr!StartFinding
  <2>1. /\ scanAnswer = "none" /\ atFinding \in 1 .. Len(Ecr!Page) /\ atAttribute = 0
        /\ package' = "NO_PACKAGE" /\ packageVersion' = "NO_VERSION"
        /\ scanLogs' = scanLogs /\ scanAnswer' = scanAnswer
        /\ IF Ecr!Current = Ecr!NoList THEN atFinding' = atFinding + 1 /\ atAttribute' = 0 ELSE atFinding' = atFinding /\ atAttribute' = 1
    BY <1>3 DEF Ecr!StartFinding, Ecr!InLoop
  <2>2. ScanTypeOK'
    <3>1. package' \in Text /\ packageVersion' \in Text
      BY <2>1 DEF Text
    <3>2. atFinding' \in 0 .. Len(Ecr!Page) + 1 /\ atAttribute' \in Nat
      BY <1>t, <2>1
    <3> QED
      BY <1>t, <1>f, <1>p, <2>1, <3>1, <3>2 DEF ScanTypeOK
  <2>3. /\ atFinding' = atFinding => Ecr!Current' = Ecr!Current
        /\ Ecr!Current = Ecr!Page[atFinding]
    BY <1>p DEF Ecr!Current
  <2>4. FindingInHand'
    <3>1. CASE Ecr!Current = Ecr!NoList
      BY <2>1, <3>1 DEF FindingInHand
    <3>2. CASE Ecr!Current # Ecr!NoList
      <4>1. Len(Ecr!Current) \in Nat
        BY <1>t, <2>1, <2>3, <3>2, FindingFacts
      <4>2. \A key, default : Given(key, Ecr!Current, default, 0) = {}
        BY DEF Given
      <4>3. \A key, default : Search(key, Ecr!Current, default, 0, default)
        BY <4>2 DEF Search
      <4> QED
        BY <1>p, <2>1, <2>3, <3>2, <4>1, <4>3 DEF FindingInHand
    <3> QED
      BY <3>1, <3>2
  <2>5. Reported'
    <3>1. Reports' = Reports
      BY <2>1 DEF Reports
    <3>2. CASE Ecr!Current = Ecr!NoList
      <4>1. atFinding' = atFinding + 1 /\ Ecr!Page[atFinding] = Ecr!NoList
        BY <2>1, <2>3, <3>2
      <4>2. \A k \in Reports : scanLogs[k][1] \in 1 .. Len(Ecr!Page) /\ scanLogs[k][1] < atFinding + 1
        BY <1>t, <2>1 DEF Reported
      <4>3. \A n \in 1 .. Len(Ecr!Page) :
              n < atFinding + 1 /\ Ecr!Page[n] # Ecr!NoList => \E k \in Reports : scanLogs[k][1] = n
        BY <1>t, <2>1, <4>1 DEF Reported
      <4>4. atFinding' # 0 /\ listed
        BY <1>t, <2>1, <4>1 DEF Reported
      <4> QED
        BY <1>t, <1>p, <1>f, <2>1, <3>1, <4>1, <4>2, <4>3, <4>4 DEF Reported
    <3>3. CASE Ecr!Current # Ecr!NoList
      BY <1>t, <1>p, <1>f, <2>1, <3>1, <3>3 DEF Reported
    <3> QED
      BY <3>2, <3>3
  <2> QED
    BY <1>t, <1>p, <2>1, <2>2, <2>4, <2>5 DEF ScanInv, Ecr!PackageIsOwn, Ecr!ScanIsComplete
<1>4. CASE Ecr!ReadAttribute
  <2> DEFINE a == Ecr!Current[atAttribute]
  <2>1. /\ scanAnswer = "none" /\ atFinding \in 1 .. Len(Ecr!Page) /\ atAttribute \in 1 .. Len(Ecr!Current)
        /\ package' = IF package = "NO_PACKAGE" /\ a.key = "package_name"
                     THEN Ecr!Or(a.value, "NO_PACKAGE") ELSE package
        /\ packageVersion' = IF packageVersion = "NO_VERSION" /\ a.key = "package_version"
                        THEN Ecr!Or(a.value, "NO_VERSION") ELSE packageVersion
        /\ atFinding' = atFinding /\ atAttribute' = atAttribute + 1 /\ scanLogs' = scanLogs /\ scanAnswer' = scanAnswer
    BY <1>4 DEF Ecr!ReadAttribute, Ecr!InLoop
  <2>2. Ecr!Current' = Ecr!Current /\ Ecr!Current \in Ecr!Findings /\ Ecr!Current # Ecr!NoList
    BY <1>t, <1>p, <2>1 DEF Ecr!Current, FindingInHand, ScanTypeOK
  <2>3. Len(Ecr!Current) \in Nat /\ a \in Ecr!Attributes
    BY <2>1, <2>2, FindingFacts
  <2>4. a.value \in Text /\ package' \in Text /\ packageVersion' \in Text
    <3>1. a.value \in Text
      BY <2>3 DEF Ecr!Attributes, Text
    <3>2. \A default \in Text : Ecr!Or(a.value, default) \in Text
      BY <3>1 DEF Ecr!Or
    <3>3. "NO_PACKAGE" \in Text /\ "NO_VERSION" \in Text /\ package \in Text /\ packageVersion \in Text
      BY <1>t DEF ScanTypeOK, Text
    <3> HIDE DEF a
    <3> QED
      BY <2>1, <3>1, <3>2, <3>3
  <2>5. ScanTypeOK'
    BY <1>t, <1>f, <1>p, <2>1, <2>4 DEF ScanTypeOK
  <2>6. /\ Search("package_name", Ecr!Current, "NO_PACKAGE", atAttribute, package')
        /\ Search("package_version", Ecr!Current, "NO_VERSION", atAttribute, packageVersion')
    <3> DEFINE m == atAttribute - 1
    <3>1. m \in Nat /\ atAttribute = m + 1 /\ a = Ecr!Current[m + 1]
      BY <2>1, <2>3
    <3>2. /\ Search("package_name", Ecr!Current, "NO_PACKAGE", m, package)
          /\ Search("package_version", Ecr!Current, "NO_VERSION", m, packageVersion)
      BY <1>t, <2>1 DEF FindingInHand
    <3> HIDE DEF m
    <3>3. Search("package_name", Ecr!Current, "NO_PACKAGE", m + 1, package')
      BY <2>1, <3>1, <3>2, SearchStep
    <3>4. Search("package_version", Ecr!Current, "NO_VERSION", m + 1, packageVersion')
      BY <2>1, <3>1, <3>2, SearchStep
    <3> QED
      BY <3>1, <3>3, <3>4
  <2>7. FindingInHand'
    <3>1. atAttribute' - 1 = atAttribute /\ atAttribute + 1 <= Len(Ecr!Current) + 1
      BY <2>1, <2>3
    <3> QED
      BY <1>p, <2>1, <2>2, <2>6, <3>1 DEF FindingInHand
  <2>8. Reported'
    BY <1>t, <1>p, <1>f, <2>1 DEF Reported, Reports
  <2> QED
    BY <1>t, <1>p, <2>1, <2>5, <2>7, <2>8 DEF ScanInv, Ecr!PackageIsOwn, Ecr!ScanIsComplete
<1>5. CASE Ecr!PushFinding
  <2> DEFINE e == <<atFinding, package, packageVersion>>
  <2>1. /\ scanAnswer = "none" /\ atFinding \in 1 .. Len(Ecr!Page) /\ atAttribute > Len(Ecr!Current)
        /\ scanLogs' = Append(scanLogs, e)
        /\ atFinding' = atFinding + 1 /\ atAttribute' = 0 /\ package' = package /\ packageVersion' = packageVersion
        /\ scanAnswer' = scanAnswer
    BY <1>5 DEF Ecr!PushFinding, Ecr!InLoop
  <2>2. Ecr!Current = Ecr!Page[atFinding] /\ Ecr!Current \in Ecr!Findings
    BY <1>t, <2>1 DEF Ecr!Current
  <2>3. e \in Logged /\ e # Ecr!Summary /\ e[1] = atFinding /\ e[2] = package /\ e[3] = packageVersion
    <3>1. atFinding \in Nat /\ atFinding # 0
      BY <1>t, <2>1
    <3>2. e \in Logged
      BY <1>t, <3>1 DEF ScanTypeOK, Logged
    <3>3. Ecr!Summary[1] = 0
      BY DEF Ecr!Summary
    <3> QED
      BY <3>1, <3>2, <3>3
  <2>4. Ecr!Current # Ecr!NoList /\ Len(Ecr!Current) \in Nat /\ atAttribute = Len(Ecr!Current) + 1
    <3>1. Ecr!Current # Ecr!NoList
      <4>1. CASE atAttribute = 0
        <5>1. CASE Ecr!Current = Ecr!NoList
          <6>1. Len(Ecr!Current) = 1
            BY <5>1 DEF Ecr!NoList
          <6> QED
            BY <2>1, <4>1, <6>1
        <5> QED
          BY <5>1
      <4>2. CASE atAttribute > 0
        BY <1>t, <4>2 DEF FindingInHand
      <4> QED
        BY <1>t, <4>1, <4>2 DEF ScanTypeOK
    <3>2. Len(Ecr!Current) \in Nat
      BY <2>2, <3>1, FindingFacts
    <3> QED
      BY <1>t, <2>1, <3>1, <3>2 DEF FindingInHand, ScanTypeOK
  <2>5. /\ package = Ecr!FirstOf("package_name", Ecr!Current, "NO_PACKAGE")
        /\ packageVersion = Ecr!FirstOf("package_version", Ecr!Current, "NO_VERSION")
    <3>1. atAttribute > 0 /\ atAttribute - 1 = Len(Ecr!Current)
      BY <2>4
    <3> QED
      BY <1>t, <2>4, <3>1, SearchEnds DEF FindingInHand
  <2> HIDE DEF e
  <2>6. Appended(scanLogs', scanLogs, e)
    BY <1>t, <2>1, <2>3, LogAppended DEF ScanTypeOK
  <2>7. /\ scanLogs' \in Seq(Logged) /\ Len(scanLogs') = Len(scanLogs) + 1
        /\ \A k \in 1 .. Len(scanLogs) : scanLogs'[k] = scanLogs[k]
        /\ scanLogs'[Len(scanLogs) + 1] = e
    BY <2>6 DEF Appended
  <2>8. ScanTypeOK'
    BY <1>t, <1>f, <1>p, <2>1, <2>7 DEF ScanTypeOK
  <2>9. Reports' = Reports \union {Len(scanLogs) + 1} /\ Reports = 1 .. Len(scanLogs)
    <3>1. Reports = 1 .. Len(scanLogs)
      BY <1>t, <2>1 DEF Reported
    <3>2. Reports' = 1 .. Len(scanLogs) + 1
      BY <1>t, <2>3, <2>7, <3>1 DEF Reports
    <3> QED
      BY <1>t, <3>1, <3>2
  <2>10. Reported'
    <3>1. \A k \in Reports' :
            \/ k \in Reports /\ scanLogs'[k] = scanLogs[k]
            \/ k = Len(scanLogs) + 1 /\ scanLogs'[k][1] = atFinding
      BY <2>3, <2>7, <2>9
    <3>2. \A k \in Reports' : /\ scanLogs'[k][1] \in 1 .. Len(Ecr!Page) /\ scanLogs'[k][1] < atFinding + 1
                              /\ Ecr!Page[scanLogs'[k][1]] # Ecr!NoList
      BY <1>t, <2>1, <2>2, <2>4, <3>1 DEF Reported
    <3>3. \A n \in 1 .. Len(Ecr!Page) :
            n < atFinding + 1 /\ Ecr!Page[n] # Ecr!NoList => \E k \in Reports' : scanLogs'[k][1] = n
      <4> SUFFICES ASSUME NEW n \in 1 .. Len(Ecr!Page), n < atFinding + 1, Ecr!Page[n] # Ecr!NoList
                   PROVE  \E k \in Reports' : scanLogs'[k][1] = n
        OBVIOUS
      <4>1. CASE n < atFinding
        <5>1. PICK k \in Reports : scanLogs[k][1] = n
          BY <1>t, <4>1 DEF Reported
        <5>2. k \in 1 .. Len(scanLogs) /\ k \in Reports'
          BY <2>9, <5>1
        <5>3. scanLogs'[k][1] = n
          BY <2>7, <5>1, <5>2
        <5> QED
          BY <5>2, <5>3
      <4>2. CASE n = atFinding
        <5>1. Len(scanLogs) + 1 \in Reports' /\ scanLogs'[Len(scanLogs) + 1][1] = n
          BY <2>3, <2>7, <2>9, <4>2
        <5> QED
          BY <5>1
      <4>3. n < atFinding \/ n = atFinding
        BY <1>t, <2>1
      <4> QED
        BY <4>1, <4>2, <4>3, Zenon
    <3>4. \A k, n \in Reports' : k < n => scanLogs'[k][1] < scanLogs'[n][1]
      <4> SUFFICES ASSUME NEW k \in Reports', NEW n \in Reports', k < n
                   PROVE  scanLogs'[k][1] < scanLogs'[n][1]
        OBVIOUS
      <4>1. k \in Reports /\ scanLogs'[k] = scanLogs[k]
        BY <1>t, <2>7, <2>9
      <4>2. scanLogs[k][1] < atFinding
        BY <1>t, <4>1 DEF Reported
      <4>3. CASE n \in Reports
        BY <1>t, <2>7, <2>9, <4>1, <4>3 DEF Reported
      <4>4. CASE n = Len(scanLogs) + 1
        BY <2>3, <2>7, <4>1, <4>2, <4>4
      <4> QED
        BY <2>9, <4>3, <4>4
    <3>5. Reports' = 1 .. Len(scanLogs')
      BY <1>t, <2>7, <2>9
    <3>6. atFinding' # 0 /\ listed'
      BY <1>t, <1>f, <2>1 DEF Reported
    <3> QED
      BY <1>p, <2>1, <3>2, <3>3, <3>4, <3>5, <3>6 DEF Reported
  <2>11. Ecr!PackageIsOwn'
    <3> SUFFICES ASSUME NEW k \in 1 .. Len(scanLogs'), scanLogs'[k] # Ecr!Summary
                 PROVE  /\ scanLogs'[k][2] =
                             Ecr!FirstOf("package_name", Ecr!Page[scanLogs'[k][1]], "NO_PACKAGE")
                        /\ scanLogs'[k][3] =
                             Ecr!FirstOf("package_version", Ecr!Page[scanLogs'[k][1]], "NO_VERSION")
      BY <1>p DEF Ecr!PackageIsOwn
    <3>1. CASE k \in 1 .. Len(scanLogs)
      BY <1>t, <2>7, <3>1 DEF Ecr!PackageIsOwn
    <3>2. CASE k = Len(scanLogs) + 1
      BY <2>2, <2>3, <2>5, <2>7, <3>2
    <3> QED
      BY <1>t, <2>7, <3>1, <3>2
  <2> QED
    BY <2>1, <2>8, <2>10, <2>11 DEF ScanInv, FindingInHand, Ecr!ScanIsComplete
<1>6. CASE Ecr!PushCounts
  <2>1. /\ scanAnswer = "none" /\ atFinding > Len(Ecr!Page) /\ atFinding > 0
        /\ scanLogs' = IF counted THEN Append(scanLogs, Ecr!Summary) ELSE scanLogs
        /\ scanAnswer' = "ok" /\ atFinding' = atFinding /\ atAttribute' = atAttribute /\ package' = package /\ packageVersion' = packageVersion
    BY <1>6 DEF Ecr!PushCounts
  <2>2. /\ scanLogs' \in Seq(Logged)
        /\ \A k \in 1 .. Len(scanLogs) : scanLogs'[k] = scanLogs[k]
        /\ IF counted THEN /\ Len(scanLogs') = Len(scanLogs) + 1
                           /\ scanLogs'[Len(scanLogs) + 1] = Ecr!Summary
                      ELSE scanLogs' = scanLogs
    <3>1. Ecr!Summary \in Logged
      BY DEF Ecr!Summary, Logged, Text
    <3>2. counted => Appended(scanLogs', scanLogs, Ecr!Summary)
      BY <1>t, <2>1, <3>1, LogAppended DEF ScanTypeOK
    <3> QED
      BY <1>t, <2>1, <3>2 DEF Appended, ScanTypeOK
  <2>3. Reports = 1 .. Len(scanLogs) /\ Reports' = Reports /\ listed /\ atAttribute = 0
    <3>1. Reports = 1 .. Len(scanLogs) /\ listed
      BY <1>t, <2>1 DEF Reported
    <3>2. Reports' = Reports
      BY <1>t, <2>2, <3>1 DEF Reports
    <3>3. atAttribute = 0
      BY <1>t, <2>1 DEF FindingInHand, ScanTypeOK
    <3> QED
      BY <3>1, <3>2, <3>3
  <2>4. ScanTypeOK' /\ FindingInHand'
    BY <1>t, <1>f, <1>p, <2>1, <2>2, <2>3 DEF ScanTypeOK, FindingInHand
  <2>5. \A k \in Reports : scanLogs'[k] = scanLogs[k]
    BY <2>2, <2>3
  <2>6. Reported'
    BY <1>t, <1>p, <1>f, <2>1, <2>3, <2>5 DEF Reported
  <2>7. Ecr!PackageIsOwn'
    <3> SUFFICES ASSUME NEW k \in 1 .. Len(scanLogs'), scanLogs'[k] # Ecr!Summary
                 PROVE  /\ scanLogs'[k][2] =
                             Ecr!FirstOf("package_name", Ecr!Page[scanLogs'[k][1]], "NO_PACKAGE")
                        /\ scanLogs'[k][3] =
                             Ecr!FirstOf("package_version", Ecr!Page[scanLogs'[k][1]], "NO_VERSION")
      BY <1>p DEF Ecr!PackageIsOwn
    <3>1. k \in 1 .. Len(scanLogs)
      BY <1>t, <2>2
    <3> QED
      BY <1>t, <2>2, <3>1 DEF Ecr!PackageIsOwn
  <2>8. Ecr!ScanIsComplete'
    <3>1. Reports = {k \in 1 .. Len(scanLogs') : scanLogs'[k] # Ecr!Summary}
      BY <2>3 DEF Reports
    <3>2. {scanLogs'[k][1] : k \in Reports} = {k \in 1 .. Len(Ecr!Page) : listed /\ Ecr!Page[k] # Ecr!NoList}
      <4>1. \A k \in Reports : scanLogs'[k][1] \in 1 .. Len(Ecr!Page) /\ Ecr!Page[scanLogs'[k][1]] # Ecr!NoList
        BY <1>t, <2>5 DEF Reported
      <4>2. \A n \in 1 .. Len(Ecr!Page) : n < atFinding
        BY <1>t, <2>1 DEF ScanTypeOK
      <4>3. \A n \in 1 .. Len(Ecr!Page) :
              Ecr!Page[n] # Ecr!NoList => \E k \in Reports : scanLogs'[k][1] = n
        BY <1>t, <2>5, <4>2 DEF Reported
      <4> QED
        BY <2>3, <4>1, <4>3
    <3>3. \A k, n \in Reports : k < n => scanLogs'[k][1] < scanLogs'[n][1]
      BY <1>t, <2>5 DEF Reported
    <3>4. (1 .. Len(scanLogs')) \ Reports = IF listed /\ counted THEN {Len(scanLogs')} ELSE {}
      BY <1>t, <2>2, <2>3
    <3> QED
      BY <1>f, <1>p, <3>1, <3>2, <3>3, <3>4 DEF Ecr!ScanIsComplete
  <2> QED
    BY <2>4, <2>6, <2>7, <2>8 DEF ScanInv
<1>7. CASE UNCHANGED Ecr!vars
  <2>1. UNCHANGED <<findings, listed, counted, atFinding, atAttribute, package, packageVersion, scanLogs, scanAnswer>>
    BY <1>7 DEF Ecr!vars
  <2>2. Ecr!Current' = Ecr!Current
    BY <1>p, <2>1 DEF Ecr!Current
  <2>3. ScanTypeOK' /\ FindingInHand' /\ Reported'
    BY <1>t, <1>p, <2>1, <2>2 DEF ScanTypeOK, FindingInHand, Reported, Reports
  <2>4. Ecr!PackageIsOwn'
    BY <1>t, <1>p, <2>1 DEF Ecr!PackageIsOwn
  <2>5. Ecr!ScanIsComplete'
    BY <1>t, <1>p, <2>1 DEF Ecr!ScanIsComplete
  <2> QED
    BY <2>3, <2>4, <2>5 DEF ScanInv
<1> QED
  BY <1>1, <1>2, <1>3, <1>4, <1>5, <1>6, <1>7 DEF Ecr!Next

(* Whatever an image's findings and the size of a page: a scan that was    *)
(* answered has one log for each finding of the page that has attributes,  *)
(* in order, each with the package of its own finding, and the counts.     *)
THEOREM ScanIsReportedHolds == Ecr!Spec => []ScanIsReported
<1>1. ScanInv => ScanIsReported
  BY DEF ScanIsReported, ScanInv, Ecr!ScanIsReported
<1>2. Ecr!Init => ScanInv
  BY ScanAssumption, ScanInit
<1>3. ScanInv /\ [Ecr!Next]_Ecr!vars => ScanInv'
  BY ScanAssumption, ScanNext
<1> QED
  BY <1>1, <1>2, <1>3, PTL DEF Ecr!Spec

-----------------------------------------------------------------------------
(* Module EventDispatch. *)

\* FlattenSeq of the instance is Flattened.
LEMMA FlattenSeqIs == ASSUME NEW ss PROVE D!FlattenSeq(ss) = Flattened(ss)
BY DEF D!FlattenSeq, Flattened, IsFlattening

\* The pieces that an escape is made of.
LEMMA Pieces ==
  " " \in D!Piece /\ "+" \in D!Piece /\ "%" \in D!Piece /\ "2B" \in D!Piece /\ "25" \in D!Piece
BY DEF D!Piece

-----------------------------------------------------------------------------
(* Decoding undoes what encoding does: the state of PercentDecode behind   *)
(* the encoded pieces of a name has put out the name.                      *)
Nothing0 == [out |-> <<>>, escape |-> FALSE]
DecodeState == [out : Seq(D!Piece), escape : BOOLEAN]

IsReading(f, key) ==
  f = [n \in 0 .. Len(key) |-> IF n = 0 THEN Nothing0 ELSE D!Decoded(f[n - 1], key[n])]

ReadOf(key) == (CHOOSE f : IsReading(f, key))[Len(key)]

\* PercentDecode is the end of a reading.
LEMMA DecodeIs ==
  ASSUME NEW key
  PROVE  D!PercentDecode(key) =
           IF ReadOf(key).escape THEN Append(ReadOf(key).out, "%") ELSE ReadOf(key).out
BY DEF D!PercentDecode, ReadOf, IsReading, Nothing0

\* One step of a reading.
LEMMA ReadingAt ==
  ASSUME NEW key, Len(key) \in Nat, NEW f, IsReading(f, key), NEW n \in 0 .. Len(key)
  PROVE  f[n] = IF n = 0 THEN Nothing0 ELSE D!Decoded(f[n - 1], key[n])
<1> DEFINE g == [m \in 0 .. Len(key) |-> IF m = 0 THEN Nothing0 ELSE D!Decoded(f[m - 1], key[m])]
<1>1. g[n] = IF n = 0 THEN Nothing0 ELSE D!Decoded(f[n - 1], key[n])
  OBVIOUS
<1>2. f = g
  BY DEF IsReading
<1> HIDE DEF g
<1> QED
  BY <1>1, <1>2

\* A key is read in one way.
LEMMA ReadingUnique ==
  ASSUME NEW s, NEW t, Begins(t, s), NEW f, NEW g, IsReading(f, s), IsReading(g, t),
         NEW k \in 0 .. Len(s)
  PROVE  f[k] = g[k]
<1> USE DEF Begins
<1> DEFINE G == {n \in Nat : n <= Len(s) => f[n] = g[n]}
<1>1. 0 \in G
  <2>1. f[0] = Nothing0
    BY ReadingAt
  <2>2. g[0] = Nothing0
    BY ReadingAt
  <2> QED
    BY <2>1, <2>2
<1>2. ASSUME NEW n \in Nat, n \in G PROVE n + 1 \in G
  <2> SUFFICES ASSUME n + 1 <= Len(s) PROVE f[n + 1] = g[n + 1]
    OBVIOUS
  <2>1. /\ n + 1 \in 0 .. Len(s) /\ n + 1 \in 0 .. Len(t) /\ n + 1 # 0 /\ (n + 1) - 1 = n
        /\ s[n + 1] = t[n + 1]
    OBVIOUS
  <2>2. f[n + 1] = D!Decoded(f[n], s[n + 1])
    <3>1. f[n + 1] = IF n + 1 = 0 THEN Nothing0 ELSE D!Decoded(f[(n + 1) - 1], s[n + 1])
      BY <2>1, ReadingAt
    <3> QED
      BY <2>1, <3>1
  <2>3. g[n + 1] = D!Decoded(g[n], t[n + 1])
    <3>1. g[n + 1] = IF n + 1 = 0 THEN Nothing0 ELSE D!Decoded(g[(n + 1) - 1], t[n + 1])
      BY <2>1, ReadingAt
    <3> QED
      BY <2>1, <3>1
  <2>4. f[n] = g[n]
    BY <1>2
  <2> QED
    BY <2>1, <2>2, <2>3, <2>4
<1>3. Nat \subseteq G
  <2> HIDE DEF G
  <2> QED
    BY <1>1, <1>2, InductionOnNat
<1>4. k \in G /\ k <= Len(s)
  BY <1>3
<1> QED
  BY <1>4

\* What has been read is a sequence of pieces.
LEMMA DecodedType ==
  ASSUME NEW acc \in DecodeState, NEW c \in D!Piece
  PROVE  D!Decoded(acc, c) \in DecodeState
<1>1. acc.out \in Seq(D!Piece) /\ acc.escape \in BOOLEAN
  BY DEF DecodeState
<1>2. Append(acc.out, "+") \in Seq(D!Piece) /\ Append(acc.out, "%") \in Seq(D!Piece)
      /\ Append(acc.out, c) \in Seq(D!Piece) /\ acc.out \o <<"%", c>> \in Seq(D!Piece)
  <2>1. "+" \in D!Piece /\ "%" \in D!Piece
    BY Pieces
  <2> QED
    BY <1>1, <2>1
<1> QED
  BY <1>1, <1>2 DEF D!Decoded, DecodeState

\* Every key can be read.
LEMMA ReadingExists ==
  ASSUME NEW key \in Seq(D!Piece)
  PROVE  \E f \in [0 .. Len(key) -> DecodeState] : IsReading(f, key)
<1> DEFINE stepAt == [k \in 1 .. Len(key) |-> [a \in DecodeState |-> D!Decoded(a, key[k])]]
<1>0. Len(key) \in Nat /\ Nothing0 \in DecodeState /\ \A k \in 1 .. Len(key) : key[k] \in D!Piece
  BY DEF Nothing0, DecodeState
<1>1. \A k \in 1 .. Len(key) : \A a \in DecodeState :
        stepAt[k][a] = D!Decoded(a, key[k]) /\ stepAt[k][a] \in DecodeState
  BY <1>0, DecodedType
<1> HIDE DEF stepAt
<1>2. PICK f \in [0 .. Len(key) -> DecodeState] : IsIteration(f, Len(key), Nothing0, stepAt)
  BY <1>0, <1>1, IterationExists
<1> DEFINE m == Len(key)
<1>3. \A k \in 0 .. m : f[k] = IF k = 0 THEN Nothing0 ELSE D!Decoded(f[k - 1], key[k])
  <2>0. m \in Nat /\ IsIteration(f, m, Nothing0, stepAt)
    BY <1>0, <1>2
  <2>1. f[0] = Nothing0 /\ \A k \in 1 .. m : f[k] = stepAt[k][f[k - 1]]
    <3> HIDE DEF m
    <3> QED
      BY <2>0, IterationAt
  <2> SUFFICES ASSUME NEW k \in 0 .. m, k # 0 PROVE f[k] = D!Decoded(f[k - 1], key[k])
    BY <2>1
  <2>2. k \in 1 .. m /\ k - 1 \in 0 .. m
    BY <2>0
  <2>3. f[k - 1] \in DecodeState
    BY <1>2, <2>2
  <2> QED
    BY <1>1, <2>1, <2>2, <2>3
<1>4. IsReading(f, key)
  BY <1>2, <1>3 DEF IsReading
<1> QED
  BY <1>2, <1>4

\* The state after a key is that of any of its readings.
LEMMA ReadBy ==
  ASSUME NEW key \in Seq(D!Piece)
  PROVE  \E f \in [0 .. Len(key) -> DecodeState] : IsReading(f, key) /\ ReadOf(key) = f[Len(key)]
<1> DEFINE h == CHOOSE f : IsReading(f, key)
<1>1. PICK f \in [0 .. Len(key) -> DecodeState] : IsReading(f, key)
  BY ReadingExists
<1>2. IsReading(h, key)
  BY <1>1
<1>3. Begins(key, key) /\ Len(key) \in 0 .. Len(key) /\ ReadOf(key) = h[Len(key)]
  BY DEF Begins, ReadOf
<1> HIDE DEF h
<1>4. h[Len(key)] = f[Len(key)]
  BY <1>1, <1>2, <1>3, ReadingUnique
<1> QED
  BY <1>1, <1>3, <1>4

\* Before the first piece nothing has been read.
LEMMA ReadEmpty == ReadOf(<<>>) = Nothing0
<1>1. PICK f \in [0 .. Len(<<>>) -> DecodeState] : IsReading(f, <<>>) /\ ReadOf(<<>>) = f[Len(<<>>)]
  <2>1. <<>> \in Seq(D!Piece)
    OBVIOUS
  <2> QED
    BY <2>1, ReadBy
<1>2. Len(<<>>) = 0 /\ 0 \in 0 .. Len(<<>>) /\ Len(<<>>) \in Nat
  OBVIOUS
<1>3. f[0] = Nothing0
  BY <1>1, <1>2, ReadingAt
<1> QED
  BY <1>1, <1>2, <1>3

\* One more piece is one more step.
LEMMA ReadAppend ==
  ASSUME NEW key \in Seq(D!Piece), NEW c \in D!Piece
  PROVE  ReadOf(Append(key, c)) = D!Decoded(ReadOf(key), c)
<1> DEFINE more == Append(key, c)
<1>1. /\ more \in Seq(D!Piece) /\ Len(key) \in Nat /\ Len(more) = Len(key) + 1
      /\ \A k \in 1 .. Len(key) : key[k] = more[k]
      /\ more[Len(key) + 1] = c
  OBVIOUS
<1> HIDE DEF more
<1>2. PICK g \in [0 .. Len(more) -> DecodeState] : IsReading(g, more) /\ ReadOf(more) = g[Len(more)]
  BY <1>1, ReadBy
<1>3. PICK f \in [0 .. Len(key) -> DecodeState] : IsReading(f, key) /\ ReadOf(key) = f[Len(key)]
  BY ReadBy
<1>4. Begins(more, key) /\ Len(key) \in 0 .. Len(key)
  BY <1>1 DEF Begins
<1>5. f[Len(key)] = g[Len(key)]
  BY <1>2, <1>3, <1>4, ReadingUnique
<1>6. g[Len(more)] = D!Decoded(g[Len(key)], c)
  <2>1. Len(more) \in Nat /\ Len(more) \in 0 .. Len(more) /\ Len(more) # 0
        /\ Len(more) - 1 = Len(key) /\ more[Len(more)] = c
    BY <1>1
  <2>2. g[Len(more)] = IF Len(more) = 0 THEN Nothing0 ELSE D!Decoded(g[Len(more) - 1], more[Len(more)])
    BY <1>2, <2>1, ReadingAt
  <2> QED
    BY <2>1, <2>2
<1> QED
  BY <1>2, <1>3, <1>5, <1>6 DEF more

(* Encoding a name piece by piece, and what a plus sign becomes.           *)
LEMMA EncodedType ==
  ASSUME NEW c \in D!Piece
  PROVE  D!Encoded(c) \in Seq(D!Piece)
<1>1. "+" \in D!Piece /\ "%" \in D!Piece /\ "2B" \in D!Piece /\ "25" \in D!Piece
  BY Pieces
<1>2. <<"+">> \in Seq(D!Piece) /\ <<"%", "2B">> \in Seq(D!Piece) /\ <<"%", "25">> \in Seq(D!Piece)
      /\ <<c>> \in Seq(D!Piece)
  BY <1>1
<1> QED
  BY <1>2 DEF D!Encoded

\* A name with one more piece has the encoding of the piece appended.
LEMMA EncodeAppend ==
  ASSUME NEW name \in Seq(D!Piece), NEW c \in D!Piece
  PROVE  /\ D!Encode(name) \in Seq(D!Piece)
         /\ D!Encode(Append(name, c)) = D!Encode(name) \o D!Encoded(c)
<1> DEFINE enc(s) == [i \in 1 .. Len(s) |-> D!Encoded(s[i])]
           Q == Seq(D!Piece)
<1>1. \A s \in Seq(D!Piece) : Len(s) \in Nat /\ \A i \in 1 .. Len(s) : D!Encoded(s[i]) \in Q
  BY EncodedType
<1>2. \A s \in Seq(D!Piece) : enc(s) \in Seq(Q) /\ Len(enc(s)) = Len(s)
  <2> HIDE DEF Q
  <2> QED
    BY <1>1
<1>3. \A s \in Seq(D!Piece) : D!Encode(s) = Flattened(enc(s))
  BY FlattenSeqIs DEF D!Encode
<1>4. enc(name) \in Seq(Q) /\ Len(enc(name)) = Len(name)
  BY <1>2
<1>5. enc(Append(name, c)) = Append(enc(name), D!Encoded(c))
  <2> DEFINE more == Append(name, c)
             ss == enc(name)
             e == D!Encoded(c)
  <2>1. /\ more \in Seq(D!Piece) /\ Len(more) = Len(name) + 1 /\ Len(name) \in Nat
        /\ \A i \in 1 .. Len(name) : more[i] = name[i]
        /\ more[Len(name) + 1] = c
    BY AppendProperties
  <2>2. e \in Q
    BY EncodedType
  <2> HIDE DEF more
  <2>3. enc(more) \in Seq(Q) /\ Len(enc(more)) = Len(name) + 1
    BY <1>2, <2>1
  <2>4. /\ \A i \in 1 .. Len(name) : enc(more)[i] = ss[i]
        /\ enc(more)[Len(name) + 1] = e
    BY <2>1
  <2>5. ss \in Seq(Q) /\ Len(ss) = Len(name)
    BY <1>4
  <2> HIDE DEF enc, Q, ss, e
  <2>6. /\ Append(ss, e) \in Seq(Q) /\ Len(Append(ss, e)) = Len(name) + 1
        /\ \A i \in 1 .. Len(name) : Append(ss, e)[i] = ss[i]
        /\ Append(ss, e)[Len(name) + 1] = e
    BY <2>2, <2>5, AppendProperties
  <2>7. \A i \in 1 .. Len(enc(more)) : enc(more)[i] = Append(ss, e)[i]
    BY <2>1, <2>3, <2>4, <2>6
  <2>8. enc(more) = Append(ss, e)
    BY <2>3, <2>6, <2>7, SeqEqual
  <2> QED
    BY <2>8 DEF more, ss, e
<1>6. D!Encode(name) \in Seq(D!Piece)
  <2> HIDE DEF enc
  <2> QED
    BY <1>3, <1>4, FlattenedType
<1>7. D!Encode(Append(name, c)) = Flattened(Append(enc(name), D!Encoded(c)))
  <2>1. Append(name, c) \in Seq(D!Piece)
    BY AppendProperties
  <2>2. D!Encode(Append(name, c)) = Flattened(enc(Append(name, c)))
    BY <1>3, <2>1
  <2> QED
    BY <1>5, <2>2
<1> HIDE DEF enc
<1>8. Flattened(Append(enc(name), D!Encoded(c))) = Flattened(enc(name)) \o D!Encoded(c)
  BY <1>4, EncodedType, FlattenedAppend
<1> QED
  BY <1>3, <1>6, <1>7, <1>8

Plus(c) == IF c = "+" THEN " " ELSE c

\* Replacing plus signs goes piece by piece.
LEMMA PlusAppend ==
  ASSUME NEW key \in Seq(D!Piece), NEW c \in D!Piece
  PROVE  /\ D!PlusToSpace(key) \in Seq(D!Piece)
         /\ D!PlusToSpace(Append(key, c)) = Append(D!PlusToSpace(key), Plus(c))
<1>1. \A s : D!PlusToSpace(s) = [i \in 1 .. Len(s) |-> Plus(s[i])]
  BY DEF D!PlusToSpace, Plus
<1>2. \A a \in D!Piece : Plus(a) \in D!Piece
  BY Pieces DEF Plus
<1>3. \A s \in Seq(D!Piece) : /\ D!PlusToSpace(s) \in Seq(D!Piece)
                               /\ Len(D!PlusToSpace(s)) = Len(s) /\ Len(s) \in Nat
                               /\ \A i \in 1 .. Len(s) : D!PlusToSpace(s)[i] = Plus(s[i])
  <2> SUFFICES ASSUME NEW s \in Seq(D!Piece)
               PROVE  /\ D!PlusToSpace(s) \in Seq(D!Piece)
                      /\ Len(D!PlusToSpace(s)) = Len(s) /\ Len(s) \in Nat
                      /\ \A i \in 1 .. Len(s) : D!PlusToSpace(s)[i] = Plus(s[i])
    OBVIOUS
  <2> DEFINE t == [i \in 1 .. Len(s) |-> Plus(s[i])]
  <2>1. Len(s) \in Nat /\ \A i \in 1 .. Len(s) : Plus(s[i]) \in D!Piece
    BY <1>2
  <2>2. t \in Seq(D!Piece) /\ Len(t) = Len(s) /\ \A i \in 1 .. Len(s) : t[i] = Plus(s[i])
    BY <2>1
  <2>3. D!PlusToSpace(s) = t
    BY <1>1
  <2> HIDE DEF t
  <2> QED
    BY <2>1, <2>2, <2>3
<1> DEFINE more == Append(key, c)
           out == D!PlusToSpace(key)
           e == Plus(c)
<1>4. /\ more \in Seq(D!Piece) /\ Len(more) = Len(key) + 1 /\ Len(key) \in Nat
      /\ \A i \in 1 .. Len(key) : more[i] = key[i]
      /\ more[Len(key) + 1] = c
  BY AppendProperties
<1>5. /\ out \in Seq(D!Piece) /\ Len(out) = Len(key) /\ e \in D!Piece
      /\ \A i \in 1 .. Len(key) : out[i] = Plus(key[i])
  BY <1>2, <1>3
<1> HIDE DEF more, out
<1>6. /\ D!PlusToSpace(more) \in Seq(D!Piece) /\ Len(D!PlusToSpace(more)) = Len(key) + 1
      /\ \A i \in 1 .. Len(key) : D!PlusToSpace(more)[i] = out[i]
      /\ D!PlusToSpace(more)[Len(key) + 1] = e
  BY <1>3, <1>4, <1>5
<1> HIDE DEF e
<1>7. /\ Append(out, e) \in Seq(D!Piece) /\ Len(Append(out, e)) = Len(key) + 1
      /\ \A i \in 1 .. Len(key) : Append(out, e)[i] = out[i]
      /\ Append(out, e)[Len(key) + 1] = e
  BY <1>5, AppendProperties
<1>8. \A i \in 1 .. Len(D!PlusToSpace(more)) : D!PlusToSpace(more)[i] = Append(out, e)[i]
  BY <1>4, <1>6, <1>7
<1>9. D!PlusToSpace(more) = Append(out, e)
  BY <1>6, <1>7, <1>8, SeqEqual
<1> QED
  BY <1>5, <1>9 DEF more, out, e

\* The encoding of a piece is read as the piece.
LEMMA ReadPiece ==
  ASSUME NEW name \in Seq(D!Piece), NEW key \in Seq(D!Piece), NEW c \in D!Piece,
         ReadOf(D!PlusToSpace(key)) = [out |-> name, escape |-> FALSE]
  PROVE  ReadOf(D!PlusToSpace(key \o D!Encoded(c))) = [out |-> Append(name, c), escape |-> FALSE]
<1> DEFINE key2 == D!PlusToSpace(key)
<1>0. "+" \in D!Piece /\ "%" \in D!Piece /\ "2B" \in D!Piece /\ "25" \in D!Piece
  BY Pieces
<1>1. key2 \in Seq(D!Piece)
  BY PlusAppend
<1>2. ASSUME NEW a \in D!Piece
      PROVE  /\ key \o <<a>> = Append(key, a)
             /\ D!PlusToSpace(key \o <<a>>) = Append(key2, Plus(a))
             /\ ReadOf(Append(key2, Plus(a))) = D!Decoded(ReadOf(key2), Plus(a))
             /\ Plus(a) \in D!Piece /\ Append(key2, Plus(a)) \in Seq(D!Piece)
  <2>1. key \o <<a>> = Append(key, a)
    OBVIOUS
  <2>2. Plus(a) \in D!Piece
    BY Pieces DEF Plus
  <2>3. D!PlusToSpace(Append(key, a)) = Append(key2, Plus(a))
    BY PlusAppend
  <2> HIDE DEF key2
  <2>4. ReadOf(Append(key2, Plus(a))) = D!Decoded(ReadOf(key2), Plus(a))
    BY <1>1, <2>2, ReadAppend
  <2>5. Append(key2, Plus(a)) \in Seq(D!Piece)
    BY <1>1, <2>2
  <2> QED
    BY <2>1, <2>2, <2>3, <2>4, <2>5
<1>3. ASSUME NEW b \in D!Piece, b # "+"
      PROVE  ReadOf(D!PlusToSpace(key \o <<"%", b>>)) = D!Decoded(D!Decoded(ReadOf(key2), "%"), b)
  <2>1. key \o <<"%", b>> = Append(Append(key, "%"), b) /\ Append(key, "%") \in Seq(D!Piece)
    BY <1>0
  <2>2. D!PlusToSpace(Append(Append(key, "%"), b)) = Append(D!PlusToSpace(Append(key, "%")), Plus(b))
    BY <1>0, <2>1, PlusAppend
  <2>3. D!PlusToSpace(Append(key, "%")) = Append(key2, "%")
    <3>1. D!PlusToSpace(Append(key, "%")) = Append(key2, Plus("%"))
      BY <1>0, PlusAppend
    <3>2. Plus("%") = "%"
      BY DEF Plus
    <3> QED
      BY <3>1, <3>2
  <2>4. Plus(b) = b
    BY <1>3 DEF Plus
  <2> HIDE DEF key2
  <2>5. Append(key2, "%") \in Seq(D!Piece)
    BY <1>0, <1>1
  <2>6. ReadOf(Append(key2, "%")) = D!Decoded(ReadOf(key2), "%")
    BY <1>0, <1>1, ReadAppend
  <2>7. ReadOf(Append(Append(key2, "%"), b)) = D!Decoded(ReadOf(Append(key2, "%")), b)
    BY <2>5, ReadAppend
  <2> QED
    BY <2>1, <2>2, <2>3, <2>4, <2>6, <2>7
<1>4. ReadOf(key2) = [out |-> name, escape |-> FALSE]
  OBVIOUS
<1> HIDE DEF key2
<1>5. CASE c = " "
  <2>1. D!Encoded(c) = <<"+">>
    BY <1>5 DEF D!Encoded
  <2>3. Plus("+") = " "
    BY DEF Plus
  <2>2. D!Decoded(ReadOf(key2), " ") = [out |-> Append(name, " "), escape |-> FALSE]
    BY <1>4 DEF D!Decoded
  <2> QED
    <3>1. D!PlusToSpace(key \o <<"+">>) = Append(key2, " ") /\ ReadOf(Append(key2, " ")) = D!Decoded(ReadOf(key2), " ")
      BY <1>0, <1>2, <2>3
    <3> QED
      BY <1>5, <2>1, <2>2, <3>1
<1>6. CASE c = "+"
  <2>1. D!Encoded(c) = <<"%", "2B">>
    BY <1>6 DEF D!Encoded
  <2>2. D!Decoded(ReadOf(key2), "%") = [out |-> name, escape |-> TRUE]
    BY <1>4 DEF D!Decoded
  <2>3. D!Decoded([out |-> name, escape |-> TRUE], "2B") = [out |-> Append(name, "+"), escape |-> FALSE]
    BY DEF D!Decoded
  <2> QED
    BY <1>0, <1>3, <1>6, <2>1, <2>2, <2>3
<1>7. CASE c = "%"
  <2>1. D!Encoded(c) = <<"%", "25">>
    BY <1>7 DEF D!Encoded
  <2>2. D!Decoded(ReadOf(key2), "%") = [out |-> name, escape |-> TRUE]
    BY <1>4 DEF D!Decoded
  <2>3. D!Decoded([out |-> name, escape |-> TRUE], "25") = [out |-> Append(name, "%"), escape |-> FALSE]
    BY DEF D!Decoded
  <2> QED
    BY <1>0, <1>3, <1>7, <2>1, <2>2, <2>3
<1>8. CASE c \notin {" ", "+", "%"}
  <2>1. D!Encoded(c) = <<c>> /\ Plus(c) = c
    BY <1>8 DEF D!Encoded, Plus
  <2>2. D!Decoded(ReadOf(key2), c) = [out |-> Append(name, c), escape |-> FALSE]
    <3>1. ~ ReadOf(key2).escape /\ ReadOf(key2).out = name
      BY <1>4
    <3>2. c # "%"
      BY <1>8
    <3> QED
      BY <3>1, <3>2 DEF D!Decoded
  <2> QED
    BY <1>2, <2>1, <2>2
<1> QED
  BY <1>5, <1>6, <1>7, <1>8

(* For every name, whatever characters are in it: the key of its           *)
(* notification is decoded to the name, once.                              *)
THEOREM KeyIsDecoded ==
  ASSUME NEW name \in Seq(D!Piece)
  PROVE  D!KeyOf(D!Notification(name)) = name
<1> DEFINE G == {n \in Seq(D!Piece) :
                   ReadOf(D!PlusToSpace(D!Encode(n))) = [out |-> n, escape |-> FALSE]}
<1>1. <<>> \in G
  <2>1. D!Encode(<<>>) = <<>>
    <3> DEFINE none == [i \in 1 .. Len(<<>>) |-> D!Encoded(<<>>[i])]
    <3>1. Len(none) = 0 /\ none = <<>>
      OBVIOUS
    <3>2. D!Encode(<<>>) = Flattened(none)
      BY FlattenSeqIs DEF D!Encode
    <3> HIDE DEF none
    <3> QED
      BY <3>1, <3>2, FlattenedEmpty
  <2>2. D!PlusToSpace(<<>>) = <<>>
    BY DEF D!PlusToSpace
  <2>3. <<>> \in Seq(D!Piece)
    OBVIOUS
  <2> QED
    BY <2>1, <2>2, <2>3, ReadEmpty DEF Nothing0
<1>2. ASSUME NEW n \in Seq(D!Piece), NEW c \in D!Piece, n \in G
      PROVE  Append(n, c) \in G
  <2>1. D!Encode(n) \in Seq(D!Piece)
    BY EncodeAppend
  <2>2. D!Encode(Append(n, c)) = D!Encode(n) \o D!Encoded(c)
    BY EncodeAppend
  <2>3. ReadOf(D!PlusToSpace(D!Encode(n))) = [out |-> n, escape |-> FALSE]
    BY <1>2
  <2>4. ReadOf(D!PlusToSpace(D!Encode(n) \o D!Encoded(c))) = [out |-> Append(n, c), escape |-> FALSE]
    BY <2>1, <2>3, ReadPiece
  <2>5. Append(n, c) \in Seq(D!Piece)
    OBVIOUS
  <2> QED
    BY <2>2, <2>4, <2>5
<1>3. Seq(D!Piece) \subseteq G
  <2> HIDE DEF G
  <2> QED
    BY <1>1, <1>2, InductionOnSeq
<1>4. name \in Seq(D!Piece) /\ D!Notification(name).key = D!Encode(name)
  BY DEF D!Notification
<1>5. ReadOf(D!PlusToSpace(D!Encode(name))) = [out |-> name, escape |-> FALSE]
  BY <1>3, <1>4
<1>6. D!PercentDecode(D!PlusToSpace(D!Encode(name))) = name
  BY <1>5, DecodeIs
<1> QED
  BY <1>4, <1>6 DEF D!KeyOf

-----------------------------------------------------------------------------
(* What kind of event a payload is taken for. *)
Kinds == {"S3", "Sns", "Sqs", "EcrScan", "CloudWatchLogs", "Kinesis", "Firehose", "Kafka",
          "KafkaEmpty", "Records", "Object", "Text"}
Refused == {"Text", "Object", "KafkaEmpty"}

Least(m, T) == T \in SUBSET Nat /\ m \in T /\ \A n \in T : m <= n

\* The first type that fits, by its place.
LEMMA LeastIs ==
  ASSUME NEW T, NEW m, Least(m, T)
  PROVE  D!Min(T) = m
<1>0. T \in SUBSET Nat /\ m \in T /\ \A n \in T : m <= n
  BY DEF Least
<1>1. D!Min(T) = CHOOSE x \in T : \A y \in T : x <= y
  BY DEF D!Min
<1>2. D!Min(T) \in T /\ \A y \in T : D!Min(T) <= y
  BY <1>0, <1>1
<1> DEFINE x == D!Min(T)
<1>3. x \in Nat /\ m \in Nat /\ x <= m /\ m <= x
  BY <1>0, <1>2
<1> HIDE DEF x
<1>4. x = m
  BY <1>3
<1> QED
  BY <1>4 DEF x

\* How each kind of payload is detected.
LEMMA Detected ==
  ASSUME NEW p, p.kind \in Kinds
  PROVE  D!Detect(p) = IF p.kind \in Refused THEN "error"
                       ELSE IF p.kind = "Records" THEN "Sqs" ELSE p.kind
<1>1. /\ DOMAIN D!Parsers = 1 .. 8
      /\ D!Parsers[1] = "S3" /\ D!Parsers[2] = "Sns" /\ D!Parsers[3] = "EcrScan"
      /\ D!Parsers[4] = "CloudWatchLogs" /\ D!Parsers[5] = "Kinesis" /\ D!Parsers[6] = "Sqs"
      /\ D!Parsers[7] = "Firehose" /\ D!Parsers[8] = "Kafka"
  BY DEF D!Parsers
<1>2. D!Fits(p) \subseteq 1 .. 8 /\ \A n \in 1 .. 8 : n \in D!Fits(p) <=> D!Parsers[n] \in D!Accepted(p)
  BY <1>1 DEF D!Fits
<1>3. \A n \in 1 .. 8 : n = 1 \/ n = 2 \/ n = 3 \/ n = 4 \/ n = 5 \/ n = 6 \/ n = 7 \/ n = 8
  OBVIOUS
<1>4. ASSUME NEW m \in 1 .. 8, m \in D!Fits(p), \A n \in D!Fits(p) : m <= n
      PROVE  D!Detect(p) = IF D!Parsers[m] = "Kafka" /\ p.kind # "Kafka" THEN "error" ELSE D!Parsers[m]
  <2>1. D!Fits(p) \in SUBSET Nat /\ D!Fits(p) # {}
    BY <1>2, <1>4
  <2>2. D!Min(D!Fits(p)) = m
    <3> DEFINE T == D!Fits(p)
    <3>1. Least(m, T)
      BY <2>1, <1>4 DEF Least
    <3> HIDE DEF T
    <3>2. D!Min(T) = m
      BY <3>1, LeastIs
    <3> QED
      BY <3>2 DEF T
  <2> QED
    BY <2>1, <2>2 DEF D!Detect, D!HasRecords
<1>5. CASE p.kind = "S3"
  <2>1. D!Accepted(p) = {"S3", "Sqs", "Kafka"}
    BY <1>5 DEF D!Accepted
  <2>2. 1 \in D!Fits(p)
    BY <1>1, <1>2, <2>1
  <2> QED
    BY <1>1, <1>2, <1>4, <1>5, <2>2 DEF Refused
<1>6. CASE p.kind = "Sns"
  <2>1. D!Accepted(p) = {"Sns", "Sqs", "Kafka"}
    BY <1>6 DEF D!Accepted
  <2>2. 2 \in D!Fits(p) /\ \A n \in D!Fits(p) : 2 <= n
    BY <1>1, <1>2, <1>3, <2>1
  <2> QED
    BY <1>1, <1>4, <1>6, <2>2 DEF Refused
<1>7. CASE p.kind = "Kinesis"
  <2>1. D!Accepted(p) = {"Kinesis", "Sqs", "Kafka"}
    BY <1>7 DEF D!Accepted
  <2>2. 5 \in D!Fits(p) /\ \A n \in D!Fits(p) : 5 <= n
    BY <1>1, <1>2, <1>3, <2>1
  <2> QED
    BY <1>1, <1>4, <1>7, <2>2 DEF Refused
<1>8. CASE p.kind = "Firehose"
  <2>1. D!Accepted(p) = {"Firehose"}
    BY <1>8 DEF D!Accepted
  <2>2. 7 \in D!Fits(p) /\ \A n \in D!Fits(p) : 7 <= n
    BY <1>1, <1>2, <1>3, <2>1
  <2> QED
    BY <1>1, <1>4, <1>8, <2>2 DEF Refused
<1>9. CASE p.kind = "Text"
  <2>1. D!Accepted(p) = {}
    BY <1>9 DEF D!Accepted
  <2>2. D!Fits(p) = {}
    BY <1>2, <2>1
  <2> QED
    BY <1>9, <2>2 DEF Refused, D!Detect
<1>10. CASE p.kind \in {"Object", "KafkaEmpty"}
  <2>1. D!Accepted(p) = {"Kafka"}
    BY <1>10 DEF D!Accepted
  <2>2. 8 \in D!Fits(p) /\ \A n \in D!Fits(p) : 8 <= n
    BY <1>1, <1>2, <1>3, <2>1
  <2> QED
    BY <1>1, <1>4, <1>10, <2>2 DEF Refused
<1>11. CASE p.kind \in {"EcrScan", "CloudWatchLogs", "Sqs", "Kafka"}
  <2>1. D!Accepted(p) = {p.kind, "Kafka"}
    BY <1>11 DEF D!Accepted
  <2>2. CASE p.kind = "EcrScan"
    <3>1. 3 \in D!Fits(p) /\ \A n \in D!Fits(p) : 3 <= n
      BY <1>1, <1>2, <1>3, <2>1, <2>2
    <3> QED
      BY <1>1, <1>4, <2>2, <3>1 DEF Refused
  <2>3. CASE p.kind = "CloudWatchLogs"
    <3>1. 4 \in D!Fits(p) /\ \A n \in D!Fits(p) : 4 <= n
      BY <1>1, <1>2, <1>3, <2>1, <2>3
    <3> QED
      BY <1>1, <1>4, <2>3, <3>1 DEF Refused
  <2>4. CASE p.kind = "Sqs"
    <3>1. 6 \in D!Fits(p) /\ \A n \in D!Fits(p) : 6 <= n
      BY <1>1, <1>2, <1>3, <2>1, <2>4
    <3> QED
      BY <1>1, <1>4, <2>4, <3>1 DEF Refused
  <2>5. CASE p.kind = "Kafka"
    <3>1. 8 \in D!Fits(p) /\ \A n \in D!Fits(p) : 8 <= n
      BY <1>1, <1>2, <1>3, <2>1, <2>5
    <3> QED
      BY <1>1, <1>4, <2>5, <3>1 DEF Refused
  <2> QED
    BY <1>11, <2>2, <2>3, <2>4, <2>5
<1>12. CASE p.kind = "Records"
  <2>1. D!Accepted(p) = {"Sqs", "Kafka"}
    BY <1>12 DEF D!Accepted
  <2>2. 6 \in D!Fits(p) /\ \A n \in D!Fits(p) : 6 <= n
    BY <1>1, <1>2, <1>3, <2>1
  <2> QED
    BY <1>1, <1>4, <1>12, <2>2 DEF Refused
<1> QED
  BY <1>5, <1>6, <1>7, <1>8, <1>9, <1>10, <1>11, <1>12 DEF Kinds

-----------------------------------------------------------------------------
(* A payload that may stand alone or in a queue record: its kind tells     *)
(* what is due for it, and the name in a notification is the object's.     *)
SingleFact(p) ==
  /\ p.kind \in Kinds \ {"Sqs"} /\ p # D!NoBody
  /\ p.kind = "S3" => D!KeyOf(p) = p.object
  /\ p.kind = "Sns" =>
       \/ /\ p.message.kind = "S3" /\ "S3" \in D!Accepted(p.message)
          /\ D!KeyOf(p.message) = p.message.object
       \/ p.message.kind = "Text" /\ "S3" \notin D!Accepted(p.message)

\* A notification is that of one of the names.
LEMMA NotificationFact ==
  ASSUME D!ConstantsOK, NEW p \in D!Notifications
  PROVE  p.kind = "S3" /\ D!KeyOf(p) = p.object
<1>1. PICK n \in Names : p = D!Notification(n)
  BY DEF D!Notifications
<1>2. n \in Seq(D!Piece)
  BY <1>1 DEF D!ConstantsOK
<1>3. D!KeyOf(p) = n
  BY <1>1, <1>2, KeyIsDecoded
<1> QED
  BY <1>1, <1>3 DEF D!Notification

\* The payloads that carry at most one other.
LEMMA SingleFacts ==
  ASSUME D!ConstantsOK, NEW p \in D!Single
  PROVE  SingleFact(p)
<1>0. D!NoBody.kind = "none"
  BY DEF D!NoBody
<1>1. CASE p \in D!Notifications
  BY <1>0, <1>1, NotificationFact DEF SingleFact, Kinds
<1>2. CASE p \in D!Leaf
  <2>1. p.kind \in {"EcrScan", "CloudWatchLogs", "Kinesis", "Firehose", "Kafka", "KafkaEmpty",
                    "Records", "Object", "Text"}
    BY <1>2 DEF D!Leaf, D!ConstantsOK
  <2> QED
    BY <1>0, <2>1 DEF SingleFact, Kinds
<1>3. CASE p \in D!Topics
  <2>1. p.kind = "Sns" /\ p.message \in D!Notifications \union {[kind |-> "Text"]}
    BY <1>3 DEF D!Topics
  <2>2. CASE p.message \in D!Notifications
    <3>1. p.message.kind = "S3" /\ D!KeyOf(p.message) = p.message.object
      BY <2>2, NotificationFact
    <3>2. "S3" \in D!Accepted(p.message)
      BY <3>1 DEF D!Accepted
    <3> QED
      BY <1>0, <2>1, <3>1, <3>2 DEF SingleFact, Kinds
  <2>3. CASE p.message = [kind |-> "Text"]
    <3>1. p.message.kind = "Text"
      BY <2>3
    <3>2. "S3" \notin D!Accepted(p.message)
      BY <3>1 DEF D!Accepted
    <3> QED
      BY <1>0, <2>1, <3>1, <3>2 DEF SingleFact, Kinds
  <2> QED
    BY <2>1, <2>2, <2>3
<1> QED
  BY <1>1, <1>2, <1>3 DEF D!Single

(* What an invocation receives. *)
PayloadFact ==
  \/ /\ payload.kind = "Sqs" /\ payload # D!NoBody
     /\ Len(payload.bodies) \in Nat /\ Len(payload.bodies) > 0
     /\ \A n \in 1 .. Len(payload.bodies) : payload.bodies[n] \in D!Single \union {D!NoBody}
  \/ payload \in D!Single

\* The payloads of an invocation.
LEMMA PayloadFacts ==
  ASSUME D!ConstantsOK, payload \in D!Payloads
  PROVE  PayloadFact
<1>1. CASE payload \in D!Queues
  <2> DEFINE B == D!Single \union {D!NoBody}
  <2>1. /\ payload.kind = "Sqs"
        /\ payload.bodies \in D!BoundedSeq(B, MaxBodies) \ {<<>>}
    BY <1>1 DEF D!Queues
  <2>2. PICK m \in 0 .. MaxBodies : payload.bodies \in [1 .. m -> B]
    BY <2>1 DEF D!BoundedSeq, D!SeqOf
  <2> HIDE DEF B
  <2>3. m \in Nat /\ payload.bodies \in Seq(B) /\ Len(payload.bodies) = m
    BY <2>2 DEF D!ConstantsOK
  <2>4. m # 0
    BY <2>1, <2>3
  <2>5. payload # D!NoBody
    BY <2>1 DEF D!NoBody
  <2> QED
    BY <2>1, <2>2, <2>3, <2>4, <2>5 DEF PayloadFact, B
<1>2. CASE payload \in D!Single
  BY <1>2 DEF PayloadFact
<1> QED
  BY <1>1, <1>2 DEF D!Payloads

-----------------------------------------------------------------------------
(* What was to be done for the first n payloads received, if the events of *)
(* the records F failed.                                                   *)
OutcomeIn(F, k) == IF k \in F THEN <<D!Rescue(k)>> ELSE D!Due(D!Received[k])
PassedIn(F, n) == Flattened([k \in 1 .. n |-> OutcomeIn(F, k)])
Passed(n) == PassedIn(rescued, n)

\* What is received of a payload, for each kind.
LEMMA ReceivedFacts ==
  ASSUME D!ConstantsOK, payload \in D!Payloads
  PROVE  /\ Len(D!Received) \in Nat
         /\ payload.kind = "Sqs" => D!Received = payload.bodies
         /\ payload.kind # "Sqs" => D!Received = <<payload>> /\ Len(D!Received) = 1
<1>1. PayloadFact
  BY PayloadFacts
<1>2. CASE payload.kind = "Sqs"
  <2>1. payload \notin D!Single
    BY <1>2, SingleFacts DEF SingleFact
  <2>2. Len(payload.bodies) \in Nat
    BY <1>1, <2>1 DEF PayloadFact
  <2> QED
    BY <1>2, <2>2 DEF D!Received
<1>3. CASE payload.kind # "Sqs"
  BY <1>3 DEF D!Received
<1> QED
  BY <1>2, <1>3

\* At first no record has been passed.
LEMMA PassedNone == ASSUME NEW F PROVE PassedIn(F, 0) = <<>>
<1> DEFINE ss == [k \in 1 .. 0 |-> OutcomeIn(F, k)]
<1>1. ss = <<>>
  OBVIOUS
<1>2. PassedIn(F, 0) = Flattened(ss)
  BY DEF PassedIn
<1> HIDE DEF ss
<1> QED
  BY <1>1, <1>2, FlattenedEmpty

\* Failures of later records make no difference.
LEMMA PassedSame ==
  ASSUME NEW F, NEW G, NEW n \in Nat, \A k \in 1 .. n : k \in F <=> k \in G
  PROVE  PassedIn(F, n) = PassedIn(G, n)
<1>1. \A k \in 1 .. n : OutcomeIn(F, k) = OutcomeIn(G, k)
  BY DEF OutcomeIn
<1>2. [k \in 1 .. n |-> OutcomeIn(F, k)] = [k \in 1 .. n |-> OutcomeIn(G, k)]
  BY <1>1
<1> QED
  BY <1>2 DEF PassedIn

\* One record more has been passed.
LEMMA PassedNext ==
  ASSUME NEW F, NEW n \in Nat
  PROVE  \E S : /\ PassedIn(F, n) \in Seq(S) /\ OutcomeIn(F, n + 1) \in Seq(S)
                /\ PassedIn(F, n + 1) = PassedIn(F, n) \o OutcomeIn(F, n + 1)
<1> DEFINE S == {D!Own(D!Received[k]) : k \in 1 .. n + 1} \union {D!Rescue(k) : k \in 1 .. n + 1}
           ss == [k \in 1 .. n |-> OutcomeIn(F, k)]
           tt == [k \in 1 .. n + 1 |-> OutcomeIn(F, k)]
           s == OutcomeIn(F, n + 1)
<1>1. ASSUME NEW k \in 1 .. n + 1 PROVE OutcomeIn(F, k) \in Seq(S)
  <2>1. D!Own(D!Received[k]) \in S /\ D!Rescue(k) \in S
    OBVIOUS
  <2> HIDE DEF S
  <2>2. <<D!Own(D!Received[k])>> \in Seq(S) /\ <<>> \in Seq(S) /\ <<D!Rescue(k)>> \in Seq(S)
    BY <2>1
  <2> QED
    BY <2>2 DEF D!Due, OutcomeIn
<1> HIDE DEF S
<1>2. ss \in Seq(Seq(S)) /\ s \in Seq(S) /\ Len(ss) = n
  <2>1. \A k \in 1 .. n : OutcomeIn(F, k) \in Seq(S)
    BY <1>1
  <2>2. ss \in [1 .. n -> Seq(S)]
    BY <2>1
  <2>3. s \in Seq(S)
    BY <1>1
  <2> HIDE DEF ss
  <2> QED
    BY <2>2, <2>3
<1>3. tt = Append(ss, s)
  <2>1. \A k \in 1 .. n : ss[k] = OutcomeIn(F, k)
    OBVIOUS
  <2> DEFINE aa == Append(ss, s)
  <2>2. aa \in Seq(Seq(S)) /\ Len(aa) = n + 1 /\ aa[n + 1] = s /\ \A k \in 1 .. n : aa[k] = ss[k]
    <3> HIDE DEF ss, s
    <3> QED
      BY <1>2, AppendProperties
  <2>3. DOMAIN aa = 1 .. n + 1 /\ DOMAIN tt = 1 .. n + 1
    BY <2>2
  <2>4. ASSUME NEW k \in 1 .. n + 1 PROVE tt[k] = aa[k]
    <3>1. CASE k = n + 1
      BY <3>1, <2>2
    <3>2. CASE k # n + 1
      <4>1. k \in 1 .. n
        BY <3>2
      <4> QED
        BY <4>1, <2>1, <2>2
    <3> QED
      BY <3>1, <3>2
  <2>5. tt = [k \in 1 .. n + 1 |-> tt[k]] /\ aa = [k \in 1 .. n + 1 |-> aa[k]]
    BY <2>2, <2>3
  <2> HIDE DEF aa, tt
  <2>6. tt = aa
    BY <2>4, <2>5
  <2> QED
    BY <2>6 DEF aa
<1>4. PassedIn(F, n) = Flattened(ss) /\ PassedIn(F, n + 1) = Flattened(tt)
  BY DEF PassedIn
<1> HIDE DEF ss, tt, s
<1>5. PassedIn(F, n) \in Seq(S) /\ PassedIn(F, n + 1) = PassedIn(F, n) \o s
  BY <1>2, <1>3, <1>4, FlattenedAppend, FlattenedType
<1> QED
  BY <1>2, <1>5 DEF s

\* What is added to what was done for one record more.
LEMMA PassedOne ==
  ASSUME NEW F, NEW n \in Nat, NEW after, NEW what,
         \/ after = Append(PassedIn(F, n), what) /\ OutcomeIn(F, n + 1) = <<what>>
         \/ after = PassedIn(F, n) /\ OutcomeIn(F, n + 1) = <<>>
  PROVE  after = PassedIn(F, n + 1)
<1>1. PICK S : /\ PassedIn(F, n) \in Seq(S) /\ OutcomeIn(F, n + 1) \in Seq(S)
               /\ PassedIn(F, n + 1) = PassedIn(F, n) \o OutcomeIn(F, n + 1)
  BY PassedNext, Zenon
<1> DEFINE due == OutcomeIn(F, n + 1) before == PassedIn(F, n)
<1>2. before \in Seq(S) /\ due \in Seq(S) /\ PassedIn(F, n + 1) = before \o due
  BY <1>1
<1>3. (after = Append(before, what) /\ due = <<what>>) \/ (after = before /\ due = <<>>)
  OBVIOUS
<1> HIDE DEF due, before
<1>4. CASE after = Append(before, what) /\ due = <<what>>
  <2>1. due \in Seq(S) /\ Len(due) = 1 /\ due[1] = what
    BY <1>2, <1>4
  <2>2. what \in S
    <3>1. 1 \in DOMAIN due /\ \A k \in DOMAIN due : due[k] \in S
      BY <2>1
    <3> QED
      BY <2>1, <3>1
  <2>3. before \o <<what>> = Append(before, what)
    BY <1>2, <2>2
  <2> QED
    BY <1>2, <1>4, <2>3
<1>5. CASE after = before /\ due = <<>>
  <2>1. before \o <<>> = before
    BY <1>2
  <2> QED
    BY <1>2, <1>5, <2>1
<1> QED
  BY <1>3, <1>4, <1>5

-----------------------------------------------------------------------------
(* The invariant: the payload in hand is the record before pos, what was   *)
(* done is what was to be done for the records taken before it, in their   *)
(* order, none of those was of an unknown kind, and failed ones are among  *)
(* them, in the dead-letter queue only.                                    *)
Taken == IF hand = D!NoBody THEN pos - 1 ELSE pos - 2

EventInHand ==
  /\ pos \in Nat
  /\ pos > 0 =>
       /\ payload.kind = "Sqs" /\ ~lines /\ mode = "logs"
       /\ pos <= Len(payload.bodies) + 1
       /\ hand = D!NoBody \/ (pos > 1 /\ hand = payload.bodies[pos - 1])
  /\ pos = 0 /\ eventAnswer = "none" => hand = payload

DoneIsDue ==
  mode = "logs" /\ ~lines =>
    /\ pos = 0 /\ eventAnswer = "none" => done = <<>>
    /\ pos = 0 /\ eventAnswer = "ok" => done = Passed(1)
    /\ pos > 0 /\ eventAnswer # "error" => done = Passed(Taken)

NoneUnknown ==
  /\ pos > 0 => \A k \in 1 .. Taken : payload.bodies[k].kind \notin Refused
  /\ pos > 0 /\ eventAnswer = "ok" => pos = Len(payload.bodies) + 1 /\ hand = D!NoBody
  /\ pos = 0 /\ eventAnswer = "ok" =>
       /\ payload.kind \notin Refused
       /\ payload.kind = "Sqs" => lines
       /\ payload.kind = "Records" => mode = "logs"

Failures ==
  /\ rescued \subseteq 1 .. Taken
  /\ pos = 0 => rescued = {}
  /\ rescued # {} => dlq

DispatchInv == payload \in D!Payloads /\ EventInHand /\ DoneIsDue /\ NoneUnknown /\ Failures

\* An invocation begins with its payload in hand.
LEMMA DispatchInit == ASSUME D!ConstantsOK, D!Init PROVE DispatchInv
BY DEF D!Init, DispatchInv, EventInHand, DoneIsDue, NoneUnknown, Failures

(* What the payload in hand is. *)
LEMMA HandFacts ==
  ASSUME D!ConstantsOK, DispatchInv, D!Pending
  PROVE  /\ eventAnswer = "none"
         /\ pos > 0 \/ payload.kind # "Sqs" => hand \in D!Single /\ SingleFact(hand)
         /\ pos = 0 => hand = payload
         /\ pos > 0 => pos > 1 /\ hand = payload.bodies[pos - 1] /\ Len(payload.bodies) \in Nat
         /\ D!Kind = IF hand.kind \in Refused THEN "error"
                     ELSE IF hand.kind = "Records" THEN "Sqs" ELSE hand.kind
<1>1. PayloadFact /\ eventAnswer = "none" /\ hand # D!NoBody /\ pos \in Nat
  BY PayloadFacts DEF DispatchInv, D!Pending, EventInHand
<1>2. CASE pos > 0
  <2>1. /\ payload.kind = "Sqs" /\ pos > 1 /\ pos <= Len(payload.bodies) + 1
        /\ hand = payload.bodies[pos - 1]
    BY <1>1, <1>2 DEF DispatchInv, EventInHand
  <2>2. payload \notin D!Single
    BY <2>1, SingleFacts DEF SingleFact
  <2>3. Len(payload.bodies) \in Nat /\ \A n \in 1 .. Len(payload.bodies) : payload.bodies[n] \in D!Single \union {D!NoBody}
    BY <1>1, <2>2 DEF PayloadFact
  <2>4. pos - 1 \in 1 .. Len(payload.bodies)
    BY <1>1, <2>1, <2>3
  <2>5. hand \in D!Single
    BY <1>1, <2>1, <2>3, <2>4
  <2>6. SingleFact(hand)
    BY <2>5, SingleFacts
  <2>7. hand.kind \in Kinds
    BY <2>6 DEF SingleFact
  <2>8. D!Kind = IF hand.kind \in Refused THEN "error"
                     ELSE IF hand.kind = "Records" THEN "Sqs" ELSE hand.kind
    BY <2>7, Detected DEF D!Kind
  <2> QED
    BY <1>1, <1>2, <2>1, <2>3, <2>5, <2>6, <2>8
<1>3. CASE pos = 0
  <2>1. hand = payload
    BY <1>1, <1>3 DEF DispatchInv, EventInHand
  <2>2. payload.kind # "Sqs" => payload \in D!Single /\ SingleFact(payload)
    BY <1>1, SingleFacts DEF PayloadFact
  <2>3. payload.kind \in Kinds
    BY <2>2 DEF SingleFact, Kinds
  <2>4. D!Kind = IF hand.kind \in Refused THEN "error"
                     ELSE IF hand.kind = "Records" THEN "Sqs" ELSE hand.kind
    BY <2>1, <2>3, Detected DEF D!Kind
  <2> QED
    BY <1>1, <1>3, <2>1, <2>2, <2>4
<1> QED
  BY <1>1, <1>2, <1>3

(* What the handlers of one event do: they process it as what is due. *)
HandledAsDue ==
  /\ hand.kind \notin Refused /\ hand.kind # "Sqs"
  /\ \/ done' = Append(done, D!Own(hand)) /\ D!Due(hand) = <<D!Own(hand)>>
     \/ done' = done /\ D!Due(hand) = <<>>
  /\ hand' = D!NoBody
  /\ eventAnswer' = IF pos = 0 THEN "ok" ELSE eventAnswer
  /\ UNCHANGED <<mode, lines, payload, dlq, spent, gone, pos, rescued>>

\* What each handler does is what the payload in hand is due.
LEMMA HandlersFact ==
  ASSUME D!ConstantsOK, DispatchInv, D!OnS3 \/ D!OnSns \/ D!OnRecords \/ D!OnFirehose
  PROVE  HandledAsDue
<1>1. D!Pending /\ mode = "logs" /\ D!Kind \in {"S3", "Sns", "CloudWatchLogs", "Kinesis", "Kafka", "EcrScan", "Firehose"}
  BY DEF D!OnS3, D!OnSns, D!OnRecords, D!OnFirehose
<1>2. /\ hand.kind = D!Kind /\ hand.kind \notin Refused
      /\ pos > 0 \/ payload.kind # "Sqs" => hand \in D!Single /\ SingleFact(hand)
      /\ pos = 0 => hand = payload
  BY <1>1, HandFacts
<1>3. pos \in Nat
  BY DEF DispatchInv, EventInHand
<1>4. SingleFact(hand)
  BY <1>1, <1>2, <1>3
<1>5. D!Finished => hand' = D!NoBody /\ eventAnswer' = IF pos = 0 THEN "ok" ELSE eventAnswer
  BY DEF D!Finished
<1>6. ASSUME NEW what, NEW input, D!Processed(what, input), D!Own(hand) = <<what, input>>,
             D!Due(hand) = <<D!Own(hand)>>
      PROVE  HandledAsDue
  <2>1. done' = Append(done, D!Own(hand))
    BY <1>6 DEF D!Processed
  <2>2. D!Finished /\ UNCHANGED <<mode, lines, payload, dlq, spent, gone, pos, rescued>>
    BY <1>6 DEF D!Processed, D!given
  <2> QED
    BY <1>1, <1>2, <1>5, <1>6, <2>1, <2>2 DEF HandledAsDue
<1>7. D!Kind \in {"S3", "Sns", "CloudWatchLogs", "Kinesis", "Kafka", "EcrScan"} => D!Due(hand) = <<D!Own(hand)>>
  BY <1>2 DEF D!Due
<1>8. CASE D!OnS3
  <2>1. D!Kind = "S3" /\ D!Processed("s3", D!KeyOf(hand))
    BY <1>8 DEF D!OnS3
  <2>2. D!Own(hand) = <<"s3", D!KeyOf(hand)>>
    BY <1>2, <1>4, <2>1 DEF D!Own, SingleFact
  <2> QED
    BY <1>6, <1>7, <2>1, <2>2
<1>9. CASE D!OnSns
  <2>1. D!Kind = "Sns" /\ hand.kind = "Sns"
    BY <1>2, <1>9 DEF D!OnSns
  <2>2. CASE "S3" \in D!Accepted(hand.message)
    <3>1. D!Processed("s3", D!KeyOf(hand.message))
      BY <1>9, <2>2 DEF D!OnSns
    <3>2. hand.message.kind = "S3" /\ D!KeyOf(hand.message) = hand.message.object
      BY <1>4, <2>1, <2>2 DEF SingleFact
    <3>3. D!Own(hand) = <<"s3", D!KeyOf(hand.message)>>
      BY <2>1, <3>2 DEF D!Own
    <3> QED
      BY <1>6, <1>7, <2>1, <3>1, <3>3
  <2>3. CASE "S3" \notin D!Accepted(hand.message)
    <3>1. D!Processed("sns_logs", hand.message)
      BY <1>9, <2>3 DEF D!OnSns
    <3>2. hand.message.kind # "S3"
      BY <1>4, <2>1, <2>3 DEF SingleFact
    <3>3. D!Own(hand) = <<"sns_logs", hand.message>>
      BY <2>1, <3>2 DEF D!Own
    <3> QED
      BY <1>6, <1>7, <2>1, <3>1, <3>3
  <2> QED
    BY <2>2, <2>3
<1>10. CASE D!OnRecords
  <2>1. D!Kind \in {"CloudWatchLogs", "Kinesis", "Kafka", "EcrScan"} /\ D!Processed(D!Kind, hand)
    BY <1>10 DEF D!OnRecords
  <2>2. D!Own(hand) = <<D!Kind, hand>>
    BY <1>2, <2>1 DEF D!Own
  <2> QED
    BY <1>6, <1>7, <2>1, <2>2
<1>11. CASE D!OnFirehose
  <2>1. /\ D!Kind = "Firehose" /\ D!Finished /\ done' = done
        /\ UNCHANGED <<mode, lines, payload, dlq, spent, gone, pos, rescued>>
    BY <1>11 DEF D!OnFirehose, D!given
  <2>2. D!Due(hand) = <<>>
    BY <1>2, <2>1 DEF D!Due
  <2> QED
    BY <1>1, <1>2, <1>5, <2>1, <2>2 DEF HandledAsDue
<1> QED
  BY <1>8, <1>9, <1>10, <1>11

(* Processing the payload in hand as what is due for it keeps the          *)
(* invariant.                                                              *)
LEMMA HandledStep ==
  ASSUME D!ConstantsOK, DispatchInv, D!Pending, mode = "logs", HandledAsDue
  PROVE  DispatchInv'
<1>1. /\ eventAnswer = "none" /\ hand # D!NoBody /\ pos \in Nat
      /\ pos = 0 => hand = payload
      /\ pos > 0 => pos > 1 /\ hand = payload.bodies[pos - 1] /\ Len(payload.bodies) \in Nat
  BY HandFacts DEF D!Pending, DispatchInv, EventInHand
<1>2. /\ hand' = D!NoBody /\ mode' = mode /\ lines' = lines /\ payload' = payload /\ pos' = pos
      /\ dlq' = dlq /\ spent' = spent /\ gone' = gone /\ rescued' = rescued
      /\ eventAnswer' = IF pos = 0 THEN "ok" ELSE eventAnswer
      /\ hand.kind \notin Refused /\ hand.kind # "Sqs"
  BY DEF HandledAsDue
<1>3. EventInHand'
  BY <1>1, <1>2 DEF DispatchInv, EventInHand
<1>4. Failures'
  BY <1>1, <1>2 DEF DispatchInv, EventInHand, Failures, Taken
<1>5. ASSUME NEW n PROVE Passed(n)' = Passed(n)
  BY <1>2 DEF Passed, PassedIn, OutcomeIn, D!Received, D!Rescue
<1>6. ASSUME NEW n \in Nat, done = Passed(n), D!Received[n + 1] = hand, n + 1 \notin rescued
      PROVE  done' = Passed(n + 1)
  <2>1. OutcomeIn(rescued, n + 1) = D!Due(hand)
    BY <1>6 DEF OutcomeIn
  <2>2. \/ done' = Append(PassedIn(rescued, n), D!Own(hand)) /\ OutcomeIn(rescued, n + 1) = <<D!Own(hand)>>
        \/ done' = PassedIn(rescued, n) /\ OutcomeIn(rescued, n + 1) = <<>>
    BY <1>6, <2>1 DEF HandledAsDue, Passed
  <2> DEFINE after == done' own == D!Own(hand) F == rescued
  <2>3. \/ after = Append(PassedIn(F, n), own) /\ OutcomeIn(F, n + 1) = <<own>>
        \/ after = PassedIn(F, n) /\ OutcomeIn(F, n + 1) = <<>>
    BY <2>2
  <2> HIDE DEF after, own, F
  <2>4. after = PassedIn(F, n + 1)
    BY <1>6, <2>3, PassedOne, Zenon
  <2> QED
    BY <2>4 DEF after, F, Passed
<1>7. CASE pos = 0
  <2>1. payload.kind \notin Refused /\ payload.kind # "Sqs" /\ hand = payload
    BY <1>1, <1>2, <1>7
  <2>2. NoneUnknown'
    BY <1>2, <1>7, <2>1 DEF NoneUnknown
  <2>3. ASSUME ~lines PROVE done' = Passed(1)
    <3>1. done = Passed(0)
      BY <1>1, <1>7, <2>3, PassedNone DEF DispatchInv, DoneIsDue, Passed
    <3>2. D!Received[0 + 1] = hand
      BY <2>1 DEF D!Received
    <3>3. 0 + 1 \notin rescued
      BY <1>7 DEF DispatchInv, Failures
    <3>4. 0 \in Nat /\ 0 + 1 = 1
      OBVIOUS
    <3> QED
      BY <1>6, <3>1, <3>2, <3>3, <3>4
  <2>4. DoneIsDue'
    BY <1>2, <1>5, <1>7, <2>3 DEF DoneIsDue
  <2> QED
    BY <1>2, <1>3, <1>4, <2>2, <2>4 DEF DispatchInv
<1>8. CASE pos > 0
  <2>1. /\ pos > 1 /\ hand = payload.bodies[pos - 1] /\ Taken = pos - 2 /\ Taken' = pos - 1
        /\ payload.kind = "Sqs" /\ eventAnswer' = "none"
    BY <1>1, <1>2, <1>8 DEF Taken, DispatchInv, EventInHand
  <2>2. NoneUnknown'
    <3>1. ASSUME NEW k \in 1 .. pos - 1 PROVE payload.bodies[k].kind \notin Refused
      <4>1. CASE k = pos - 1
        BY <1>2, <2>1, <4>1
      <4>2. CASE k # pos - 1
        <5>1. k \in 1 .. Taken
          BY <1>1, <2>1, <4>2
        <5> QED
          BY <1>8, <5>1 DEF DispatchInv, NoneUnknown
      <4> QED
        BY <4>1, <4>2
    <3> QED
      BY <1>2, <1>8, <2>1, <3>1 DEF NoneUnknown
  <2>3. ASSUME ~lines PROVE done' = Passed(pos - 1)
    <3> DEFINE n == pos - 2
    <3>1. done = Passed(n)
      BY <1>1, <1>8, <2>1, <2>3 DEF DispatchInv, DoneIsDue
    <3>2. n \in Nat /\ n + 1 = pos - 1
      BY <1>1, <2>1
    <3>3. D!Received[n + 1] = hand
      BY <2>1, <3>2 DEF D!Received
    <3>4. n + 1 \notin rescued
      BY <1>1, <2>1, <3>2 DEF DispatchInv, Failures
    <3> HIDE DEF n
    <3>5. done' = Passed(n + 1)
      BY <1>6, <3>1, <3>2, <3>3, <3>4
    <3> QED
      BY <3>2, <3>5
  <2>4. DoneIsDue'
    BY <1>2, <1>5, <1>8, <2>1, <2>3 DEF DoneIsDue
  <2> QED
    BY <1>2, <1>3, <1>4, <2>2, <2>4 DEF DispatchInv
<1> QED
  BY <1>1, <1>7, <1>8

(* The end of the loop, or the next record: an empty one is taken at once. *)
LEMMA NextBodyStep ==
  ASSUME D!ConstantsOK, DispatchInv, D!NextBody
  PROVE  DispatchInv'
<1>1. /\ eventAnswer = "none" /\ pos \in Nat /\ pos > 0 /\ hand = D!NoBody /\ payload.kind = "Sqs"
      /\ pos <= Len(payload.bodies) + 1 /\ mode = "logs" /\ ~lines
  BY DEF D!NextBody, DispatchInv, EventInHand
<1>2. /\ mode' = mode /\ lines' = lines /\ payload' = payload /\ done' = done /\ rescued' = rescued
      /\ dlq' = dlq /\ spent' = spent /\ gone' = gone
  BY DEF D!NextBody, D!given
<1>3. D!BodiesOf(payload) = payload.bodies /\ D!Received = payload.bodies /\ Len(payload.bodies) \in Nat
  BY <1>1, ReceivedFacts DEF D!BodiesOf, D!Received, DispatchInv
<1>4. Taken = pos - 1 /\ rescued \subseteq 1 .. pos - 1 /\ (rescued # {} => dlq)
  BY <1>1 DEF Taken, DispatchInv, Failures
<1>5. ASSUME NEW n PROVE Passed(n)' = Passed(n)
  BY <1>2 DEF Passed, PassedIn, OutcomeIn, D!Received, D!Rescue
<1>6. CASE pos <= Len(payload.bodies)
  <2>1. pos' = pos + 1 /\ hand' = payload.bodies[pos] /\ eventAnswer' = "none"
    BY <1>1, <1>3, <1>6 DEF D!NextBody
  <2>2. EventInHand'
    <3>1. pos' - 1 = pos /\ pos' \in Nat /\ pos' > 1 /\ pos' <= Len(payload.bodies) + 1
      BY <1>1, <1>3, <1>6, <2>1
    <3> QED
      BY <1>1, <1>2, <2>1, <3>1 DEF EventInHand
  <2>3. CASE payload.bodies[pos] # D!NoBody
    <3>1. Taken' = pos - 1
      BY <1>1, <2>1, <2>3 DEF Taken
    <3>2. DoneIsDue'
      BY <1>1, <1>2, <1>4, <1>5, <2>1, <3>1 DEF DispatchInv, DoneIsDue
    <3>3. NoneUnknown'
      BY <1>1, <1>2, <1>4, <2>1, <3>1 DEF DispatchInv, NoneUnknown
    <3>4. Failures'
      BY <1>1, <1>2, <1>4, <2>1, <3>1 DEF Failures
    <3> QED
      BY <1>2, <2>2, <3>2, <3>3, <3>4 DEF DispatchInv
  <2>4. CASE payload.bodies[pos] = D!NoBody
    <3>1. Taken' = pos
      BY <1>1, <2>1, <2>4 DEF Taken
    <3>2. D!NoBody.kind = "none"
      BY DEF D!NoBody
    <3>3. done = Passed(pos - 1) => done = Passed(pos)
      <4> DEFINE n == pos - 1 F == rescued
      <4>1. n \in Nat /\ n + 1 = pos /\ n + 1 \notin F
        BY <1>1, <1>4
      <4>2. OutcomeIn(F, n + 1) = <<>>
        BY <1>3, <2>4, <3>2, <4>1 DEF D!Due, OutcomeIn
      <4> HIDE DEF n, F
      <4>3. ASSUME done = PassedIn(F, n) PROVE done = PassedIn(F, n + 1)
        <5> DEFINE after == done
        <5>1. after = PassedIn(F, n)
          BY <4>3
        <5> HIDE DEF after
        <5>2. after = PassedIn(F, n + 1)
          BY <4>1, <4>2, <5>1, PassedOne, Zenon
        <5> QED
          BY <5>2 DEF after
      <4> QED
        BY <4>1, <4>3 DEF n, F, Passed
    <3>4. DoneIsDue'
      BY <1>1, <1>2, <1>4, <1>5, <2>1, <3>1, <3>3 DEF DispatchInv, DoneIsDue
    <3>5. ASSUME NEW k \in 1 .. pos PROVE payload.bodies[k].kind \notin Refused
      <4>1. CASE k = pos
        BY <2>4, <3>2, <4>1 DEF Refused
      <4>2. CASE k # pos
        <5>1. k \in 1 .. Taken
          BY <1>1, <1>4, <4>2
        <5> QED
          BY <1>1, <5>1 DEF DispatchInv, NoneUnknown
      <4> QED
        BY <4>1, <4>2
    <3>6. NoneUnknown'
      BY <1>1, <1>2, <2>1, <3>1, <3>5 DEF NoneUnknown
    <3>7. Failures'
      BY <1>1, <1>2, <1>4, <2>1, <3>1 DEF Failures
    <3> QED
      BY <1>2, <2>2, <3>4, <3>6, <3>7 DEF DispatchInv
  <2> QED
    BY <2>3, <2>4
<1>7. CASE ~(pos <= Len(payload.bodies))
  <2>1. pos' = pos /\ hand' = hand /\ eventAnswer' = "ok" /\ pos = Len(payload.bodies) + 1
    BY <1>1, <1>3, <1>7 DEF D!NextBody
  <2>2. Taken' = Taken
    BY <2>1 DEF Taken
  <2>3. EventInHand'
    BY <1>1, <1>2, <2>1 DEF DispatchInv, EventInHand
  <2>4. DoneIsDue'
    BY <1>1, <1>2, <1>4, <1>5, <2>1, <2>2 DEF DispatchInv, DoneIsDue
  <2>5. NoneUnknown' /\ Failures'
    BY <1>1, <1>2, <2>1, <2>2 DEF DispatchInv, NoneUnknown, Failures
  <2> QED
    BY <1>2, <2>3, <2>4, <2>5 DEF DispatchInv
<1> QED
  BY <1>6, <1>7

(* An invocation that fails keeps it: nothing is claimed of what it did. *)
LEMMA ErrorStep ==
  ASSUME DispatchInv, eventAnswer = "none", eventAnswer' = "error", hand' = hand \/ pos = 0,
         UNCHANGED <<mode, lines, payload, dlq, pos, rescued>>
  PROVE  DispatchInv'
<1>1. /\ mode' = mode /\ lines' = lines /\ payload' = payload /\ pos' = pos
      /\ dlq' = dlq /\ rescued' = rescued /\ pos \in Nat
  BY DEF DispatchInv, EventInHand
<1>2. EventInHand' /\ DoneIsDue'
  BY <1>1 DEF DispatchInv, EventInHand, DoneIsDue
<1>3. NoneUnknown'
  <2>1. pos > 0 => Taken' = Taken
    BY <1>1 DEF Taken
  <2> QED
    BY <1>1, <2>1 DEF DispatchInv, NoneUnknown
<1>4. Failures'
  BY <1>1 DEF DispatchInv, Failures, Taken
<1> QED
  BY <1>1, <1>2, <1>3, <1>4 DEF DispatchInv

(* A record of the dead-letter queue whose event failed is saved as its    *)
(* retries and its object allow.                                           *)
LEMMA RescueStep ==
  ASSUME D!ConstantsOK, DispatchInv, D!SendAgain \/ D!FileFailed
  PROVE  DispatchInv'
<1> DEFINE n == pos - 2
           after == done'
           what == D!Rescue(pos - 1)
           F == rescued
           G == rescued'
<1>1. PICK rescue : /\ D!Rescued(rescue)
                    /\ \/ ~D!RetriesUsedUp /\ rescue = <<"send", hand>>
                       \/ /\ D!RetriesUsedUp /\ "S3" \in D!Accepted(hand) /\ pos - 1 \notin gone
                          /\ rescue = <<"file object", hand.key>>
                       \/ /\ D!RetriesUsedUp /\ ~("S3" \in D!Accepted(hand) /\ pos - 1 \notin gone)
                          /\ rescue = <<"file event", hand>>
  BY DEF D!SendAgain, D!FileFailed, D!Record
<1>2. /\ D!Pending /\ mode = "logs" /\ D!Kind # "error" /\ pos > 0 /\ dlq
      /\ hand' = D!NoBody /\ done' = Append(done, rescue) /\ rescued' = rescued \union {pos - 1}
      /\ UNCHANGED <<mode, lines, payload, dlq, spent, gone, pos, eventAnswer>>
  BY <1>1 DEF D!Rescued, D!Continue, D!Failing, D!Record, D!given
<1>3. /\ eventAnswer = "none" /\ pos > 1 /\ hand = payload.bodies[pos - 1] /\ pos \in Nat
      /\ hand.kind \notin Refused /\ hand # D!NoBody /\ SingleFact(hand)
      /\ payload.kind = "Sqs" /\ ~lines
  BY <1>2, HandFacts DEF DispatchInv, EventInHand, D!Pending
<1>4. Taken = pos - 2 /\ Taken' = pos - 1
  BY <1>2, <1>3 DEF Taken
<1>5. EventInHand'
  BY <1>2, <1>3 DEF DispatchInv, EventInHand
<1>6. Failures'
  BY <1>2, <1>3, <1>4 DEF DispatchInv, Failures
<1>7. NoneUnknown'
  <2>1. ASSUME NEW k \in 1 .. pos - 1 PROVE payload.bodies[k].kind \notin Refused
    <3>1. CASE k = pos - 1
      BY <1>3, <3>1
    <3>2. CASE k # pos - 1
      <4>1. k \in 1 .. Taken
        BY <1>3, <1>4, <3>2
      <4> QED
        BY <1>2, <4>1 DEF DispatchInv, NoneUnknown
    <3> QED
      BY <3>1, <3>2
  <2> QED
    BY <1>2, <1>3, <1>4, <2>1 DEF NoneUnknown
<1>8. rescue = what
  <2>1. D!Received[pos - 1] = hand
    BY <1>3 DEF D!Received
  <2>2. "S3" \in D!Accepted(hand) <=> hand.kind = "S3"
    <3>1. hand.kind \in Kinds \ {"Sqs"}
      BY <1>3 DEF SingleFact
    <3> QED
      BY <3>1 DEF D!Accepted, Kinds
  <2> QED
    BY <1>1, <2>1, <2>2 DEF D!Rescue, D!RetriesUsedUp, D!Record
<1>9. n \in Nat /\ n + 1 = pos - 1 /\ \A k \in 1 .. n : k \in F <=> k \in G
  BY <1>2, <1>3
<1>10. done = PassedIn(F, n)
  BY <1>2, <1>3, <1>4 DEF DispatchInv, DoneIsDue, Passed
<1>11. OutcomeIn(G, n + 1) = <<what>>
  BY <1>2, <1>9 DEF OutcomeIn
<1>12. after = Append(done, what)
  BY <1>2, <1>8
<1> HIDE DEF n, after, what, F, G
<1>13. PassedIn(F, n) = PassedIn(G, n)
  BY <1>9, PassedSame, Zenon
<1>14. after = Append(PassedIn(G, n), what)
  BY <1>10, <1>12, <1>13
<1>15. after = PassedIn(G, n + 1)
  BY <1>9, <1>11, <1>14, PassedOne, Zenon
<1>16. done' = PassedIn(rescued', pos - 1)
  BY <1>9, <1>15 DEF after, G
<1>17. Passed(Taken)' = PassedIn(rescued', pos - 1)
  BY <1>2, <1>4 DEF Passed, PassedIn, OutcomeIn, D!Received, D!Rescue
<1>18. DoneIsDue'
  BY <1>2, <1>3, <1>16, <1>17 DEF DoneIsDue
<1> QED
  BY <1>2, <1>5, <1>6, <1>7, <1>18 DEF DispatchInv

\* Each step keeps what was done that of the payloads passed.
LEMMA DispatchNext ==
  ASSUME D!ConstantsOK, DispatchInv, [D!Next]_D!vars
  PROVE  DispatchInv'
<1>1. CASE D!Unknown
  BY <1>1, ErrorStep DEF D!Unknown, D!Pending, D!given
<1>2. CASE D!OtherMode
  <2>1. /\ D!Pending /\ mode # "logs" /\ D!Kind # "error" /\ hand' = D!NoBody
        /\ mode' = mode /\ lines' = lines /\ payload' = payload /\ pos' = pos
        /\ dlq' = dlq /\ rescued' = rescued
    BY <1>2 DEF D!OtherMode, D!given
  <2>2. pos = 0
    BY <2>1 DEF DispatchInv, EventInHand
  <2>3. /\ eventAnswer = "none" /\ hand = payload /\ hand.kind \notin Refused
        /\ D!Kind = IF hand.kind = "Records" THEN "Sqs" ELSE hand.kind
    BY <2>1, <2>2, HandFacts
  <2>4. CASE eventAnswer' = "error"
    BY <2>1, <2>2, <2>3, <2>4, ErrorStep
  <2>5. CASE D!Kind = (IF mode = "metrics" THEN "Firehose" ELSE "CloudWatchLogs") /\ eventAnswer' = "ok"
    <3>1. EventInHand' /\ DoneIsDue' /\ NoneUnknown'
      BY <2>1, <2>2, <2>3, <2>5 DEF EventInHand, DoneIsDue, NoneUnknown
    <3>2. Failures'
      BY <2>1, <2>2 DEF DispatchInv, Failures, Taken
    <3> QED
      BY <2>1, <3>1, <3>2 DEF DispatchInv
  <2> QED
    BY <1>2, <2>4, <2>5 DEF D!OtherMode
<1>3. CASE D!OnS3 \/ D!OnSns \/ D!OnRecords \/ D!OnFirehose
  <2>1. D!Pending /\ mode = "logs"
    BY <1>3 DEF D!OnS3, D!OnSns, D!OnRecords, D!OnFirehose
  <2> QED
    BY <1>3, <2>1, HandlersFact, HandledStep
<1>4. CASE D!OnSqs
  <2>1. /\ D!Pending /\ mode = "logs" /\ D!Kind = "Sqs"
        /\ UNCHANGED <<mode, lines, payload, dlq, spent, gone, rescued>>
    BY <1>4 DEF D!OnSqs, D!given
  <2>2. pos \in Nat /\ hand.kind \in {"Sqs", "Records"} /\ eventAnswer = "none"
    BY <2>1, HandFacts DEF DispatchInv, EventInHand
  <2>3. hand.kind = "Sqs" => pos = 0 /\ payload.kind = "Sqs"
    BY <2>1, <2>2, HandFacts DEF SingleFact
  <2>4. pos = 0 => hand = payload
    BY <2>1, HandFacts
  <2>5. CASE lines
    <3>1. pos = 0
      BY <2>2, <2>5 DEF DispatchInv, EventInHand
    <3>2. pos' = 0 /\ eventAnswer' = "ok" /\ hand' = D!NoBody
      BY <1>4, <2>5, <3>1 DEF D!OnSqs, D!Finished
    <3>3. EventInHand' /\ DoneIsDue' /\ NoneUnknown'
      BY <2>1, <2>2, <2>4, <2>5, <3>1, <3>2 DEF EventInHand, DoneIsDue, NoneUnknown, Refused
    <3>4. Failures'
      BY <2>1, <3>1, <3>2 DEF DispatchInv, Failures, Taken
    <3> QED
      BY <2>1, <3>3, <3>4 DEF DispatchInv
  <2>6. CASE ~lines /\ hand.kind = "Records"
    <3>1. D!BodiesOf(hand) = <<>>
      BY <2>6 DEF D!BodiesOf
    <3>2. D!Finished /\ pos' = pos /\ done' = done
      BY <1>4, <2>6, <3>1 DEF D!OnSqs
    <3>3. hand' = D!NoBody /\ eventAnswer' = IF pos = 0 THEN "ok" ELSE eventAnswer
      BY <3>2 DEF D!Finished
    <3>4. D!Due(hand) = <<>> /\ hand.kind \notin Refused /\ hand.kind # "Sqs"
      BY <2>6 DEF D!Due, Refused
    <3>5. HandledAsDue
      BY <2>1, <3>2, <3>3, <3>4 DEF HandledAsDue
    <3> QED
      BY <2>1, <3>5, HandledStep
  <2>7. CASE ~lines /\ hand.kind = "Sqs"
    <3>1. pos = 0 /\ payload.kind = "Sqs" /\ hand = payload
      BY <2>3, <2>4, <2>7
    <3>2. Len(payload.bodies) \in Nat /\ Len(payload.bodies) > 0
      <4>1. payload \notin D!Single
        BY <3>1, SingleFacts DEF SingleFact
      <4> QED
        BY <4>1, PayloadFacts DEF DispatchInv, PayloadFact
    <3>3. D!BodiesOf(hand) # <<>>
      BY <3>1, <3>2 DEF D!BodiesOf
    <3>4. pos' = 1 /\ eventAnswer' = "none" /\ hand' = D!NoBody /\ done' = done
      BY <1>4, <2>2, <2>7, <3>3 DEF D!OnSqs
    <3>5. Taken' = 0
      BY <3>4 DEF Taken
    <3>6. EventInHand'
      BY <2>1, <2>7, <3>1, <3>2, <3>4 DEF EventInHand
    <3>7. done' = Passed(0)
      BY <2>1, <2>2, <2>7, <3>1, <3>4, PassedNone DEF DispatchInv, DoneIsDue, Passed
    <3>8. Passed(0)' = Passed(0)
      BY <2>1 DEF Passed, PassedIn, OutcomeIn, D!Received, D!Rescue
    <3>9. DoneIsDue'
      BY <2>1, <3>4, <3>5, <3>7, <3>8 DEF DoneIsDue
    <3>10. NoneUnknown'
      BY <3>2, <3>4, <3>5 DEF NoneUnknown
    <3>11. Failures'
      BY <2>1, <3>1, <3>4, <3>5 DEF DispatchInv, Failures
    <3> QED
      BY <2>1, <3>6, <3>9, <3>10, <3>11 DEF DispatchInv
  <2> QED
    BY <2>2, <2>5, <2>6, <2>7
<1>5. CASE D!NextBody
  BY <1>5, NextBodyStep
<1>6. CASE D!Fails
  BY <1>6, ErrorStep DEF D!Fails, D!Failing, D!Pending, D!given
<1>7. CASE D!SendAgain \/ D!FileFailed
  BY <1>7, RescueStep
<1>8. CASE UNCHANGED D!vars
  <2>1. /\ mode' = mode /\ lines' = lines /\ payload' = payload /\ pos' = pos /\ hand' = hand
        /\ dlq' = dlq /\ spent' = spent /\ gone' = gone
        /\ done' = done /\ rescued' = rescued /\ eventAnswer' = eventAnswer
    BY <1>8 DEF D!vars, D!given
  <2>2. Taken' = Taken /\ Passed(1)' = Passed(1) /\ Passed(Taken)' = Passed(Taken)
    BY <2>1 DEF Passed, PassedIn, OutcomeIn, D!Received, D!Rescue, Taken
  <2> QED
    BY <2>1, <2>2 DEF DispatchInv, EventInHand, DoneIsDue, NoneUnknown, Failures
<1> QED
  BY <1>1, <1>2, <1>3, <1>4, <1>5, <1>6, <1>7, <1>8 DEF D!Next

\* The invariant is what the property asks for.
LEMMA DispatchImplies ==
  ASSUME D!ConstantsOK, DispatchInv
  PROVE  D!EventsAreProcessed
<1> DEFINE all == [i \in 1 .. Len(D!Received) |-> D!Outcome(i)]
<1>1. Passed(Len(D!Received)) = D!FlattenSeq(all)
  <2>1. Passed(Len(D!Received)) = Flattened(all)
    BY DEF Passed, PassedIn, OutcomeIn, D!Outcome
  <2> HIDE DEF all
  <2> QED
    BY <2>1, FlattenSeqIs
<1>2. /\ Len(D!Received) \in Nat
      /\ payload.kind = "Sqs" => D!Received = payload.bodies
      /\ payload.kind # "Sqs" => D!Received = <<payload>> /\ Len(D!Received) = 1
  BY ReceivedFacts DEF DispatchInv
<1>3. pos \in Nat
  BY DEF DispatchInv, EventInHand
<1>4. ASSUME mode = "logs", ~lines, eventAnswer = "ok"
      PROVE  done = Passed(Len(D!Received))
  <2>1. CASE pos = 0
    <3>1. done = Passed(1)
      BY <1>4, <2>1 DEF DispatchInv, DoneIsDue
    <3>2. Len(D!Received) = 1
      BY <1>2, <1>4, <2>1 DEF DispatchInv, NoneUnknown
    <3> QED
      BY <3>1, <3>2
  <2>2. CASE pos > 0
    <3>1. pos = Len(payload.bodies) + 1 /\ hand = D!NoBody /\ payload.kind = "Sqs"
      BY <1>4, <2>2 DEF DispatchInv, NoneUnknown, EventInHand
    <3>2. Taken = Len(D!Received)
      BY <1>2, <3>1 DEF Taken
    <3>3. done = Passed(Taken)
      BY <1>4, <2>2 DEF DispatchInv, DoneIsDue
    <3> QED
      BY <3>2, <3>3
  <2> QED
    BY <1>3, <2>1, <2>2
<1>5. D!OwnProcessing
  BY <1>1, <1>4 DEF D!OwnProcessing
<1>6. D!UnknownIsRefused
  <2>1. CASE pos = 0
    BY <2>1 DEF D!UnknownIsRefused, DispatchInv, NoneUnknown, Refused
  <2>2. CASE pos > 0
    <3>1. payload.kind = "Sqs"
      BY <2>2 DEF DispatchInv, EventInHand
    <3>2. ASSUME eventAnswer = "ok" PROVE \A i \in 1 .. Len(payload.bodies) : payload.bodies[i].kind \notin Refused
      <4>1. pos = Len(payload.bodies) + 1 /\ hand = D!NoBody
        BY <2>2, <3>2 DEF DispatchInv, NoneUnknown
      <4>2. Taken = Len(payload.bodies)
        BY <1>2, <3>1, <4>1 DEF Taken
      <4> QED
        BY <2>2, <4>2 DEF DispatchInv, NoneUnknown
    <3> QED
      BY <3>1, <3>2 DEF D!UnknownIsRefused, Refused
  <2> QED
    BY <1>3, <2>1, <2>2
<1>7. D!OnlyTheDlqRescues
  BY DEF DispatchInv, Failures, D!OnlyTheDlqRescues
<1> QED
  BY <1>5, <1>6, <1>7 DEF D!EventsAreProcessed

(* Every event an invocation received is passed to its own processing, in  *)
(* the order of the records and under the name its object has, if the      *)
(* invocation answers ok, or it was sent again or filed because that       *)
(* failed on the dead-letter queue; and the invocation does not answer ok  *)
(* if there is a payload of no known kind in it, but for lists of records  *)
(* in logs mode, which are taken for a queue's.                            *)
THEOREM EventsAreProcessedHolds ==
  D!Spec => []EventsAreProcessed
<1>1. D!Init => DispatchInv
  BY DispatchAssumption, DispatchInit
<1>2. DispatchInv /\ [D!Next]_D!vars => DispatchInv'
  BY DispatchAssumption, DispatchNext
<1>3. DispatchInv => EventsAreProcessed
  BY DispatchAssumption, DispatchImplies DEF EventsAreProcessed
<1> QED
  BY <1>1, <1>2, <1>3, PTL DEF D!Spec

-----------------------------------------------------------------------------
(* Module S3Object.  The lines of a text are said of the text.             *)
Line == [line : Nat, header : Nat, part : Seq(Mark)]

CountOf(t, n) == Cardinality({p \in 1 .. n : t[p] = "nl"})

PlaceOf(t, k) ==
  IF k = 0 THEN 0
  ELSE IF k > CountOf(t, Len(t)) THEN Len(t) + 1
  ELSE CHOOSE p \in DOMAIN t : t[p] = "nl" /\ CountOf(t, p) = k

Skipped(t) == IF t # <<>> /\ t[1] = "nl" THEN 1 ELSE 0

LineAt(t, k) ==
  [ line   |-> k,
    header |-> 0,
    part   |-> SubSeq(t, PlaceOf(t, k - 1) + 1, PlaceOf(t, k) - 1) ]

LinesOf(t) == [k \in 1 .. CountOf(t, Len(t)) + 1 - Skipped(t) |-> LineAt(t, k + Skipped(t))]

\* The lines of the object are those of its text.
LEMMA TextLines ==
  /\ S3!Lines = LinesOf(objectText)
  /\ \A n : S3!Newlines(n) = CountOf(objectText, n)
BY DEF S3!Lines, S3!Newline, S3!Newlines, S3!Cardinality, LinesOf, LineAt, Skipped, PlaceOf, CountOf, Cardinality

\* Newlines are counted like any positions.
LEMMA CountFacts ==
  ASSUME NEW t, NEW n \in Nat
  PROVE  CountOf(t, n) = UpTo({p \in Nat : t[p] = "nl"}, n) /\ CountOf(t, n) \in Nat
<1> DEFINE P == {p \in Nat : t[p] = "nl"}
<1>1. {p \in 1 .. n : t[p] = "nl"} = {p \in 1 .. n : p \in P}
  OBVIOUS
<1>2. CountOf(t, n) = UpTo(P, n)
  BY <1>1 DEF CountOf, UpTo
<1> HIDE DEF P
<1>3. UpTo(P, n) \in Nat
  BY UpToNext
<1> QED
  BY <1>2, <1>3 DEF P

\* The k-th newline is where k have been counted.
LEMMA PlaceFacts ==
  ASSUME NEW t \in Seq(Mark), NEW k \in 1 .. CountOf(t, Len(t))
  PROVE  /\ PlaceOf(t, k) \in 1 .. Len(t)
         /\ t[PlaceOf(t, k)] = "nl"
         /\ CountOf(t, PlaceOf(t, k)) = k
<1> DEFINE P == {p \in Nat : t[p] = "nl"}
           n == Len(t)
<1>1. n \in Nat /\ DOMAIN t = 1 .. n
  OBVIOUS
<1>2. CountOf(t, n) = UpTo(P, n) /\ CountOf(t, n) \in Nat
  <2> HIDE DEF n
  <2> QED
    BY <1>1, CountFacts
<1>3. \E p \in 1 .. n : p \in P /\ UpTo(P, p) = k
  <2> HIDE DEF n, P
  <2>1. k \in 1 .. UpTo(P, n)
    BY <1>2 DEF n
  <2> QED
    BY <1>1, <2>1, UpToPlaces
<1>4. PICK q \in 1 .. n : q \in P /\ UpTo(P, q) = k
  BY <1>3
<1>5. q \in DOMAIN t /\ t[q] = "nl" /\ CountOf(t, q) = k
  <2>1. q \in Nat
    BY <1>1
  <2>2. CountOf(t, q) = UpTo(P, q)
    BY <2>1, CountFacts
  <2> QED
    BY <1>1, <1>4, <2>2
<1>6. PlaceOf(t, k) = CHOOSE p \in DOMAIN t : t[p] = "nl" /\ CountOf(t, p) = k
  <2>1. k # 0 /\ ~ (k > CountOf(t, n))
    BY <1>2
  <2> QED
    BY <2>1 DEF PlaceOf
<1>7. \E p \in DOMAIN t : t[p] = "nl" /\ CountOf(t, p) = k
  BY <1>5
<1> DEFINE c == CHOOSE p \in DOMAIN t : t[p] = "nl" /\ CountOf(t, p) = k
<1>8. c \in DOMAIN t /\ t[c] = "nl" /\ CountOf(t, c) = k
  BY <1>7
<1> QED
  BY <1>1, <1>6, <1>8

(* The borders of line k of t.                                             *)
Borders(t, k, a, b) ==
  /\ a \in Nat /\ b \in Nat /\ a < b /\ b <= Len(t) + 1
  /\ a = PlaceOf(t, k - 1) /\ b = PlaceOf(t, k)
  /\ k <= CountOf(t, Len(t)) => b <= Len(t) /\ t[b] = "nl" /\ CountOf(t, b) = k

\* A line lies between two newlines, or a newline and an end of the text.
LEMMA LineBorders ==
  ASSUME NEW t \in Seq(Mark), NEW k \in 1 .. CountOf(t, Len(t)) + 1
  PROVE  \E a, b \in Nat : Borders(t, k, a, b)
<1> DEFINE n == Len(t)
           c == CountOf(t, n)
           a == PlaceOf(t, k - 1)
           b == PlaceOf(t, k)
           P == {p \in Nat : t[p] = "nl"}
<1>1. n \in Nat
  OBVIOUS
<1>2. c \in Nat
  BY <1>1, CountFacts
<1>3. k = 1 => a = 0
  BY DEF PlaceOf
<1>4. k > 1 => a \in 1 .. n /\ CountOf(t, a) = k - 1
  <2> SUFFICES ASSUME k > 1 PROVE a \in 1 .. n /\ CountOf(t, a) = k - 1
    OBVIOUS
  <2> DEFINE j == k - 1
  <2>1. j \in 1 .. CountOf(t, Len(t))
    BY <1>2
  <2> HIDE DEF j
  <2>2. PlaceOf(t, j) \in 1 .. Len(t) /\ CountOf(t, PlaceOf(t, j)) = j
    BY <2>1, PlaceFacts
  <2> QED
    BY <2>2 DEF j
<1>5. k = c + 1 => b = n + 1
  BY <1>2 DEF PlaceOf
<1>6. k <= c => b \in 1 .. n /\ t[b] = "nl" /\ CountOf(t, b) = k
  <2> SUFFICES ASSUME k <= c PROVE b \in 1 .. n /\ t[b] = "nl" /\ CountOf(t, b) = k
    OBVIOUS
  <2>1. k \in 1 .. CountOf(t, Len(t))
    BY <1>2
  <2> QED
    BY <2>1, PlaceFacts
<1>7. k = c + 1 \/ k <= c
  BY <1>2
<1> HIDE DEF a, b, c, n
<1>8. a \in 0 .. n /\ b \in 1 .. n + 1
  BY <1>1, <1>2, <1>3, <1>4, <1>5, <1>6, <1>7
<1>9. a < b
  <2>1. CASE k = 1 \/ k = c + 1
    BY <1>1, <1>2, <1>3, <1>5, <1>8, <2>1
  <2>2. CASE ~ (k = 1 \/ k = c + 1)
    <3>1. a \in Nat /\ b \in Nat /\ CountOf(t, a) = k - 1 /\ CountOf(t, b) = k
      BY <1>1, <1>2, <1>4, <1>6, <1>7, <2>2
    <3>2. CountOf(t, a) = UpTo(P, a) /\ CountOf(t, b) = UpTo(P, b)
      BY <3>1, CountFacts
    <3> HIDE DEF P
    <3>3. b < a => UpTo(P, b) <= UpTo(P, a)
      BY <3>1, UpToGrows
    <3> QED
      BY <1>2, <3>1, <3>2, <3>3
  <2> QED
    BY <2>1, <2>2
<1>10. Borders(t, k, a, b)
  <2>1. k <= c => b <= n /\ t[b] = "nl" /\ CountOf(t, b) = k
    BY <1>1, <1>6
  <2> QED
    BY <1>1, <1>8, <1>9, <2>1 DEF Borders, a, b, c, n
<1> QED
  BY <1>1, <1>8, <1>10

(* What f says of t: a line that ends within t is what stands before its   *)
(* newline.                                                                *)
EndsWithin(t, x) ==
  x.line <= CountOf(t, Len(t)) =>
    \E p \in 1 .. Len(t) :
      /\ p > Len(x.part) /\ t[p] = "nl"
      /\ SubSeq(t, p - Len(x.part), p - 1) = x.part
      /\ x.line = CountOf(t, p)

Later == {p \in Line \X Line : p[1].line < p[2].line}

\* A line is a part of the text.
LEMMA LineFacts ==
  ASSUME NEW t \in Seq(Mark), NEW k \in 1 .. CountOf(t, Len(t)) + 1
  PROVE  LineAt(t, k) \in Line /\ EndsWithin(t, LineAt(t, k))
<1>1. PICK a \in Nat, b \in Nat : Borders(t, k, a, b)
  BY LineBorders
<1> DEFINE n == Len(t)
           x == LineAt(t, k)
           i == a + 1
           j == b - 1
<1>2. /\ n \in Nat /\ a < b /\ b <= n + 1
      /\ k <= CountOf(t, n) => b \in 1 .. n /\ t[b] = "nl" /\ CountOf(t, b) = k
  BY <1>1 DEF Borders
<1>3. x = [line |-> k, header |-> 0, part |-> SubSeq(t, i, j)]
  BY <1>1 DEF LineAt, Borders
<1>4. i \in Nat \ {0} /\ j \in Nat /\ j <= n /\ j - i + 1 = j - a /\ j >= a /\ b - (j - a) = i
  BY <1>2
<1>5. SubSeq(t, i, j) \in Seq(Mark) /\ Len(SubSeq(t, i, j)) = j - a
  <2> HIDE DEF i, j, n
  <2>1. i \in 1 .. n + 1 /\ j \in i - 1 .. n
    <3>1. i - 1 = a /\ a \in Nat /\ a <= n
      BY <1>2 DEF i
    <3> QED
      BY <1>2, <1>4, <3>1
  <2>2. SubSeq(t, i, j) \in Seq(Mark) /\ Len(SubSeq(t, i, j)) = j - i + 1
    <3>1. i \in 1 .. Len(t) + 1 /\ j \in i - 1 .. Len(t)
      BY <2>1 DEF n
    <3> QED
      BY <3>1, SubSeqProperties
  <2> QED
    BY <1>4, <2>2
<1>6. k \in Nat
  <2>1. CountOf(t, n) \in Nat
    <3> HIDE DEF n
    <3> QED
      BY <1>2, CountFacts
  <2> QED
    BY <2>1
<1> HIDE DEF x
<1>7. x.line = k /\ x.part = SubSeq(t, i, j) /\ x \in Line
  BY <1>3, <1>5, <1>6 DEF Line
<1>8. EndsWithin(t, x)
  <2> SUFFICES ASSUME k <= CountOf(t, Len(t))
               PROVE  /\ b \in 1 .. Len(t) /\ b > Len(x.part) /\ t[b] = "nl"
                      /\ SubSeq(t, b - Len(x.part), b - 1) = x.part
                      /\ x.line = CountOf(t, b)
    BY <1>7 DEF EndsWithin
  <2>1. Len(x.part) = j - a
    BY <1>5, <1>7
  <2>2. b > j - a /\ b - (j - a) = i
    BY <1>4
  <2> QED
    BY <1>2, <1>7, <2>1, <2>2
<1> QED
  BY <1>7, <1>8 DEF x

(* The lines f of t.                                                       *)
AllLines(t, f) ==
  /\ f \in Seq(Line) /\ Len(f) \in Nat /\ Len(f) >= 1 /\ DOMAIN f = 1 .. Len(f)
  /\ \A k \in DOMAIN f : f[k].line = k + Skipped(t) /\ f[k].header = 0 /\ EndsWithin(t, f[k])
  /\ Pairwise(Later, f)

\* A text has a line, and its lines are numbered.
LEMMA LinesFacts ==
  ASSUME NEW t \in Seq(Mark)
  PROVE  AllLines(t, LinesOf(t))
<1> DEFINE c == CountOf(t, Len(t))
           d == Skipped(t)
           n == c + 1 - d
           f == LinesOf(t)
<1>1. Len(t) \in Nat /\ c \in Nat
  <2> DEFINE m == Len(t)
  <2>1. m \in Nat
    OBVIOUS
  <2> HIDE DEF m
  <2>2. CountOf(t, m) \in Nat
    BY <2>1, CountFacts
  <2> QED
    BY <2>1, <2>2 DEF m
<1>2. d \in {0, 1} /\ d <= c
  <2>1. CASE t # <<>> /\ t[1] = "nl"
    <3> DEFINE P == {p \in Nat : t[p] = "nl"}
    <3>1. Len(t) >= 1 /\ d = 1
      BY <2>1 DEF Skipped
    <3>2. 1 \in P
      BY <2>1
    <3> DEFINE m == Len(t)
    <3>3. m \in Nat /\ m >= 1
      BY <3>1
    <3>4. c = CountOf(t, m)
      OBVIOUS
    <3> HIDE DEF m, c, d
    <3>5. CountOf(t, m) = UpTo(P, m)
      BY <3>3, CountFacts
    <3> HIDE DEF P
    <3>6. UpTo(P, 0) = 0 /\ UpTo(P, 1) \in Nat /\ UpTo(P, 0) < UpTo(P, 1) /\ UpTo(P, m) \in Nat
      BY <3>2, <3>3, UpToNext, UpToGrows
    <3>7. UpTo(P, 1) <= UpTo(P, m)
      <4>1. CASE m = 1
        BY <3>6, <4>1
      <4>2. CASE m # 1
        <5>1. 1 < m
          BY <3>3, <4>2
        <5> QED
          BY <3>3, <5>1, UpToGrows
      <4> QED
        BY <4>1, <4>2
    <3> QED
      BY <3>1, <3>4, <3>5, <3>6, <3>7
  <2>2. CASE ~ (t # <<>> /\ t[1] = "nl")
    BY <1>1, <2>2 DEF Skipped
  <2> QED
    BY <2>1, <2>2
<1>3. n \in Nat /\ n >= 1
  BY <1>1, <1>2
<1>4. ASSUME NEW k \in 1 .. n
      PROVE  /\ LineAt(t, k + d) \in Line
             /\ LineAt(t, k + d).line = k + d /\ LineAt(t, k + d).header = 0
             /\ EndsWithin(t, LineAt(t, k + d))
  <2> DEFINE j == k + d
  <2>1. j \in 1 .. CountOf(t, Len(t)) + 1
    BY <1>1, <1>2
  <2> HIDE DEF j
  <2>2. LineAt(t, j) \in Line /\ EndsWithin(t, LineAt(t, j))
    BY <2>1, LineFacts
  <2>3. LineAt(t, j).line = j /\ LineAt(t, j).header = 0
    BY DEF LineAt
  <2> QED
    BY <2>2, <2>3 DEF j
<1>5. DOMAIN f = 1 .. n /\ \A k \in 1 .. n : f[k] = LineAt(t, k + d)
  BY DEF LinesOf
<1>6. f = [k \in 1 .. n |-> f[k]]
  BY DEF LinesOf
<1> HIDE DEF f, c, d, n
<1>7. f \in Seq(Line) /\ Len(f) = n
  <2>1. f \in [1 .. n -> Line]
    BY <1>4, <1>5, <1>6
  <2> QED
    BY <1>3, <2>1
<1>8. \A k \in 1 .. n : f[k] \in Line /\ f[k].line = k + d /\ f[k].header = 0 /\ EndsWithin(t, f[k])
  BY <1>4, <1>5
<1>9. Pairwise(Later, f)
  <2> SUFFICES ASSUME NEW j \in 1 .. n, NEW k \in 1 .. n, j < k PROVE <<f[j], f[k]>> \in Later
    BY <1>5 DEF Pairwise
  <2>1. j + d < k + d
    BY <1>2, <1>3
  <2>2. f[j].line < f[k].line
    BY <1>8, <2>1
  <2> QED
    BY <1>8, <2>2 DEF Later
<1> QED
  BY <1>3, <1>5, <1>7, <1>8, <1>9 DEF AllLines, f, d

-----------------------------------------------------------------------------
Blocks(b, x) == b /\ \E p \in DOMAIN x.part : x.part[p] = "b"

Unblocking(b) == {x \in Line : ~ Blocks(b, x)}

Written == {x \in Line : ~ S3!Blank(x)}

\* The operators of the object, in terms of those of DataFacts.
LEMMA ObjectOperators ==
  ASSUME NEW s \in Seq(Line)
  PROVE  /\ S3!NotBlank(s) = Kept(s, Written)
         /\ S3!Unblocked(s) = Kept(s, Unblocking(blocking))
         /\ S3!Sample(s) = EveryNth(s, sampling)
         /\ S3!ToSet(s) = Elements(s)
<1>1. \A ss : S3!FlattenSeq(ss) = Flattened(ss)
  BY DEF S3!FlattenSeq, Flattened, IsFlattening
<1>2. \A k \in DOMAIN s : s[k] \in Line
  OBVIOUS
<1>3. S3!NotBlank(s) = Kept(s, Written)
  <2>1. [k \in DOMAIN s |-> IF S3!Blank(s[k]) THEN <<>> ELSE <<s[k]>>]
        = [k \in DOMAIN s |-> IF s[k] \in Written THEN <<s[k]>> ELSE <<>>]
    BY <1>2 DEF Written
  <2> QED
    BY <1>1, <2>1 DEF S3!NotBlank, Kept
<1>4. S3!Unblocked(s) = Kept(s, Unblocking(blocking))
  <2>1. \A x : S3!Blocked(x) <=> Blocks(blocking, x)
    BY DEF S3!Blocked, Blocks
  <2>2. [k \in DOMAIN s |-> IF S3!Blocked(s[k]) THEN <<>> ELSE <<s[k]>>]
        = [k \in DOMAIN s |-> IF s[k] \in Unblocking(blocking) THEN <<s[k]>> ELSE <<>>]
    BY <1>2, <2>1 DEF Unblocking
  <2> QED
    BY <1>1, <2>2 DEF S3!Unblocked, Kept
<1>5. S3!Sample(s) = EveryNth(s, sampling)
  BY DEF S3!Sample, EveryNth
<1>6. S3!ToSet(s) = Elements(s)
  BY DEF S3!ToSet, Elements
<1> QED
  BY <1>3, <1>4, <1>5, <1>6

(* l is every m-th of the unblocked logs f.                                *)
Sampled(b, m, f, l) ==
  \A k \in DOMAIN f :
    f[k] \in Elements(l) <=>
      ~ Blocks(b, f[k]) /\ Cardinality({j \in 1 .. k - 1 : ~ Blocks(b, f[j])}) % m = 0

\* Every m-th of those kept is what is shipped.
LEMMA SelectedSampled ==
  ASSUME NEW f \in Seq(Line), Pairwise(Later, f), NEW b, NEW m \in Nat \ {0}
  PROVE  Sampled(b, m, f, EveryNth(Kept(f, Unblocking(b)), m))
<1> DEFINE F == Unblocking(b)
           u == Kept(f, F)
           e == EveryNth(u, m)
           P == {k \in Nat : f[k] \in F}
<1>1. Len(f) \in Nat /\ DOMAIN f = 1 .. Len(f) /\ \A k \in DOMAIN f : f[k] \in Line
  OBVIOUS
<1>2. /\ u \in Seq(Line) /\ Len(u) = UpTo(P, Len(f))
      /\ \A k \in DOMAIN f : f[k] \in F => u[UpTo(P, k)] = f[k]
  <2> HIDE DEF F
  <2>1. P = Places(f, F)
    BY DEF Places
  <2> HIDE DEF P
  <2> QED
    BY <2>1, KeptFacts
<1>3. Elements(u) = Elements(f) \cap F /\ Pairwise(Later, u)
  <2> HIDE DEF F
  <2> QED
    BY KeptElements
<1> HIDE DEF u
<1>4. /\ e \in Seq(Line)
      /\ \A k \in DOMAIN e : (k - 1) * m + 1 \in DOMAIN u /\ e[k] = u[(k - 1) * m + 1]
      /\ \A i \in DOMAIN u : (i - 1) % m = 0 => \E k \in DOMAIN e : i = (k - 1) * m + 1
  BY <1>2, EveryNthPlaces
<1> HIDE DEF e
<1>5. ASSUME NEW i \in DOMAIN u, NEW j \in DOMAIN u, u[i] = u[j] PROVE i = j
  <2>1. i \in Nat /\ j \in Nat /\ u[i] \in Line
    BY <1>2
  <2>2. ASSUME NEW x \in DOMAIN u, NEW y \in DOMAIN u, x < y, u[x] = u[y] PROVE FALSE
    <3>1. <<u[x], u[y]>> \in Later
      BY <1>3, <2>2 DEF Pairwise
    <3>2. u[x].line < u[y].line /\ u[x].line \in Nat
      BY <3>1 DEF Later, Line
    <3> QED
      BY <2>2, <3>2
  <2> QED
    BY <1>5, <2>1, <2>2
<1>6. ASSUME NEW k \in DOMAIN f
      PROVE  f[k] \in Elements(e) <=>
               ~ Blocks(b, f[k]) /\ Cardinality({j \in 1 .. k - 1 : ~ Blocks(b, f[j])}) % m = 0
  <2> DEFINE x == k - 1
             c == UpTo(P, x)
  <2>1. x \in Nat /\ x + 1 = k /\ k \in Nat /\ k \in 1 .. Len(f)
    BY <1>1
  <2>2. Cardinality({j \in 1 .. k - 1 : ~ Blocks(b, f[j])}) = c
    <3>1. \A j \in 1 .. x : j \in Nat /\ (j \in P <=> ~ Blocks(b, f[j]))
      BY <1>1, <2>1 DEF Unblocking
    <3>2. {j \in 1 .. x : ~ Blocks(b, f[j])} = {j \in 1 .. x : j \in P}
      BY <3>1
    <3> QED
      BY <3>2 DEF UpTo
  <2>3. k \in P <=> ~ Blocks(b, f[k])
    BY <1>1, <2>1 DEF Unblocking
  <2>4. k \in P <=> f[k] \in F
    BY <2>1
  <2> HIDE DEF x, P, F
  <2>5. c \in Nat /\ UpTo(P, k) = c + (IF k \in P THEN 1 ELSE 0)
    <3>1. UpTo(P, x) \in Nat /\ UpTo(P, x + 1) = UpTo(P, x) + (IF x + 1 \in P THEN 1 ELSE 0)
      BY <2>1, UpToNext
    <3> QED
      BY <2>1, <3>1
  <2> DEFINE i == UpTo(P, k)
  <2>6. k \in P => i \in DOMAIN u /\ u[i] = f[k] /\ i = c + 1 /\ i - 1 = c
    <3> SUFFICES ASSUME k \in P PROVE i \in DOMAIN u /\ u[i] = f[k] /\ i = c + 1 /\ i - 1 = c
      OBVIOUS
    <3>1. i = c + 1
      BY <2>5
    <3> DEFINE n == Len(f)
    <3>2. n \in Nat /\ k <= n
      BY <1>1, <2>1
    <3>3. Len(u) = UpTo(P, n)
      BY <1>2
    <3> HIDE DEF c, n
    <3>4. UpTo(P, k) <= UpTo(P, n) /\ UpTo(P, n) \in Nat
      <4>1. CASE k = n
        BY <2>5, <3>1, <4>1
      <4>2. CASE k # n
        <5>1. k < n
          BY <2>1, <3>2, <4>2
        <5> QED
          BY <2>1, <3>2, <5>1, UpToGrows, UpToNext
      <4> QED
        BY <4>1, <4>2
    <3>5. DOMAIN u = 1 .. Len(u)
      BY <1>2
    <3>6. i \in 1 .. Len(u)
      BY <2>5, <3>1, <3>3, <3>4
    <3>7. u[i] = f[k]
      BY <1>2, <2>4
    <3> QED
      BY <2>5, <3>1, <3>5, <3>6, <3>7
  <2> HIDE DEF c, i
  <2>7. ASSUME k \in P, c % m = 0 PROVE f[k] \in Elements(e)
    <3>1. PICK q \in DOMAIN e : i = (q - 1) * m + 1
      BY <1>4, <2>6, <2>7
    <3>2. e[q] = f[k]
      BY <1>4, <2>6, <2>7, <3>1
    <3> QED
      BY <3>2 DEF Elements
  <2>8. ASSUME f[k] \in Elements(e) PROVE k \in P /\ c % m = 0
    <3>1. PICK q \in DOMAIN e : e[q] = f[k]
      BY <2>8 DEF Elements
    <3> DEFINE a == (q - 1) * m + 1
    <3>2. a \in DOMAIN u /\ u[a] = f[k]
      BY <1>4, <3>1
    <3>3. q - 1 \in Nat
      BY <1>4
    <3>4. a - 1 = m * (q - 1)
      BY <3>3
    <3> HIDE DEF a
    <3>5. f[k] \in F
      <4>1. f[k] \in Elements(u)
        BY <3>2 DEF Elements
      <4> QED
        BY <1>3, <4>1
    <3>6. k \in P
      BY <2>4, <3>5
    <3>7. a = i
      BY <1>5, <2>6, <3>2, <3>6
    <3>8. (a - 1) % m = 0
      <4> DEFINE y == q - 1
      <4>1. y \in Nat /\ a - 1 = m * y
        BY <3>3, <3>4
      <4> HIDE DEF y
      <4>2. (m * y) % m = 0
        BY <4>1
      <4> QED
        BY <4>1, <4>2
    <3> QED
      BY <2>6, <3>6, <3>7, <3>8
  <2> QED
    BY <2>2, <2>3, <2>7, <2>8
<1> QED
  BY <1>6 DEF Sampled, e, u

-----------------------------------------------------------------------------
Versions(kd, t) == kd # "VpcFlow" /\ LinesOf(t)[1].part # <<>> /\ LinesOf(t)[1].part[1] = "#"

(* Rows f of t are data: S3!RowsAreData.                                   *)
RowsData(kd, t, f) ==
  kd \in {"VpcFlow", "S3Csv", "CloudFront"} => \A k \in DOMAIN f :
    /\ f[k].header < f[k].line
    /\ f[k].header = f[1].header
    /\ ~ S3!Blank(f[k])
    /\ \E j \in DOMAIN LinesOf(t) :
         /\ j > 1
         /\ LinesOf(t)[j].line = f[k].line
         /\ Versions(kd, t) => j > 2 /\ f[k].header = LinesOf(t)[2].line

HeadersOf(kd, t) == IF Versions(kd, t) THEN 2 ELSE 1

HeaderLineOf(kd, t, c) == IF c /\ ~ Versions(kd, t) THEN 0 ELSE LinesOf(t)[HeadersOf(kd, t)].line

(* The lines of t behind the headers.                                      *)
Behind(kd, t) == SubSeq(LinesOf(t), HeadersOf(kd, t) + 1, Len(LinesOf(t)))

(* The rows of t.                                                          *)
RowsOf(kd, t, c) ==
  LET rows == Kept(Behind(kd, t), Written) IN
  [k \in DOMAIN rows |-> [rows[k] EXCEPT !.header = HeaderLineOf(kd, t, c)]]

\* The lines behind the headers are lines with a greater number.
LEMMA BehindFacts ==
  ASSUME NEW t \in Seq(Mark), NEW kd, Len(LinesOf(t)) >= HeadersOf(kd, t)
  PROVE  /\ Behind(kd, t) \in Seq(Line)
         /\ \A x \in Elements(Behind(kd, t)) :
              \E j \in DOMAIN LinesOf(t) : j > HeadersOf(kd, t) /\ x = LinesOf(t)[j]
         /\ Pairwise(Later, Behind(kd, t))
<1> DEFINE f == LinesOf(t)
           h == HeadersOf(kd, t)
           n == Len(f)
           b == SubSeq(f, h + 1, n)
<1>1. AllLines(t, f)
  BY LinesFacts
<1>2. h \in {1, 2}
  BY DEF HeadersOf
<1> HIDE DEF f, h
<1>3. /\ f \in Seq(Line) /\ n \in Nat /\ DOMAIN f = 1 .. n /\ Pairwise(Later, f)
      /\ h <= n
  BY <1>1 DEF AllLines, f, h
<1>4. /\ b \in Seq(Line) /\ Len(b) = n - h
      /\ \A i \in 1 .. n - h : b[i] = f[h + i]
  <2> HIDE DEF n
  <2>1. \A i \in h + 1 .. n : f[i] \in Line
    BY <1>2, <1>3
  <2>2. h + 1 \in Int /\ n \in Int
    BY <1>2, <1>3
  <2>3. /\ SubSeq(f, h + 1, n) \in Seq(Line)
        /\ Len(SubSeq(f, h + 1, n)) = IF h + 1 <= n THEN n - (h + 1) + 1 ELSE 0
        /\ \A i \in 1 .. n - (h + 1) + 1 : SubSeq(f, h + 1, n)[i] = f[(h + 1) + i - 1]
    BY <2>1, <2>2, SubSeqProperties
  <2> HIDE DEF b
  <2>4. n - (h + 1) + 1 = n - h /\ (h + 1 <= n \/ n - h = 0)
    BY <1>2, <1>3
  <2>5. \A i \in 1 .. n - h : (h + 1) + i - 1 = h + i
    BY <1>2, <1>3
  <2>6. Len(b) = n - h
    BY <2>3, <2>4 DEF b
  <2> QED
    BY <2>3, <2>4, <2>5, <2>6 DEF b
<1> HIDE DEF b, n
<1>5. DOMAIN b = 1 .. n - h
  BY <1>4
<1>6. \A i \in DOMAIN b : h + i \in DOMAIN f /\ h + i > h /\ b[i] = f[h + i]
  BY <1>2, <1>3, <1>4, <1>5
<1>7. \A x \in Elements(b) : \E j \in DOMAIN f : j > h /\ x = f[j]
  BY <1>6 DEF Elements
<1>8. ASSUME NEW i \in DOMAIN b, NEW j \in DOMAIN b, i < j PROVE <<b[i], b[j]>> \in Later
  <2>1. h + i < h + j
    BY <1>2, <1>3, <1>5, <1>8
  <2>2. <<f[h + i], f[h + j]>> \in Later
    BY <1>3, <1>6, <2>1 DEF Pairwise
  <2> QED
    BY <1>6, <2>2
<1>9. Behind(kd, t) = b
  BY DEF Behind, b, n, f, h
<1> QED
  BY <1>4, <1>7, <1>8, <1>9 DEF Pairwise, f, h

\* Rows are data, in order.
LEMMA RowsFacts ==
  ASSUME NEW t \in Seq(Mark), NEW kd, NEW c, Len(LinesOf(t)) >= HeadersOf(kd, t)
  PROVE  /\ RowsOf(kd, t, c) \in Seq(Line)
         /\ Pairwise(Later, RowsOf(kd, t, c))
         /\ RowsData(kd, t, RowsOf(kd, t, c))
<1> DEFINE L == LinesOf(t)
           b == Behind(kd, t)
           h == HeadersOf(kd, t)
           y == HeaderLineOf(kd, t, c)
           r == Kept(b, Written)
           f == RowsOf(kd, t, c)
<1>1. AllLines(t, L)
  BY LinesFacts
<1>2. /\ b \in Seq(Line)
      /\ \A x \in Elements(b) : \E j \in DOMAIN L : j > h /\ x = L[j]
      /\ Pairwise(Later, b)
  BY BehindFacts
<1>3. r \in Seq(Line) /\ Elements(r) = Elements(b) \cap Written /\ Pairwise(Later, r)
  <2> HIDE DEF b
  <2>1. r \in Seq(Line)
    BY <1>2, KeptFacts
  <2> QED
    BY <1>2, <2>1, KeptElements
<1>4. h \in {1, 2} /\ h <= Len(L) /\ (Versions(kd, t) => h = 2)
  BY DEF HeadersOf
<1>5. f = [k \in DOMAIN r |-> [r[k] EXCEPT !.header = y]]
  BY DEF RowsOf
<1>6. Skipped(t) \in {0, 1}
  BY DEF Skipped
<1>7. y \in Nat /\ y <= h + Skipped(t) /\ (Versions(kd, t) => y = L[2].line)
  <2> HIDE DEF L, h
  <2>1. h \in DOMAIN L /\ L[h].line = h + Skipped(t)
    BY <1>1, <1>4 DEF AllLines
  <2>2. y = 0 \/ y = L[h].line
    BY DEF HeaderLineOf, h, L
  <2>3. Versions(kd, t) => y = L[h].line
    BY DEF HeaderLineOf, h, L
  <2> QED
    BY <1>4, <1>6, <2>1, <2>2, <2>3
<1> HIDE DEF L, b, h, y, r, f
<1>8. DOMAIN f = DOMAIN r /\ Len(r) \in Nat /\ DOMAIN r = 1 .. Len(r)
  BY <1>3, <1>5
<1>9. \A k \in DOMAIN r : /\ r[k] \in Line
                          /\ f[k] = [r[k] EXCEPT !.header = y]
  BY <1>3, <1>5
<1>10. \A k \in DOMAIN r : /\ f[k] \in Line /\ f[k].line = r[k].line
                           /\ f[k].header = y /\ f[k].part = r[k].part
  BY <1>7, <1>9 DEF Line
<1>11. f \in Seq(Line)
  <2>1. f = [k \in 1 .. Len(r) |-> f[k]]
    BY <1>5, <1>8
  <2>2. f \in [1 .. Len(r) -> Line]
    BY <1>8, <1>10, <2>1
  <2> QED
    BY <1>8, <2>2
<1>12. Pairwise(Later, f)
  <2> SUFFICES ASSUME NEW i \in DOMAIN r, NEW j \in DOMAIN r, i < j PROVE <<f[i], f[j]>> \in Later
    BY <1>8 DEF Pairwise
  <2>1. <<r[i], r[j]>> \in Later
    BY <1>3 DEF Pairwise
  <2>2. r[i].line < r[j].line
    BY <2>1 DEF Later
  <2> QED
    BY <1>10, <2>2 DEF Later
<1>13. ASSUME NEW k \in DOMAIN r
       PROVE  /\ f[k].header < f[k].line /\ f[k].header = f[1].header /\ ~ S3!Blank(f[k])
              /\ \E j \in DOMAIN L : /\ j > 1 /\ L[j].line = f[k].line
                                     /\ Versions(kd, t) => j > 2 /\ f[k].header = L[2].line
  <2>1. r[k] \in Elements(b) /\ r[k] \in Written
    <3>1. r[k] \in Elements(r)
      BY DEF Elements
    <3> QED
      BY <1>3, <3>1
  <2>2. PICK j \in DOMAIN L : j > h /\ r[k] = L[j]
    BY <1>2, <2>1
  <2>3. L[j].line = j + Skipped(t) /\ j \in Nat
    BY <1>1 DEF AllLines
  <2>4. f[k].line = j + Skipped(t) /\ f[k].header = y /\ L[j].line = f[k].line
    BY <1>10, <2>2, <2>3
  <2>5. f[k].header < f[k].line
    BY <1>4, <1>6, <1>7, <2>2, <2>3, <2>4
  <2>6. f[k].header = f[1].header
    <3>1. 1 \in DOMAIN r
      BY <1>8
    <3> QED
      BY <1>10, <3>1
  <2>7. ~ S3!Blank(f[k])
    <3>1. ~ S3!Blank(r[k])
      BY <2>1 DEF Written
    <3> QED
      BY <1>10, <3>1 DEF S3!Blank
  <2>8. j > 1 /\ (Versions(kd, t) => j > 2 /\ f[k].header = L[2].line)
    BY <1>4, <1>7, <2>2, <2>3, <2>4
  <2> QED
    BY <2>4, <2>5, <2>6, <2>7, <2>8
<1>14. RowsData(kd, t, f)
  BY <1>8, <1>13 DEF RowsData, L
<1> QED
  BY <1>11, <1>12, <1>14 DEF f

-----------------------------------------------------------------------------
(* t is the object o as far as it was decompressed.                        *)
PartOf(t, o) == Len(t) <= Len(o) /\ \A p \in 1 .. Len(t) : t[p] = o[p]

(* What f says of its text, which it is all of until the logs are found.   *)
Extraction(kd, t, f) ==
  /\ f \in Seq(Line) /\ Pairwise(Later, f)
  /\ RowsData(kd, t, f)
  /\ kd = "S3" => \A k \in DOMAIN f : EndsWithin(t, f[k])

ObjectTypeOK ==
  /\ kind \in S3!Kind /\ sampling \in Nat
  /\ object \in Seq(Mark) /\ objectText \in Seq(Mark)
  /\ extracted \in Seq(Line) /\ kept \in Seq(Line)

(* The inductive invariant of S3Object.                                    *)
ObjectInv ==
  /\ ObjectTypeOK
  /\ PartOf(objectText, object)
  /\ stage \in {"download", "unzip", "parse"} => extracted = <<>>
  /\ Extraction(kind, objectText, extracted)
  /\ Pairwise(Later, kept)
  /\ stage = "ship" /\ objectAnswer = "none" => Sampled(blocking, sampling, extracted, kept)

\* No log says nothing wrong.
LEMMA NoLogs ==
  ASSUME NEW f, f = <<>>
  PROVE  /\ f \in Seq(Line) /\ Pairwise(Later, f)
         /\ \A kd, t : Extraction(kd, t, f)
         /\ \A b, m, l : Sampled(b, m, f, l)
<1>1. f \in Seq(Line) /\ DOMAIN f = {}
  OBVIOUS
<1> QED
  BY <1>1 DEF Pairwise, Extraction, RowsData, Sampled

\* Nothing is found at first.
LEMMA ObjectInit == ASSUME S3!ConstantsOK, S3!Init PROVE ObjectInv
<1> USE DEF S3!Init, S3!ConstantsOK
<1>1. PICK n \in 0 .. MaxMarks : object \in [1 .. n -> Mark]
  OBVIOUS
<1>2. object \in Seq(Mark)
  <2>1. n \in Nat
    OBVIOUS
  <2> QED
    BY <1>1, <2>1
<1>3. kind \in S3!Kind /\ sampling \in Nat
  OBVIOUS
<1>4. objectText = <<>> /\ extracted = <<>> /\ kept = <<>> /\ stage = "download"
  OBVIOUS
<1>5. PartOf(objectText, object)
  BY <1>2, <1>4 DEF PartOf
<1>6. objectText \in Seq(Mark)
  BY <1>4
<1> QED
  BY <1>2, <1>3, <1>4, <1>5, <1>6, NoLogs DEF ObjectInv, ObjectTypeOK

\* Another part of the object is taken before anything is found in it.
LEMMA TextTaken ==
  ASSUME ObjectInv, stage = "unzip", stage' = "parse",
         UNCHANGED <<S3!input, extracted, kept, objectAnswer>>,
         objectText' \in Seq(Mark), PartOf(objectText', object)
  PROVE  ObjectInv'
<1>1. extracted' = <<>> /\ extracted' = extracted /\ kept' = kept
  BY DEF ObjectInv
<1>2. Extraction(kind', objectText', extracted')
  BY <1>1, NoLogs
<1>3. kind' = kind /\ sampling' = sampling /\ object' = object
  BY DEF S3!input
<1>4. ObjectTypeOK'
  BY <1>1, <1>3 DEF ObjectInv, ObjectTypeOK
<1>5. Pairwise(Later, kept')
  BY <1>1 DEF ObjectInv
<1> QED
  BY <1>1, <1>2, <1>3, <1>4, <1>5 DEF ObjectInv

\* The text is taken apart.
LEMMA TextParsed ==
  ASSUME ObjectInv, stage' = "select",
         UNCHANGED <<S3!input, objectText, kept, objectAnswer>>,
         Extraction(kind, objectText, extracted')
  PROVE  ObjectInv'
<1>1. kind' = kind /\ sampling' = sampling /\ object' = object /\ kept' = kept /\ objectText' = objectText
  BY DEF S3!input
<1>2. extracted' \in Seq(Line)
  BY DEF Extraction
<1>3. ObjectTypeOK'
  BY <1>1, <1>2 DEF ObjectInv, ObjectTypeOK
<1>4. Extraction(kind', objectText', extracted')
  BY <1>1
<1>5. Pairwise(Later, kept') /\ PartOf(objectText', object')
  BY <1>1 DEF ObjectInv
<1> QED
  BY <1>3, <1>4, <1>5 DEF ObjectInv

\* Every step keeps the invariant.
LEMMA ObjectNext == ASSUME S3!ConstantsOK, ObjectInv, [S3!Next]_S3!vars PROVE ObjectInv'
<1>0. /\ kind \in S3!Kind /\ sampling \in Nat
      /\ object \in Seq(Mark) /\ objectText \in Seq(Mark)
      /\ extracted \in Seq(Line) /\ kept \in Seq(Line) /\ Pairwise(Later, extracted)
  BY DEF ObjectInv, ObjectTypeOK, Extraction
<1>1. CASE S3!Mismatch
  <2>1. /\ stage = "download" /\ stage' = "ship" /\ UNCHANGED <<S3!input, objectText, extracted, kept, objectAnswer>>
    BY <1>1 DEF S3!Mismatch, S3!At
  <2>2. extracted' = <<>>
    BY <2>1 DEF ObjectInv
  <2>3. Sampled(blocking', sampling', extracted', kept') /\ Extraction(kind', objectText', extracted')
    BY <2>2, NoLogs
  <2>4. ObjectTypeOK' /\ PartOf(objectText', object') /\ Pairwise(Later, kept')
    BY <2>1 DEF ObjectInv, ObjectTypeOK, S3!input
  <2> QED
    BY <2>2, <2>3, <2>4 DEF ObjectInv
<1>2. CASE S3!Download
  <2>1. /\ stage = "download" /\ stage' = "unzip" /\ UNCHANGED <<S3!input, objectText, extracted, kept, objectAnswer>>
    BY <1>2 DEF S3!Download, S3!At
  <2>2. extracted' = <<>>
    BY <2>1 DEF ObjectInv
  <2>3. Extraction(kind', objectText', extracted')
    BY <2>2, NoLogs
  <2>4. ObjectTypeOK' /\ PartOf(objectText', object') /\ Pairwise(Later, kept')
    BY <2>1 DEF ObjectInv, ObjectTypeOK, S3!input
  <2> QED
    BY <2>1, <2>2, <2>3, <2>4 DEF ObjectInv
<1>3. CASE S3!TakeWhole
  <2>1. /\ stage = "unzip" /\ stage' = "parse" /\ UNCHANGED <<S3!input, extracted, kept, objectAnswer>>
        /\ objectText' = object
    BY <1>3 DEF S3!TakeWhole, S3!At
  <2>2. objectText' \in Seq(Mark) /\ PartOf(objectText', object)
    BY <1>0, <2>1 DEF PartOf
  <2> QED
    BY <2>1, <2>2, TextTaken
<1>4. CASE S3!Unzip
  <2>1. /\ stage = "unzip" /\ stage' = "parse" /\ UNCHANGED <<S3!input, extracted, kept, objectAnswer>>
        /\ \E n \in 1 .. Len(object) : objectText' = SubSeq(object, 1, n)
    BY <1>4 DEF S3!Unzip, S3!At
  <2>2. PICK n \in 1 .. Len(object) : objectText' = SubSeq(object, 1, n)
    BY <2>1
  <2>3. n \in Nat /\ n <= Len(object) /\ Len(object) \in Nat
    BY <1>0
  <2>4. \A p \in 1 .. n : object[p] \in Mark
    BY <1>0, <2>3
  <2> DEFINE o == object
             s == SubSeq(o, 1, n)
  <2>5. s \in Seq(Mark) /\ Len(s) = n /\ \A p \in 1 .. n : s[p] = o[p]
    <3> HIDE DEF o
    <3>1. \A p \in 1 .. n : o[p] \in Mark
      BY <2>4 DEF o
    <3>2. 1 \in Int /\ n \in Int
      BY <2>3
    <3>3. /\ SubSeq(o, 1, n) \in Seq(Mark)
          /\ Len(SubSeq(o, 1, n)) = IF 1 <= n THEN n - 1 + 1 ELSE 0
          /\ \A p \in 1 .. n - 1 + 1 : SubSeq(o, 1, n)[p] = o[1 + p - 1]
      BY <3>1, <3>2, SubSeqProperties
    <3> HIDE DEF s
    <3>4. Len(s) = n
      BY <2>3, <3>3 DEF s
    <3>5. \A p \in 1 .. n : p \in 1 .. n - 1 + 1 /\ 1 + p - 1 = p
      BY <2>3
    <3>6. \A p \in 1 .. n : s[p] = o[p]
      BY <3>3, <3>5 DEF s
    <3> QED
      BY <3>3, <3>4, <3>6 DEF s
  <2> HIDE DEF s
  <2>6. PartOf(s, object)
    BY <2>3, <2>5 DEF PartOf
  <2>7. objectText' = s
    BY <2>2 DEF s
  <2> QED
    BY <2>1, <2>5, <2>6, <2>7, TextTaken
<1>5. CASE S3!Unreadable
  <2>1. objectAnswer' = "err" /\ UNCHANGED <<S3!input, objectText, stage, extracted, kept>>
    BY <1>5 DEF S3!Unreadable
  <2> QED
    BY <2>1 DEF ObjectInv, ObjectTypeOK, S3!input
<1>6. CASE S3!ParseLines
  <2>1. /\ kind = "S3" /\ extracted' = LinesOf(objectText) /\ stage' = "select"
        /\ UNCHANGED <<S3!input, objectText, kept, objectAnswer>>
    BY <1>6, TextLines DEF S3!ParseLines
  <2>2. AllLines(objectText, LinesOf(objectText))
    BY <1>0, LinesFacts
  <2>3. Extraction(kind, objectText, LinesOf(objectText))
    BY <2>1, <2>2 DEF AllLines, Extraction, RowsData
  <2> QED
    BY <2>1, <2>3, TextParsed
<1>7. CASE S3!ParseRows
  <2>0. S3!Lines = LinesOf(objectText)
    BY TextLines
  <2>1. S3!Versioned <=> Versions(kind, objectText)
    BY <2>0 DEF S3!Versioned, Versions
  <2>2. /\ S3!Headers = HeadersOf(kind, objectText)
        /\ S3!HeaderLine = HeaderLineOf(kind, objectText, customHeader)
    BY <2>0, <2>1 DEF S3!Headers, HeadersOf, S3!HeaderLine, HeaderLineOf
  <2>3. /\ kind # "S3" /\ Len(LinesOf(objectText)) >= HeadersOf(kind, objectText) /\ stage' = "select"
        /\ UNCHANGED <<S3!input, objectText, kept, objectAnswer>>
    BY <1>7, <2>0, <2>2 DEF S3!ParseRows
  <2>4. extracted' = LET rows == S3!NotBlank(Behind(kind, objectText)) IN
                     [k \in DOMAIN rows |->
                        [rows[k] EXCEPT !.header = HeaderLineOf(kind, objectText, customHeader)]]
    BY <1>7, <2>0, <2>2 DEF S3!ParseRows, Behind
  <2>5. S3!NotBlank(Behind(kind, objectText)) = Kept(Behind(kind, objectText), Written)
    <3>1. Behind(kind, objectText) \in Seq(Line)
      BY <1>0, <2>3, BehindFacts
    <3> QED
      BY <3>1, ObjectOperators
  <2>6. extracted' = RowsOf(kind, objectText, customHeader)
    BY <2>4, <2>5 DEF RowsOf
  <2>7. /\ RowsOf(kind, objectText, customHeader) \in Seq(Line)
        /\ Pairwise(Later, RowsOf(kind, objectText, customHeader))
        /\ RowsData(kind, objectText, RowsOf(kind, objectText, customHeader))
    BY <1>0, <2>3, RowsFacts
  <2>8. Extraction(kind, objectText, extracted')
    BY <2>3, <2>6, <2>7 DEF Extraction
  <2> QED
    BY <2>3, <2>8, TextParsed
<1>8. CASE S3!ParsePanics
  <2>1. objectAnswer' = "err" /\ UNCHANGED <<S3!input, objectText, stage, extracted, kept>>
    BY <1>8 DEF S3!ParsePanics
  <2> QED
    BY <2>1 DEF ObjectInv, ObjectTypeOK, S3!input
<1>9. CASE S3!ParseCloudTrail
  <2> DEFINE t == objectText
             f == [k \in DOMAIN t |-> [line |-> k, header |-> 0, part |-> <<t[k]>>]]
  <2>1. /\ kind = "CloudTrail" /\ stage' = "select"
        /\ UNCHANGED <<S3!input, objectText, kept, objectAnswer>>
        /\ extracted' = f \/ extracted' = <<>>
    BY <1>9 DEF S3!ParseCloudTrail
  <2>2. t \in Seq(Mark)
    BY <1>0
  <2> HIDE DEF t
  <2>3. Len(t) \in Nat /\ DOMAIN t = 1 .. Len(t) /\ \A k \in DOMAIN t : t[k] \in Mark
    BY <2>2
  <2>4. \A k \in DOMAIN t : f[k] \in Line /\ f[k].line = k
    <3> TAKE k \in DOMAIN t
    <3>1. <<t[k]>> \in Seq(Mark) /\ k \in Nat
      BY <2>3
    <3>2. f[k] = [line |-> k, header |-> 0, part |-> <<t[k]>>]
      OBVIOUS
    <3> HIDE DEF f
    <3> QED
      BY <3>1, <3>2 DEF Line
  <2>5. f = [k \in 1 .. Len(t) |-> f[k]] /\ DOMAIN f = DOMAIN t
    BY <2>3
  <2> HIDE DEF f
  <2>6. f \in Seq(Line)
    <3>1. f \in [1 .. Len(t) -> Line]
      BY <2>3, <2>4, <2>5
    <3> QED
      BY <2>3, <3>1
  <2>7. Pairwise(Later, f)
    BY <2>3, <2>4, <2>5 DEF Pairwise, Later
  <2>8. Extraction(kind, objectText, f)
    BY <2>1, <2>6, <2>7 DEF Extraction, RowsData
  <2>9. Extraction(kind, objectText, extracted')
    BY <2>1, <2>8, NoLogs
  <2> QED
    BY <2>1, <2>9, TextParsed
<1>10. CASE S3!Select
  <2>1. UNCHANGED <<S3!input, objectText, extracted>>
    BY <1>10 DEF S3!Select
  <2>2. CASE sampling = 0
    <3>1. objectAnswer' = "err" /\ UNCHANGED <<stage, kept>>
      BY <1>10, <2>2 DEF S3!Select
    <3> QED
      BY <2>1, <3>1 DEF ObjectInv, ObjectTypeOK, S3!input
  <2>3. CASE sampling # 0
    <3> DEFINE u == Kept(extracted, Unblocking(blocking))
               e == EveryNth(u, sampling)
    <3>1. kept' = S3!Sample(S3!Unblocked(extracted)) /\ stage' = "ship" /\ objectAnswer' = objectAnswer
      BY <1>10, <2>3 DEF S3!Select, S3!Selected
    <3>2. u \in Seq(Line) /\ Pairwise(Later, u)
      BY <1>0, KeptFacts, KeptElements
    <3>3. S3!Unblocked(extracted) = u
      BY <1>0, ObjectOperators
    <3>4. sampling \in Nat \ {0}
      BY <1>0, <2>3
    <3>5. Sampled(blocking, sampling, extracted, e)
      BY <1>0, <3>4, SelectedSampled
    <3> HIDE DEF u
    <3>6. e \in Seq(Line) /\ Pairwise(Later, e)
      BY <3>2, <3>4, EveryNthPlaces, EveryNthPairwise
    <3>7. kept' = e
      BY <3>1, <3>2, <3>3, ObjectOperators
    <3> HIDE DEF e
    <3>8. ObjectTypeOK' /\ PartOf(objectText', object') /\ Pairwise(Later, kept')
      BY <2>1, <3>6, <3>7 DEF ObjectInv, ObjectTypeOK, S3!input
    <3>9. Extraction(kind', objectText', extracted')
      BY <2>1 DEF ObjectInv, S3!input
    <3>10. Sampled(blocking', sampling', extracted', kept')
      BY <2>1, <3>5, <3>7 DEF S3!input
    <3> QED
      BY <3>1, <3>8, <3>9, <3>10 DEF ObjectInv
  <2> QED
    BY <2>2, <2>3
<1>11. CASE S3!Ship
  <2>1. /\ kept' = S3!NotBlank(kept) /\ stage = "ship" /\ objectAnswer' \in {"ok", "err"}
        /\ UNCHANGED <<S3!input, objectText, stage, extracted>>
    BY <1>11 DEF S3!Ship, S3!At
  <2>2. kept' = Kept(kept, Written)
    BY <1>0, <2>1, ObjectOperators
  <2>3. Pairwise(Later, kept)
    BY DEF ObjectInv
  <2>4. kept' \in Seq(Line) /\ Pairwise(Later, kept')
    BY <1>0, <2>2, <2>3, KeptFacts, KeptElements
  <2> QED
    BY <2>1, <2>4 DEF ObjectInv, ObjectTypeOK, S3!input
<1>12. CASE UNCHANGED S3!vars
  BY <1>12 DEF ObjectInv, ObjectTypeOK, S3!vars, S3!input
<1> QED
  BY <1>1, <1>2, <1>3, <1>4, <1>5, <1>6, <1>7, <1>8, <1>9, <1>10, <1>11, <1>12 DEF S3!Next

\* A line of a part of the object is one of the object.
LEMMA PartEnds ==
  ASSUME NEW t \in Seq(Mark), NEW o \in Seq(Mark), PartOf(t, o), NEW x \in Line,
         EndsWithin(t, x), x.line <= CountOf(t, Len(t))
  PROVE  \E p \in DOMAIN o :
           /\ p > Len(x.part) /\ o[p] = "nl"
           /\ SubSeq(o, p - Len(x.part), p - 1) = x.part
           /\ x.line = CountOf(o, p)
<1> DEFINE n == Len(x.part)
<1>1. n \in Nat /\ x.part \in Seq(Mark)
  BY DEF Line
<1> HIDE DEF n
<1>2. PICK p \in 1 .. Len(t) : /\ p > n /\ t[p] = "nl"
                               /\ SubSeq(t, p - n, p - 1) = x.part
                               /\ x.line = CountOf(t, p)
  BY DEF EndsWithin, n
<1>3. Len(t) \in Nat /\ Len(o) \in Nat /\ DOMAIN o = 1 .. Len(o) /\ Len(t) <= Len(o) /\ p \in Nat
  BY DEF PartOf
<1>4. p \in DOMAIN o /\ o[p] = "nl" /\ \A q \in 1 .. p : t[q] = o[q] /\ t[q] \in Mark
  BY <1>2, <1>3 DEF PartOf
<1>5. CountOf(o, p) = CountOf(t, p)
  BY <1>4 DEF CountOf
<1> DEFINE a == p - n
           b == p - 1
<1>6. a \in Int /\ b \in Int /\ a >= 1 /\ b >= 0 /\ b < p /\ \A q \in a .. b : q \in 1 .. p
  BY <1>1, <1>2, <1>3
<1> HIDE DEF a, b
<1>7. SubSeq(o, a, b) = SubSeq(t, a, b)
  <2>1. \A q \in a .. b : t[q] = o[q]
    BY <1>4, <1>6
  <2>2. SubSeq(o, a, b) = [q \in 1 .. b - a + 1 |-> o[a + q - 1]]
        /\ SubSeq(t, a, b) = [q \in 1 .. b - a + 1 |-> t[a + q - 1]]
    BY <1>6
  <2>3. \A q \in 1 .. b - a + 1 : a + q - 1 \in a .. b
    BY <1>6
  <2> QED
    BY <2>1, <2>2, <2>3
<1> QED
  BY <1>2, <1>4, <1>5, <1>7 DEF a, b, n

\* What the invariant says of the logs shipped.
LEMMA ObjectSound == ASSUME ObjectInv PROVE RightLogs
<1>0. /\ object \in Seq(Mark) /\ objectText \in Seq(Mark) /\ PartOf(objectText, object)
      /\ extracted \in Seq(Line) /\ kept \in Seq(Line) /\ Pairwise(Later, kept)
      /\ RowsData(kind, objectText, extracted)
      /\ kind = "S3" => \A k \in DOMAIN extracted : EndsWithin(objectText, extracted[k])
  BY DEF ObjectInv, ObjectTypeOK, Extraction
<1>1. S3!EveryNthUnblocked
  <2>1. \A S : S3!Cardinality(S) = Cardinality(S)
    BY DEF S3!Cardinality, Cardinality
  <2>2. \A x : S3!Blocked(x) <=> Blocks(blocking, x)
    BY DEF S3!Blocked, Blocks
  <2>3. S3!ToSet(kept) = Elements(kept)
    BY DEF S3!ToSet, Elements
  <2> SUFFICES ASSUME stage = "ship", objectAnswer = "none", NEW k \in DOMAIN extracted
               PROVE  extracted[k] \in S3!ToSet(kept) <=>
                        /\ ~ S3!Blocked(extracted[k])
                        /\ S3!Cardinality({j \in 1 .. k - 1 : ~ S3!Blocked(extracted[j])}) % sampling = 0
    BY DEF S3!EveryNthUnblocked
  <2>4. Sampled(blocking, sampling, extracted, kept)
    BY DEF ObjectInv
  <2>5. {j \in 1 .. k - 1 : ~ S3!Blocked(extracted[j])} = {j \in 1 .. k - 1 : ~ Blocks(blocking, extracted[j])}
    BY <2>2
  <2> QED
    BY <2>1, <2>2, <2>3, <2>4, <2>5 DEF Sampled
<1>2. S3!RowsAreData
  <2>0. S3!Lines = LinesOf(objectText)
    BY TextLines
  <2>1. S3!Versioned <=> Versions(kind, objectText)
    BY <2>0 DEF S3!Versioned, Versions
  <2> QED
    BY <1>0, <2>0, <2>1 DEF S3!RowsAreData, S3!Rows, RowsData
<1>3. S3!BrokenArchiveIsPrefix
  <2>1. ASSUME NEW k \in DOMAIN kept, k > 1 PROVE kept[k].line > kept[k - 1].line
    <3>1. k \in Nat /\ k - 1 \in DOMAIN kept /\ k - 1 < k
      BY <1>0, <2>1
    <3>2. <<kept[k - 1], kept[k]>> \in Later
      BY <1>0, <3>1 DEF Pairwise
    <3>3. kept[k - 1].line < kept[k].line /\ kept[k - 1].line \in Nat /\ kept[k].line \in Nat
      BY <3>2 DEF Later, Line
    <3> QED
      BY <3>3
  <2>2. ASSUME kind = "S3", NEW k \in DOMAIN extracted,
               extracted[k].line <= CountOf(objectText, Len(objectText))
        PROVE  \E p \in DOMAIN object :
                 /\ p > Len(extracted[k].part) /\ object[p] = "nl"
                 /\ SubSeq(object, p - Len(extracted[k].part), p - 1) = extracted[k].part
                 /\ extracted[k].line = CountOf(object, p)
    <3>1. extracted[k] \in Line /\ EndsWithin(objectText, extracted[k])
      BY <1>0, <2>2
    <3> QED
      BY <1>0, <2>2, <3>1, PartEnds
  <2>3. \A n : S3!Newlines(n) = CountOf(objectText, n)
    BY TextLines
  <2>4. \A p : S3!Cardinality({q \in 1 .. p : object[q] = "nl"}) = CountOf(object, p)
    BY DEF S3!Cardinality, Cardinality, CountOf
  <2> QED
    BY <2>1, <2>2, <2>3, <2>4 DEF S3!BrokenArchiveIsPrefix
<1> QED
  BY <1>1, <1>2, <1>3 DEF RightLogs, S3!RightLogs

(* For objects of any size: whatever the kind of an object and wherever    *)
(* its archive breaks off, its data is shipped in order, without blocked   *)
(* or header lines, and every sampling-th of it.                           *)
THEOREM RightLogsHolds == S3!Spec => []RightLogs
<1>1. S3!Init => ObjectInv
  BY ObjectInit, ObjectAssumption
<1>2. ObjectInv /\ [S3!Next]_S3!vars => ObjectInv'
  BY ObjectNext, ObjectAssumption
<1>3. ObjectInv => RightLogs
  BY ObjectSound
<1> QED
  BY <1>1, <1>2, <1>3, PTL DEF S3!Spec
=============================================================================
