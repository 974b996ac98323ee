---------------------------- MODULE MetricsProofs ----------------------------
(***************************************************************************)
(* Proofs about the metrics mode, in three parts: the cache of tagged      *)
(* resources (ResourceCache), for every set of namespaces, every number of *)
(* pages and all three time limits; the Firehose event (MetricsFirehose),  *)
(* for every event, size and limit; the lookup of a metric (Associator),   *)
(* for all regexes and resources.                                          *)
(*                                                                         *)
(* The properties of the cache relate files, tags and the event in         *)
(* progress, so its invariant says what the event knows in the middle of a *)
(* fetch: that its namespace is not yet tagged, that the file of the       *)
(* namespace is not fresh, and that what it has read is as new as the      *)
(* event.  That of the Firehose event says where the posts and the batch   *)
(* stand in the event, and that the last post had no room for what is      *)
(* gathered since.                                                         *)
(***************************************************************************)
EXTENDS MetricsMode, DataFacts

-----------------------------------------------------------------------------
(* Module ResourceCache.                                                   *)
Busy == step \in {"fetch", "create", "write", "rename"}

(* A file or temporary file: written within one event of the reading. *)
WellTimed(f) ==
  f # NoFile =>
    /\ f.stamp \in Nat /\ f.mtime \in Nat
    /\ f.stamp <= f.mtime
    /\ f.mtime <= now
    /\ f.mtime <= f.stamp + MaxRun

Types ==
  /\ now \in Nat /\ started \in Nat /\ started <= now
  /\ step \in {"idle", "event", "fetch", "create", "write", "rename"}
  /\ ns \in Namespace
  /\ page \in Nat
  /\ stamp \in Nat
  /\ file \in [Namespace -> File] /\ tmp \in [Namespace -> File]
  /\ tags = [n \in DOMAIN tags |-> tags[n]]
  /\ DOMAIN tags \subseteq Namespace
  /\ \A n \in DOMAIN tags : tags[n].stamp \in Nat /\ tags[n].at \in Nat
  /\ fetches \in [Namespace -> Nat]
  /\ used \in [Namespace -> Nat]
  /\ now \in Time /\ stamp \in Time

(* The event in progress. *)
Event ==
  /\ step # "idle" => now <= started + MaxRun
  /\ step # "idle" => \A n \in Namespace \ DOMAIN tags : used[n] <= started
  /\ step = "event" => \A n \in Namespace \ DOMAIN tags : fetches[n] = 0
  /\ Busy => /\ ns \notin DOMAIN tags
             /\ ns \notin Plain
             /\ \A n \in Namespace \ DOMAIN tags : n # ns => fetches[n] = 0
             /\ ~ Fresh(ns)
             /\ page > 0 => started <= stamp /\ stamp <= now
  /\ step \in {"create", "write", "rename"} => page > 0 /\ enabled
  /\ step \in {"write", "rename"} => tmp[ns] # NoFile /\ tmp[ns].stamp = stamp
  /\ step = "rename" => tmp[ns].whole

(* The files. *)
Files ==
  /\ \A n \in Namespace : WellTimed(file[n]) /\ WellTimed(tmp[n])
  /\ \A n \in Plain : file[n] = NoFile
  /\ ~ enabled => \A n \in Namespace : file[n] = NoFile
  /\ \A n \in Namespace : Fresh(n) => used[n] <= file[n].stamp

(* What namespaces were tagged with. *)
Used ==
  /\ \A n \in Namespace : used[n] <= now
  /\ \A n \in DOMAIN tags \ failed : tags[n].stamp >= used[n]

IInv ==
  Types /\ Event /\ Files /\ Used /\ NeverTorn /\ OneFetchPerEvent /\ FreshUnlessFetchFailed

-----------------------------------------------------------------------------
\* The times are naturals.
LEMMA Constants ==
  /\ Plain \subseteq Namespace
  /\ Pages \in Nat /\ Pages > 0
  /\ Ttl \in Nat /\ MaxRun \in Nat /\ MaxTime \in Nat
  /\ NoFile \notin [stamp : Time, mtime : Time, whole : BOOLEAN]
BY ConstantsAssumption DEF Time

\* The environment begins without files.
LEMMA InitIInv == Init => IInv
<1> SUFFICES ASSUME Init PROVE IInv
  OBVIOUS
<1>1. Types
  BY Constants DEF Init, Types, Nothing, File, Time
<1>2. Event /\ Used
  BY DEF Init, Event, Used, Busy, Nothing
<1>3. Files /\ NeverTorn
  BY Constants DEF Init, Files, NeverTorn, WellTimed, Fresh
<1>4. OneFetchPerEvent /\ FreshUnlessFetchFailed
  BY DEF Init, OneFetchPerEvent, FreshUnlessFetchFailed, Nothing
<1> QED
  BY <1>1, <1>2, <1>3, <1>4 DEF IInv

(* What building an associator does, whatever its resources come from. *)
LEMMA AssociateEffect ==
  ASSUME Types, NEW n \in Namespace, NEW source, NEW s \in Nat, Associate(n, source, s)
  PROVE  /\ step' = "event"
         /\ DOMAIN tags' = DOMAIN tags \union {n}
         /\ tags' = [m \in DOMAIN tags' |-> tags'[m]]
         /\ tags'[n].stamp = s /\ tags'[n].at = now
         /\ \A m \in DOMAIN tags : m # n => tags'[m] = tags[m]
         /\ used' \in [Namespace -> Nat]
         /\ used'[n] = IF s > used[n] THEN s ELSE used[n]
         /\ \A m \in Namespace : m # n => used'[m] = used[m]
BY DEF Associate, Types

(* A step that builds an associator from resources as new as s, and leaves *)
(* clock and files alone, keeps the invariant if s is not older than what  *)
(* was used before, or its fetch failed.                                   *)
LEMMA AssociateKeepsIInv ==
  ASSUME IInv, NEW n \in Namespace, NEW source, NEW s \in Nat, Associate(n, source, s),
         step # "idle", n \notin DOMAIN tags, s <= now,
         UNCHANGED <<config, now, file, tmp, started, ns, page, stamp, fetches>>,
         n \notin failed' => s >= used[n] /\ now - s <= Ttl + MaxRun,
         failed \subseteq failed',
         \A m \in Namespace \ DOMAIN tags : m # n => fetches[m] = 0,
         Fresh(n) => s <= file[n].stamp
  PROVE  IInv'
<1> USE DEF IInv
<1>1. /\ step' = "event"
      /\ DOMAIN tags' = DOMAIN tags \union {n}
      /\ tags' = [m \in DOMAIN tags' |-> tags'[m]]
      /\ tags'[n].stamp = s /\ tags'[n].at = now
      /\ \A m \in DOMAIN tags : m # n => tags'[m] = tags[m]
      /\ used' \in [Namespace -> Nat]
      /\ used'[n] = IF s > used[n] THEN s ELSE used[n]
      /\ \A m \in Namespace : m # n => used'[m] = used[m]
  BY AssociateEffect
<1>2. Types'
  BY <1>1 DEF Types, config
<1>3. Event'
  BY <1>1 DEF Event, Types, Busy, config
<1>4. Files'
  BY <1>1 DEF Files, Types, WellTimed, Fresh, config
<1>5. Used'
  <2>1. \A m \in Namespace : used'[m] <= now
    BY <1>1 DEF Used, Types
  <2>2. \A m \in DOMAIN tags' \ failed' : tags'[m].stamp >= used'[m]
    BY <1>1 DEF Used, Types
  <2> QED
    BY <2>1, <2>2 DEF Used
<1>6. (NeverTorn /\ OneFetchPerEvent)'
  BY DEF NeverTorn, OneFetchPerEvent
<1>7. FreshUnlessFetchFailed'
  BY <1>1 DEF FreshUnlessFetchFailed, Types
<1> QED
  BY <1>2, <1>3, <1>4, <1>5, <1>6, <1>7

-----------------------------------------------------------------------------
\* Each step keeps what is known of files, tags and the fetch.
LEMMA NextIInv == IInv /\ [Next]_vars => IInv'
<1> SUFFICES ASSUME IInv, [Next]_vars PROVE IInv'
  OBVIOUS
<1> USE DEF IInv
<1>1. CASE Begin
  <2>1. (Types /\ Files)'
    BY <1>1 DEF Begin, Types, Files, WellTimed, Fresh, config, files, fetch, Nothing, Used
  <2>2. (Event /\ Used)'
    BY <1>1, Constants DEF Begin, Types, Event, Used, Busy, Nothing, config, files, fetch
  <2>3. (NeverTorn /\ OneFetchPerEvent /\ FreshUnlessFetchFailed)'
    BY <1>1 DEF Begin, NeverTorn, OneFetchPerEvent, FreshUnlessFetchFailed, Nothing, files
  <2> QED
    BY <2>1, <2>2, <2>3
<1>2. CASE Finish \/ CutOff
  <2>1. (Types /\ Files /\ Used)'
    BY <1>2 DEF Finish, CutOff, Types, Files, WellTimed, Fresh, Used, config, files, fetch, past
  <2>2. Event'
    BY <1>2 DEF Finish, CutOff, Event, Busy
  <2>3. (NeverTorn /\ OneFetchPerEvent /\ FreshUnlessFetchFailed)'
    BY <1>2 DEF Finish, CutOff, NeverTorn, OneFetchPerEvent, FreshUnlessFetchFailed, files, past
  <2> QED
    BY <2>1, <2>2, <2>3
<1>3. CASE NewEnvironment
  <2>1. Types'
    BY <1>3 DEF NewEnvironment, Types, File, config, fetch, past
  <2>2. (Files /\ NeverTorn)'
    BY <1>3, Constants DEF NewEnvironment, Files, NeverTorn, WellTimed, Fresh
  <2>3. (Event /\ Used)'
    BY <1>3 DEF NewEnvironment, Event, Used, Busy, past
  <2>4. (OneFetchPerEvent /\ FreshUnlessFetchFailed)'
    BY <1>3 DEF NewEnvironment, OneFetchPerEvent, FreshUnlessFetchFailed, past
  <2> QED
    BY <2>1, <2>2, <2>3, <2>4
<1>4. CASE Tick
  <2>1. Types'
    BY <1>4, Constants DEF Tick, Types, Time, config, files, fetch, past
  <2>2. \A n \in Namespace : Fresh(n)' => Fresh(n)
    <3> TAKE n \in Namespace
    <3>1. file[n] # NoFile => file[n].mtime \in Nat
      BY DEF Files, WellTimed
    <3> QED
      BY <1>4, <3>1, Constants DEF Tick, Fresh, Types, config, files
  <2>3. Event'
    BY <1>4, <2>2, Constants DEF Tick, Types, Event, Busy, config, files, fetch, past
  <2>4. (Files /\ Used)'
    BY <1>4, <2>2, Constants DEF Tick, Types, Files, WellTimed, Used, config, files, past
  <2>5. (NeverTorn /\ OneFetchPerEvent /\ FreshUnlessFetchFailed)'
    BY <1>4 DEF Tick, NeverTorn, OneFetchPerEvent, FreshUnlessFetchFailed, files, past
  <2> QED
    BY <2>1, <2>3, <2>4, <2>5
<1>5. ASSUME NEW n \in Namespace, LookUpPlain(n) PROVE IInv'
  <2>1. ~ Fresh(n)
    BY <1>5 DEF LookUpPlain, Files, Fresh
  <2> QED
    BY <1>5, <2>1, AssociateKeepsIInv, Constants
    DEF LookUpPlain, Meets, Event, Types, Used, files, fetch
<1>6. ASSUME NEW n \in Namespace, LookUpFile(n) PROVE IInv'
  <2>1. /\ file[n].stamp \in Nat /\ file[n].mtime \in Nat
        /\ file[n].mtime <= file[n].stamp + MaxRun
        /\ now - file[n].mtime < Ttl
        /\ used[n] <= file[n].stamp
    BY <1>6 DEF LookUpFile, Files, WellTimed, Fresh
  <2>2. now - file[n].stamp <= Ttl + MaxRun
    BY <2>1, Constants DEF Types
  <2>3. file[n].stamp <= now
    BY <1>6 DEF LookUpFile, Files, WellTimed, Fresh, Types
  <2> QED
    BY <1>6, <2>1, <2>2, <2>3, AssociateKeepsIInv, Constants
    DEF LookUpFile, Meets, Event, Types, Used, files, fetch
<1>7. ASSUME NEW n \in Namespace, StartFetch(n) PROVE IInv'
  <2>1. ~ Fresh(n)
    BY <1>7 DEF StartFetch, NeverTorn, Fresh
  <2>2. Types'
    BY <1>7 DEF StartFetch, Types, config, files
  <2>3. Event'
    BY <1>7, <2>1 DEF StartFetch, Meets, Types, Event, Busy, Fresh, config, files
  <2>4. (Files /\ Used /\ NeverTorn /\ FreshUnlessFetchFailed)'
    BY <1>7 DEF StartFetch, Files, WellTimed, Fresh, Used, NeverTorn, FreshUnlessFetchFailed,
                config, files
  <2>5. OneFetchPerEvent'
    BY <1>7 DEF StartFetch, Meets, Event, Types, OneFetchPerEvent
  <2> QED
    BY <2>2, <2>3, <2>4, <2>5
<1>8. CASE FetchPage
  <2>1. Types'
    BY <1>8 DEF FetchPage, Types, config, files, past
  <2>2. Event'
    BY <1>8 DEF FetchPage, Types, Event, Busy, Fresh, config, files, past
  <2>3. (Files /\ Used /\ NeverTorn /\ OneFetchPerEvent /\ FreshUnlessFetchFailed)'
    BY <1>8 DEF FetchPage, Files, WellTimed, Fresh, Used, NeverTorn, OneFetchPerEvent,
                FreshUnlessFetchFailed, config, files, past
  <2> QED
    BY <2>1, <2>2, <2>3
<1>9. ASSUME Busy, page > 0, Associate(ns, "api", stamp),
             UNCHANGED <<config, now, files, started, fetch, fetches, failed>>
      PROVE  IInv'
  <2>1. now - stamp <= Ttl + MaxRun /\ stamp >= used[ns] /\ stamp <= now
    BY <1>9, Constants DEF Event, Types, Busy
  <2> QED
    BY <1>9, <2>1, AssociateKeepsIInv DEF Event, Types, Busy, files, fetch
<1>10. CASE FetchDone
  <2>1. CASE Associate(ns, "api", stamp)
    BY <1>9, <1>10, <2>1, Constants DEF FetchDone, Busy
  <2>2. CASE enabled /\ step' = "create" /\ UNCHANGED <<tags, used>>
    <3>1. Types'
      BY <1>10, <2>2 DEF FetchDone, Types, config, files, fetch
    <3>2. Event'
      BY <1>10, <2>2, Constants DEF FetchDone, Types, Event, Busy, Fresh, config, files, fetch
    <3>3. (Files /\ Used /\ NeverTorn /\ OneFetchPerEvent /\ FreshUnlessFetchFailed)'
      BY <1>10, <2>2 DEF FetchDone, Files, WellTimed, Fresh, Used, NeverTorn, OneFetchPerEvent,
                  FreshUnlessFetchFailed, config, files
    <3> QED
      BY <3>1, <3>2, <3>3
  <2> QED
    BY <1>10, <2>1, <2>2 DEF FetchDone
<1>11. CASE FetchFails
  <2>1. step = "fetch" /\ Busy /\ ns \in failed' /\ failed \subseteq failed'
    BY <1>11 DEF FetchFails, Busy
  <2>2. CASE enabled /\ file[ns] # NoFile /\ Associate(ns, "stale", file[ns].stamp)
    <3>1. file[ns].stamp \in Nat /\ file[ns].stamp <= now
      BY <2>2 DEF Files, WellTimed, Types
    <3> QED
      BY <1>11, <2>1, <2>2, <3>1, AssociateKeepsIInv
      DEF FetchFails, Event, Types, files, fetch
  <2>3. CASE Associate(ns, "skipped", now)
    BY <1>11, <2>1, <2>3, AssociateKeepsIInv DEF FetchFails, Event, Types, files, fetch
  <2>4. CASE step' = "idle" /\ UNCHANGED <<tags, used>>
    <3>1. (Types /\ Event /\ Files)'
      BY <1>11, <2>4 DEF FetchFails, Types, Event, Busy, Files, WellTimed, Fresh, config, files, fetch
    <3>2. (Used /\ NeverTorn /\ OneFetchPerEvent /\ FreshUnlessFetchFailed)'
      BY <1>11, <2>4 DEF FetchFails, Used, NeverTorn, OneFetchPerEvent, FreshUnlessFetchFailed, files
    <3> QED
      BY <3>1, <3>2
  <2> QED
    BY <1>11, <2>2, <2>3, <2>4 DEF FetchFails
<1>12. CASE CreateTmp \/ WriteTmp
  <2>1. /\ tmp' \in [Namespace -> File]
        /\ \A n \in Namespace : n # ns => tmp'[n] = tmp[n]
        /\ tmp'[ns] # NoFile /\ tmp'[ns].stamp = stamp /\ tmp'[ns].mtime = now
        /\ WriteTmp => tmp'[ns].whole
    <3>1. \A whole \in BOOLEAN : [stamp |-> stamp, mtime |-> now, whole |-> whole] \in File \ {NoFile}
      BY Constants DEF Types, File
    <3>2. CASE CreateTmp
      BY <3>1, <3>2 DEF CreateTmp, WriteTmp, Types
    <3>3. CASE WriteTmp
      BY <3>1, <3>3 DEF CreateTmp, WriteTmp, Types
    <3> QED
      BY <1>12, <3>2, <3>3
  <2>2. Busy /\ page > 0 /\ started <= stamp /\ stamp <= now /\ now <= stamp + MaxRun
    BY <1>12, Constants DEF CreateTmp, WriteTmp, Busy, Event, Types
  <2>3. Types'
    BY <1>12, <2>1 DEF CreateTmp, WriteTmp, Types, config, fetch, past
  <2>4. Event'
    BY <1>12, <2>1 DEF CreateTmp, WriteTmp, Types, Event, Busy, Fresh, config, fetch, past
  <2>5. Files'
    BY <1>12, <2>1, <2>2 DEF CreateTmp, WriteTmp, Types, Files, WellTimed, Fresh, config, past
  <2>6. (Used /\ NeverTorn /\ OneFetchPerEvent /\ FreshUnlessFetchFailed)'
    BY <1>12 DEF CreateTmp, WriteTmp, Used, NeverTorn, OneFetchPerEvent,
                 FreshUnlessFetchFailed, past
  <2> QED
    BY <2>3, <2>4, <2>5, <2>6
<1>13. CASE Rename
  <2>1. /\ ns \in Namespace \ Plain /\ ns \notin DOMAIN tags
        /\ stamp >= used[ns] /\ stamp <= now /\ now - stamp <= Ttl + MaxRun
        /\ enabled
        /\ tmp[ns] # NoFile /\ tmp[ns].stamp = stamp /\ tmp[ns].whole
    BY <1>13, Constants DEF Rename, Event, Busy, Types
  <2>2. /\ file' \in [Namespace -> File] /\ tmp' \in [Namespace -> File]
        /\ \A n \in Namespace : n # ns => file'[n] = file[n] /\ tmp'[n] = tmp[n]
        /\ file'[ns] = tmp[ns] /\ tmp'[ns] = NoFile
    BY <1>13 DEF Rename, Types, File
  <2>3. /\ step' = "event"
        /\ DOMAIN tags' = DOMAIN tags \union {ns}
        /\ tags' = [m \in DOMAIN tags' |-> tags'[m]]
        /\ tags'[ns].stamp = stamp /\ tags'[ns].at = now
        /\ \A m \in DOMAIN tags : m # ns => tags'[m] = tags[m]
        /\ used' \in [Namespace -> Nat]
        /\ used'[ns] = stamp
        /\ \A m \in Namespace : m # ns => used'[m] = used[m]
    <3>1. Associate(ns, "api", stamp) /\ stamp \in Nat /\ ns \in Namespace
      BY <1>13 DEF Rename, Types
    <3>2. used'[ns] = IF stamp > used[ns] THEN stamp ELSE used[ns]
      BY <3>1, AssociateEffect
    <3>3. used'[ns] = stamp
      BY <2>1, <3>1, <3>2 DEF Types
    <3> QED
      BY <3>1, <3>3, AssociateEffect
  <2>4. Types'
    BY <1>13, <2>2, <2>3 DEF Rename, Types, config, fetch
  <2>5. Event'
    BY <1>13, <2>3 DEF Rename, Types, Event, Busy, config, fetch
  <2>6. Files'
    BY <1>13, <2>1, <2>2, <2>3 DEF Rename, Types, Files, WellTimed, Fresh, config
  <2>7. Used'
    BY <1>13, <2>1, <2>3 DEF Rename, Types, Used
  <2>8. (NeverTorn /\ OneFetchPerEvent)'
    BY <1>13, <2>1, <2>2 DEF Rename, NeverTorn, OneFetchPerEvent
  <2>9. FreshUnlessFetchFailed'
    BY <1>13, <2>1, <2>3 DEF Rename, FreshUnlessFetchFailed
  <2> QED
    BY <2>4, <2>5, <2>6, <2>7, <2>8, <2>9
<1>14. CASE WriteFails
  BY <1>9, <1>14 DEF WriteFails, Event, Busy
<1>15. CASE UNCHANGED vars
  <2>1. (Types /\ Event)'
    BY <1>15 DEF vars, config, files, fetch, past, Types, Event, Busy, Fresh
  <2>2. (Files /\ Used /\ NeverTorn /\ OneFetchPerEvent /\ FreshUnlessFetchFailed)'
    BY <1>15 DEF vars, config, files, past, Files, WellTimed, Fresh, Used, NeverTorn,
                 OneFetchPerEvent, FreshUnlessFetchFailed
  <2> QED
    BY <2>1, <2>2
<1> QED
  BY <1>1, <1>2, <1>3, <1>4, <1>5, <1>6, <1>7, <1>8, <1>10, <1>11, <1>12, <1>13, <1>14, <1>15
  DEF Next

\* The invariant holds in every reachable state.
LEMMA Invariant == Spec => []IInv
BY InitIInv, NextIInv, PTL DEF Spec

-----------------------------------------------------------------------------
TagTypes ==
  /\ DOMAIN tags \subseteq Namespace
  /\ \A m \in DOMAIN tags : tags[m] \in Tags
  /\ used \in [Namespace -> Time]

(* Building an associator from resources of a known source keeps the types. *)
LEMMA AssociateTypes ==
  ASSUME TypeOK, NEW n \in Namespace, NEW source \in Source, NEW s \in Time,
         Associate(n, source, s)
  PROVE  /\ step' = "event"
         /\ DOMAIN tags' \subseteq Namespace
         /\ \A m \in DOMAIN tags' : tags'[m] \in Tags
         /\ used' \in [Namespace -> Time]
<1>1. [from |-> source, stamp |-> s, at |-> now] \in Tags
  BY DEF TypeOK, Tags
<1> QED
  BY <1>1 DEF Associate, TypeOK

\* Each step keeps the types.
LEMMA NextTypeOK == IInv /\ TypeOK /\ [Next]_vars => TypeOK'
<1> SUFFICES ASSUME IInv, TypeOK, [Next]_vars PROVE TypeOK'
  OBVIOUS
<1>1. /\ now' \in Time /\ started' \in Time /\ started' <= now'
      /\ step' \in {"idle", "event", "fetch", "create", "write", "rename"}
      /\ ns' \in Namespace /\ stamp' \in Time
      /\ file' \in [Namespace -> File] /\ tmp' \in [Namespace -> File]
      /\ fetches' \in [Namespace -> Nat]
  <2>1. Types' /\ Time' = Time
    BY NextIInv DEF IInv, Time
  <2> QED
    BY <2>1, Constants DEF Types, Time
<1>2. /\ {enabled, lenient}' \subseteq BOOLEAN
      /\ page' \in 0 .. Pages
      /\ failed' \subseteq Namespace
      /\ answer' \in {"none", "ok", "err"}
  BY Constants
  DEF TypeOK, Next, vars, Begin, Finish, CutOff, NewEnvironment, Tick, LookUpPlain, LookUpFile,
      StartFetch, FetchPage, FetchDone, FetchFails, CreateTmp, WriteTmp, Rename, WriteFails,
      config, files, fetch, past
<1>3. TagTypes'
  <2>1. now \in Time /\ stamp \in Time /\ ns \in Namespace
    BY DEF TypeOK
  <2>2. \A n \in Namespace : file[n] # NoFile => file[n].stamp \in Time
    BY DEF TypeOK, File
  <2>0. TagTypes
    BY Zenon DEF TypeOK, TagTypes
  <2>3. ASSUME UNCHANGED <<tags, used>> PROVE TagTypes'
    BY <2>0, <2>3 DEF TagTypes
  <2>4. CASE Begin
    BY <2>0, <2>4 DEF Begin, Nothing, TagTypes
  <2>5. ASSUME NEW n \in Namespace, NEW source \in Source, NEW s \in Time, Associate(n, source, s)
        PROVE  TagTypes'
    BY <2>5, AssociateTypes DEF TagTypes
  <2>6. ASSUME NEW n \in Namespace, LookUpPlain(n) \/ LookUpFile(n) \/ StartFetch(n) PROVE TagTypes'
    BY <2>1, <2>2, <2>3, <2>5, <2>6 DEF LookUpPlain, LookUpFile, StartFetch, Fresh, Source, past
  <2>7. CASE FetchDone \/ Rename \/ WriteFails
    BY <2>1, <2>3, <2>5, <2>7 DEF FetchDone, Rename, WriteFails, Source
  <2>8. CASE FetchFails
    BY <2>1, <2>2, <2>3, <2>5, <2>8 DEF FetchFails, Source
  <2>9. CASE Finish \/ CutOff \/ NewEnvironment \/ Tick \/ FetchPage \/ CreateTmp \/ WriteTmp
             \/ UNCHANGED vars
    BY <2>3, <2>9 DEF Finish, CutOff, NewEnvironment, Tick, FetchPage, CreateTmp, WriteTmp, past, vars
  <2> QED
    BY <2>4, <2>6, <2>7, <2>8, <2>9 DEF Next
<1> QED
  BY <1>1, <1>2, <1>3 DEF TypeOK, TagTypes, Time, File, Tags

(* Types, for all bounds of the clock. *)
THEOREM TypeCorrect == Spec => []TypeOK
<1>1. Init => TypeOK
  BY Constants DEF Init, TypeOK, Nothing, File, Time
<1> QED
  BY Invariant, <1>1, NextTypeOK, PTL DEF Spec

(* However an event ends and whatever fails in it, the tagging API is      *)
(* asked at most once for each namespace.                                  *)
THEOREM FetchedOnce == Spec => []OneFetchPerEvent
<1>1. IInv => OneFetchPerEvent
  BY DEF IInv
<1> QED
  BY Invariant, <1>1, PTL

(* A cache file is always a complete list; and tags are no older than the  *)
(* expiration and the longest event, unless the fetch of their namespace   *)
(* failed.                                                                 *)
THEOREM CacheStaysSound == Spec => []CacheIsSound
<1>1. IInv => NeverTorn
  BY DEF IInv
<1>2. IInv => FreshUnlessFetchFailed
  BY DEF IInv
<1> QED
  BY Invariant, <1>1, <1>2, PTL DEF CacheIsSound

(* A new associator is not built from older resources than the last one of *)
(* its namespace, unless its fetch failed.                                 *)
LEMMA AssociateGoesForward ==
  ASSUME IInv, NEW n \in Namespace, NEW source, NEW s \in Nat, Associate(n, source, s),
         failed \subseteq failed', n \in failed' \/ s >= used[n]
  PROVE  \A m \in DOMAIN tags' :
           \/ m \in DOMAIN tags /\ step # "idle"
           \/ m \in failed'
           \/ tags'[m].stamp >= used[m]
<1>1. /\ DOMAIN tags' = DOMAIN tags \union {n}
      /\ tags'[n].stamp = s
      /\ \A m \in DOMAIN tags : m # n => tags'[m] = tags[m]
  BY AssociateEffect DEF IInv
<1> QED
  BY <1>1 DEF IInv, Used

(* No namespace goes back to older tags, unless its fetch failed. *)
THEOREM TagsGoForward == Spec => TagsNeverGoBack
<1> DEFINE Forward == \A n \in DOMAIN tags' :
                        \/ n \in DOMAIN tags /\ step # "idle"
                        \/ n \in failed'
                        \/ tags'[n].stamp >= used[n]
<1>1. IInv /\ [Next]_vars => Forward
  <2> SUFFICES ASSUME IInv, [Next]_vars PROVE Forward
    OBVIOUS
  <2>1. ASSUME UNCHANGED <<tags, failed>> PROVE Forward
    BY <2>1 DEF IInv, Used
  <2>2. CASE Begin
    BY <2>2 DEF Begin, Nothing
  <2>3. CASE Finish \/ CutOff \/ NewEnvironment \/ Tick \/ FetchPage \/ CreateTmp \/ WriteTmp
    BY <2>1, <2>3 DEF Finish, CutOff, NewEnvironment, Tick, FetchPage, CreateTmp, WriteTmp, past
  <2>4. ASSUME NEW n \in Namespace, LookUpPlain(n) PROVE Forward
    BY <2>4, AssociateGoesForward DEF LookUpPlain, IInv, Used, Types
  <2>5. ASSUME NEW n \in Namespace, LookUpFile(n) PROVE Forward
    <3>1. file[n].stamp \in Nat /\ file[n].stamp >= used[n]
      BY <2>5 DEF LookUpFile, IInv, Files, WellTimed, Fresh, Types
    <3> QED
      BY <2>5, <3>1, AssociateGoesForward DEF LookUpFile
  <2>6. ASSUME NEW n \in Namespace, StartFetch(n) PROVE Forward
    BY <2>1, <2>6 DEF StartFetch
  <2>7. ASSUME Busy, page > 0, Associate(ns, "api", stamp), failed' = failed PROVE Forward
    <3>1. stamp \in Nat /\ ns \in Namespace /\ stamp >= used[ns]
      BY <2>7 DEF IInv, Event, Types, Busy
    <3> QED
      BY <2>7, <3>1, AssociateGoesForward
  <2>8. CASE FetchDone \/ Rename \/ WriteFails
    BY <2>1, <2>7, <2>8, Constants DEF FetchDone, Rename, WriteFails, Busy, IInv, Event
  <2>9. CASE FetchFails
    <3>1. ns \in failed' /\ failed \subseteq failed' /\ ns \in Namespace
      BY <2>9 DEF FetchFails, IInv, Types
    <3>2. ASSUME NEW source, NEW s \in Nat, Associate(ns, source, s) PROVE Forward
      BY <3>1, <3>2, AssociateGoesForward
    <3>3. enabled /\ file[ns] # NoFile => file[ns].stamp \in Nat
      BY <3>1 DEF IInv, Files, WellTimed
    <3>4. ASSUME UNCHANGED tags PROVE Forward
      BY <3>1, <3>4 DEF IInv, Used
    <3> QED
      BY <2>9, <3>2, <3>3, <3>4 DEF FetchFails, IInv, Types
  <2>10. CASE UNCHANGED vars
    BY <2>1, <2>10 DEF vars, past
  <2> QED
    BY <2>2, <2>3, <2>4, <2>5, <2>6, <2>8, <2>9, <2>10 DEF Next
<1> QED
  BY Invariant, <1>1, PTL DEF Spec, TagsNeverGoBack

-----------------------------------------------------------------------------
(* Module MetricsFirehose.  What the invariant says is said of an event,   *)
(* posts and positions given as arguments.                                 *)

(* An event within the bounds. *)
EventOK(ev) ==
  /\ ev \in Seq(F!Record)
  /\ Len(ev) <= MaxRecords
  /\ \A r \in 1 .. Len(ev) : Len(ev[r].messages) <= MaxMessages

(* The positions of its messages, and their sizes. *)
Valid(ev) == {id \in F!Id : id[1] <= Len(ev) /\ id[2] <= Len(ev[id[1]].messages)}
SizeAt(ev, id) == ev[id[1]].messages[id[2]].size
Sum(ev, s) == SeqSum([id \in Valid(ev) |-> SizeAt(ev, id)], s)
Sized(ev, s) == {k \in DOMAIN s : SizeAt(ev, s[k]) > 0}

(* Each message once, those with metrics in order. *)
Ahead(ev) ==
  {p \in Valid(ev) \X Valid(ev) :
     /\ p[1] # p[2]
     /\ SizeAt(ev, p[1]) > 0 /\ SizeAt(ev, p[2]) > 0 => F!Before(p[1], p[2])}

(* The positions before message m of record r. *)
SeenIn(ev, r, m) ==
  {id \in F!Id : \/ id[1] < r /\ id[2] <= Len(ev[id[1]].messages)
                 \/ id[1] = r /\ id[2] < m}

(* The metrics in t could not have begun in s. *)
FullWith(ev, s, t) ==
  \A i \in Sized(ev, t) :
    (\A j \in Sized(ev, t) : i <= j) => Sum(ev, s) + SizeAt(ev, t[i]) > MaxBatch

PostOK(ev, b, s) ==
  /\ s \in Seq(Valid(ev))
  /\ Sum(ev, s) > MaxBatch => \A i, j \in Sized(ev, s) : i = j
  /\ b => Sized(ev, s) # {}

PostsOK(ev, b, p) ==
  /\ \A k \in 1 .. Len(p) : PostOK(ev, b, p[k].messages)
  /\ \A k \in 1 .. Len(p) :
       k < Len(p) /\ b => FullWith(ev, p[k].messages, p[k + 1].messages)

(* The metrics in s could not have begun in the last of the posts p. *)
Following(ev, b, p, s) == b /\ p # <<>> => FullWith(ev, p[Len(p)].messages, s)

(* The posts p, and one of s. *)
Added(p, s, q) == \E x \in {"2xx", "error"} : q = Append(p, [messages |-> s, status |-> x])

(* The messages s, and one more. *)
Grown(s, x, t) == t = Append(s, x)

PostedOf(p) == Flattened([k \in 1 .. Len(p) |-> p[k].messages])

(* A message that did not fit the last post is at hand, if it has not been *)
(* gathered.                                                               *)
RoomGone(ev, s, r, m) ==
  \/ Sum(ev, s) > MaxBatch
  \/ r <= Len(ev) /\ m \in 1 .. Len(ev[r].messages) /\ Sum(ev, s) + SizeAt(ev, <<r, m>>) > MaxBatch
  \/ r = Len(ev) + 1

(* Where the loops are. *)
InEvent ==
  /\ \A r \in 1 .. rec - 1 : event[r].framed
  /\ msg > 0 => rec <= Len(event) /\ event[rec].framed /\ msg <= Len(event[rec].messages) + 1

OnLine ==
  /\ batch \in Seq(Valid(event))
  /\ Elements(PostedOf(posts)) \union Elements(batch) = SeenIn(event, rec, msg)
  /\ Pairwise(Ahead(event), PostedOf(posts) \o batch)

LastFull ==
  batching /\ posts # <<>> /\ eventAnswer = "none" =>
    /\ FullWith(event, posts[Len(posts)].messages, batch)
    /\ Sum(event, batch) = 0 => RoomGone(event, posts[Len(posts)].messages, rec, msg)

FireInv ==
  /\ F!TypeOK /\ EventOK(event) /\ InEvent /\ OnLine
  /\ Sum(event, batch) <= MaxBatch /\ PostsOK(event, batching, posts) /\ LastFull

-----------------------------------------------------------------------------
\* Existing messages have sizes.
LEMMA ValidFacts ==
  ASSUME F!ConstantsOK, NEW ev, EventOK(ev), NEW id \in Valid(ev)
  PROVE  /\ id \in F!Id /\ SizeAt(ev, id) \in Nat /\ id[1] \in 1 .. Len(ev)
         /\ id[2] \in 1 .. Len(ev[id[1]].messages)
         /\ ev[id[1]].messages[id[2]].fate # "good" => SizeAt(ev, id) = 1
<1> DEFINE m == ev[id[1]].messages[id[2]]
<1>1. id \in F!Id /\ id[1] <= Len(ev) /\ id[2] <= Len(ev[id[1]].messages)
  BY DEF Valid
<1>2. id[1] \in 1 .. Len(ev)
  BY <1>1 DEF F!Id, EventOK
<1>3. ev[id[1]] \in F!Record
  BY <1>2 DEF EventOK
<1>4. ev[id[1]].messages \in Seq(F!Message)
  BY <1>3 DEF F!Record
<1>5. id[2] \in 1 .. Len(ev[id[1]].messages)
  BY <1>1, <1>4 DEF F!Id
<1>6. m \in F!Message
  BY <1>4, <1>5
<1> HIDE DEF m
<1>7. m.size \in Nat /\ (m.fate # "good" => m.size = 1)
  <2>1. CASE m \in [size : Size, fate : {"good"}]
    <3>1. m.size \in Size /\ m.fate = "good"
      BY <2>1
    <3> QED
      BY <3>1 DEF F!ConstantsOK
  <2>2. CASE m \in [size : {1}, fate : {"garbled", "untagged"}]
    <3>1. m.size = 1
      BY <2>2
    <3> QED
      BY <3>1
  <2> QED
    BY <1>6, <2>1, <2>2 DEF F!Message
<1> QED
  BY <1>1, <1>2, <1>5, <1>7 DEF SizeAt, m

\* Sizes of sequences of messages.
LEMMA SizeFacts ==
  ASSUME F!ConstantsOK, NEW ev, EventOK(ev), NEW s \in Seq(Valid(ev))
  PROVE  /\ Sum(ev, s) \in Nat
         /\ Sized(ev, s) \subseteq DOMAIN s
         /\ Sized(ev, s) = {} <=> Sum(ev, s) = 0
         /\ \A k \in DOMAIN s : s[k] \in Valid(ev) /\ SizeAt(ev, s[k]) \in Nat /\ SizeAt(ev, s[k]) <= Sum(ev, s)
<1> DEFINE z == [id \in Valid(ev) |-> SizeAt(ev, id)]
<1>1. z \in [Valid(ev) -> Nat]
  BY ValidFacts
<1>2. \A k \in DOMAIN s : s[k] \in Valid(ev) /\ z[s[k]] = SizeAt(ev, s[k])
  <2>1. \A k \in DOMAIN s : s[k] \in Valid(ev)
    OBVIOUS
  <2> QED
    BY <2>1
<1>3. Sum(ev, s) = SeqSum(z, s)
  BY DEF Sum
<1> HIDE DEF z
<1>4. /\ SeqSum(z, s) \in Nat
      /\ \A k \in DOMAIN s : z[s[k]] \in Nat /\ z[s[k]] <= SeqSum(z, s)
      /\ (\A k \in DOMAIN s : z[s[k]] = 0) => SeqSum(z, s) = 0
  BY <1>1, SeqSumType
<1>5. Sized(ev, s) = {k \in DOMAIN s : z[s[k]] > 0}
  BY <1>2 DEF Sized
<1> QED
  BY <1>2, <1>3, <1>4, <1>5

\* The size of nothing.
LEMMA SizeEmpty == ASSUME NEW ev PROVE Sum(ev, <<>>) = 0 /\ Sized(ev, <<>>) = {} /\ <<>> \in Seq(Valid(ev))
<1>1. <<>> \in Seq(Valid(ev)) /\ DOMAIN <<>> = {}
  OBVIOUS
<1>2. Sum(ev, <<>>) = 0
  BY SeqSumEmpty DEF Sum
<1> QED
  BY <1>1, <1>2 DEF Sized

\* One more message.
LEMMA SizeAppend ==
  ASSUME F!ConstantsOK, NEW ev, EventOK(ev), NEW s \in Seq(Valid(ev)), NEW x \in Valid(ev),
         NEW t, Grown(s, x, t)
  PROVE  /\ t \in Seq(Valid(ev))
         /\ Sum(ev, t) = Sum(ev, s) + SizeAt(ev, x)
         /\ Sized(ev, t) = Sized(ev, s) \union (IF SizeAt(ev, x) > 0 THEN {Len(s) + 1} ELSE {})
         /\ Len(s) \in Nat /\ DOMAIN s = 1 .. Len(s)
         /\ \A k \in 1 .. Len(s) : t[k] = s[k]
         /\ t[Len(s) + 1] = x
<1> t = Append(s, x)
  BY DEF Grown
<1> DEFINE z == [id \in Valid(ev) |-> SizeAt(ev, id)]
<1>1. /\ t \in Seq(Valid(ev)) /\ Len(s) \in Nat
      /\ DOMAIN s = 1 .. Len(s) /\ DOMAIN t = 1 .. Len(s) + 1
      /\ \A k \in 1 .. Len(s) : t[k] = s[k]
      /\ t[Len(s) + 1] = x
  <2>1. t \in Seq(Valid(ev)) /\ Len(s) \in Nat /\ Len(t) = Len(s) + 1
    OBVIOUS
  <2> QED
    BY <2>1
<1>2. z \in [Valid(ev) -> Nat] /\ z[x] = SizeAt(ev, x) /\ SizeAt(ev, x) \in Nat
  BY ValidFacts
<1>3. Sum(ev, t) = Sum(ev, s) + SizeAt(ev, x)
  <2>1. Sum(ev, t) = SeqSum(z, Append(s, x)) /\ Sum(ev, s) = SeqSum(z, s)
    BY DEF Sum
  <2> HIDE DEF z
  <2>2. SeqSum(z, Append(s, x)) = z[x] + SeqSum(z, s)
    BY <1>2, SeqSumAppend
  <2>3. Sum(ev, s) \in Nat
    BY SizeFacts
  <2>4. Sum(ev, t) = SizeAt(ev, x) + Sum(ev, s)
    BY <1>2, <2>1, <2>2
  <2> QED
    BY <1>2, <2>3, <2>4
<1>4. Sized(ev, t) = Sized(ev, s) \union (IF SizeAt(ev, x) > 0 THEN {Len(s) + 1} ELSE {})
  <2>1. \A k \in DOMAIN s : SizeAt(ev, t[k]) = SizeAt(ev, s[k])
    BY <1>1
  <2>2. DOMAIN t = DOMAIN s \union {Len(s) + 1} /\ SizeAt(ev, t[Len(s) + 1]) = SizeAt(ev, x)
    BY <1>1
  <2> QED
    BY <2>1, <2>2 DEF Sized
<1> QED
  BY <1>1, <1>3, <1>4

\* A message by itself.
LEMMA SizeSingle ==
  ASSUME F!ConstantsOK, NEW ev, EventOK(ev), NEW x \in Valid(ev)
  PROVE  /\ <<x>> \in Seq(Valid(ev)) /\ Sum(ev, <<x>>) = SizeAt(ev, x)
         /\ Sized(ev, <<x>>) = IF SizeAt(ev, x) > 0 THEN {1} ELSE {}
<1> DEFINE z == [id \in Valid(ev) |-> SizeAt(ev, id)]
           e == <<>>
           t == <<x>>
           S == Valid(ev)
<1>1. z \in [S -> Nat] /\ z[x] = SizeAt(ev, x) /\ SizeAt(ev, x) \in Nat
  BY ValidFacts
<1>2. e \in Seq(S) /\ t = Append(e, x) /\ x \in S
  OBVIOUS
<1>3. Sum(ev, t) = SeqSum(z, t)
  BY DEF Sum
<1>4. SeqSum(z, e) = 0
  BY SeqSumEmpty
<1> HIDE DEF z, e, S, t
<1>5. SeqSum(z, Append(e, x)) = z[x] + SeqSum(z, e)
  BY <1>1, <1>2, SeqSumAppend
<1>6. Sum(ev, t) = SizeAt(ev, x)
  BY <1>1, <1>2, <1>3, <1>4, <1>5
<1>7. DOMAIN <<x>> = {1} /\ <<x>>[1] = x
  OBVIOUS
<1>8. Sized(ev, <<x>>) = IF SizeAt(ev, x) > 0 THEN {1} ELSE {}
  BY <1>7 DEF Sized
<1>9. <<x>> \in Seq(Valid(ev))
  OBVIOUS
<1> QED
  BY <1>6, <1>8, <1>9 DEF t

\* Posting adds a post, and what it holds, to those before.
LEMMA PostAdded ==
  ASSUME F!ConstantsOK, NEW ev, EventOK(ev), NEW b, NEW p \in Seq(F!Post), PostsOK(ev, b, p),
         NEW s, PostOK(ev, b, s), Following(ev, b, p, s), NEW q, Added(p, s, q)
  PROVE  /\ q \in Seq(F!Post) /\ PostsOK(ev, b, q)
         /\ PostedOf(p) \in Seq(Valid(ev)) /\ PostedOf(q) = PostedOf(p) \o s
         /\ q # <<>> /\ q[Len(q)].messages = s
<1> PICK x \in {"2xx", "error"} : q = Append(p, [messages |-> s, status |-> x])
  BY DEF Added
<1> DEFINE y == [messages |-> s, status |-> x]
<1>1. Valid(ev) \subseteq F!Id
  BY DEF Valid
<1>2. s \in Seq(Valid(ev)) /\ s \in Seq(F!Id)
  <2>1. s \in Seq(Valid(ev))
    BY DEF PostOK
  <2> QED
    BY <1>1, <2>1
<1>3. y \in F!Post /\ y.messages = s
  BY <1>2 DEF F!Post
<1> HIDE DEF y
<1>4. /\ q \in Seq(F!Post) /\ Len(p) \in Nat /\ Len(q) = Len(p) + 1 /\ q # <<>>
      /\ q[Len(p) + 1] = y /\ \A k \in 1 .. Len(p) : q[k] = p[k]
  <2>1. q = Append(p, y)
    BY DEF y
  <2> QED
    BY <1>3, <2>1
<1>5. PostsOK(ev, b, q)
  <2>1. ASSUME NEW k \in 1 .. Len(q) PROVE PostOK(ev, b, q[k].messages)
    <3>1. CASE k \in 1 .. Len(p)
      BY <1>4, <3>1 DEF PostsOK
    <3>2. CASE k = Len(p) + 1
      BY <1>3, <1>4, <3>2
    <3> QED
      BY <1>4, <3>1, <3>2
  <2>2. ASSUME NEW k \in 1 .. Len(q), k < Len(q), b
        PROVE  FullWith(ev, q[k].messages, q[k + 1].messages)
    <3>1. k \in 1 .. Len(p) /\ q[k] = p[k]
      BY <1>4, <2>2
    <3>2. CASE k < Len(p)
      <4>1. q[k + 1] = p[k + 1]
        BY <1>4, <3>1, <3>2
      <4> QED
        BY <2>2, <3>1, <3>2, <4>1 DEF PostsOK
    <3>3. CASE k = Len(p)
      <4>1. q[k + 1] = y /\ p # <<>>
        BY <1>4, <3>1, <3>3
      <4> QED
        BY <1>3, <2>2, <3>1, <3>3, <4>1 DEF Following
    <3> QED
      BY <1>4, <3>1, <3>2, <3>3
  <2> QED
    BY <2>1, <2>2 DEF PostsOK
<1>6. PostedOf(p) \in Seq(Valid(ev)) /\ PostedOf(q) = PostedOf(p) \o s
  <2> DEFINE before == [k \in 1 .. Len(p) |-> p[k].messages]
             after == [k \in 1 .. Len(q) |-> q[k].messages]
             T == Seq(Valid(ev))
  <2>1. \A k \in 1 .. Len(p) : p[k].messages \in T
    BY DEF PostsOK, PostOK
  <2>2. before \in Seq(T) /\ Len(before) = Len(p)
    BY <1>4, <2>1
  <2>3. after = Append(before, s)
    <3>1. s \in T
      BY <1>2
    <3> HIDE DEF T
    <3>2. Append(before, s) = [k \in 1 .. Len(q) |-> IF k = Len(p) + 1 THEN s ELSE before[k]]
      BY <1>4, <2>2, <3>1
    <3>3. \A k \in 1 .. Len(q) : q[k].messages = IF k = Len(p) + 1 THEN s ELSE before[k]
      BY <1>3, <1>4
    <3> QED
      BY <3>2, <3>3
  <2> HIDE DEF before, after
  <2>4. Flattened(before) \in Seq(Valid(ev))
    BY <2>2, FlattenedType
  <2>5. Flattened(Append(before, s)) = Flattened(before) \o s
    BY <1>2, <2>2, FlattenedAppend
  <2> QED
    BY <2>3, <2>4, <2>5 DEF PostedOf, before, after
<1> QED
  BY <1>3, <1>4, <1>5, <1>6

\* The positions passed.
LEMMA SeenFacts ==
  ASSUME F!ConstantsOK, NEW ev, EventOK(ev), NEW r \in 1 .. Len(ev)
  PROVE  /\ Len(ev) \in Nat /\ Len(ev[r].messages) \in Nat
         /\ SeenIn(ev, r, 1) = SeenIn(ev, r, 0)
         /\ SeenIn(ev, r + 1, 0) = SeenIn(ev, r, Len(ev[r].messages) + 1)
         /\ \A m \in 1 .. Len(ev[r].messages) :
              /\ <<r, m>> \in Valid(ev)
              /\ SeenIn(ev, r, m + 1) = SeenIn(ev, r, m) \union {<<r, m>>}
              /\ \A id \in SeenIn(ev, r, m) : id # <<r, m>> /\ F!Before(id, <<r, m>>)
<1>1. Len(ev) \in Nat /\ MaxRecords \in Nat /\ MaxMessages \in Nat
  BY DEF F!ConstantsOK, EventOK
<1>2. Len(ev[r].messages) \in Nat /\ Len(ev[r].messages) <= MaxMessages /\ r \in 1 .. MaxRecords
  <2>1. ev[r] \in F!Record
    BY DEF EventOK
  <2> QED
    BY <1>1, <2>1 DEF F!Record, EventOK
<1>3. ASSUME NEW id \in F!Id
      PROVE  id = <<id[1], id[2]>> /\ id[1] \in 1 .. MaxRecords /\ id[2] \in 1 .. MaxMessages /\ id[1] \in Nat /\ id[2] \in Nat
  BY DEF F!Id
<1>4. SeenIn(ev, r, 1) = SeenIn(ev, r, 0)
  BY <1>3 DEF SeenIn
<1>5. SeenIn(ev, r + 1, 0) = SeenIn(ev, r, Len(ev[r].messages) + 1)
  <2>1. ASSUME NEW id \in F!Id
        PROVE  (id[1] < r + 1 /\ id[2] <= Len(ev[id[1]].messages)) \/ (id[1] = r + 1 /\ id[2] < 0)
                 <=> (id[1] < r /\ id[2] <= Len(ev[id[1]].messages))
                       \/ (id[1] = r /\ id[2] < Len(ev[r].messages) + 1)
    <3>1. id[1] \in Nat /\ id[2] \in Nat
      BY <1>3
    <3>2. CASE id[1] = r
      BY <1>2, <3>1, <3>2
    <3>3. CASE id[1] # r
      BY <1>2, <3>1, <3>3
    <3> QED
      BY <3>2, <3>3
  <2> QED
    BY <2>1 DEF SeenIn
<1>6. ASSUME NEW m \in 1 .. Len(ev[r].messages)
      PROVE  /\ <<r, m>> \in Valid(ev)
             /\ SeenIn(ev, r, m + 1) = SeenIn(ev, r, m) \union {<<r, m>>}
             /\ \A id \in SeenIn(ev, r, m) : id # <<r, m>> /\ F!Before(id, <<r, m>>)
  <2>1. m \in 1 .. MaxMessages /\ <<r, m>> \in F!Id
    BY <1>1, <1>2 DEF F!Id
  <2>2. <<r, m>> \in Valid(ev)
    BY <1>1, <1>2, <2>1 DEF Valid
  <2>3. ASSUME NEW id \in F!Id
        PROVE  (id[1] = r /\ id[2] < m + 1) <=> ((id[1] = r /\ id[2] < m) \/ id = <<r, m>>)
    <3>1. id = <<id[1], id[2]>> /\ id[2] \in Nat
      BY <1>3
    <3>2. id = <<r, m>> <=> id[1] = r /\ id[2] = m
      BY <3>1
    <3> QED
      BY <3>1, <3>2
  <2>4. <<r, m>>[1] = r /\ <<r, m>>[2] = m
    OBVIOUS
  <2>5. SeenIn(ev, r, m + 1) = SeenIn(ev, r, m) \union {<<r, m>>}
    BY <2>1, <2>3, <2>4, Zenon DEF SeenIn
  <2>6. ASSUME NEW id \in SeenIn(ev, r, m) PROVE id # <<r, m>> /\ F!Before(id, <<r, m>>)
    <3>1. id \in F!Id /\ (id[1] < r \/ (id[1] = r /\ id[2] < m))
      BY DEF SeenIn
    <3>2. id[1] \in Nat /\ id[2] \in Nat
      BY <1>3, <3>1
    <3> QED
      BY <3>1, <3>2 DEF F!Before
  <2> QED
    BY <2>2, <2>5, <2>6
<1> QED
  BY <1>1, <1>2, <1>4, <1>5, <1>6

\* The instance sums as DataFacts does.
LEMMA FireSum == \A w, S : F!SumFunctionOnSet(w, S) = SumFunctionOnSet(w, S)
BY DEF F!SumFunctionOnSet, F!FoldFunctionOnSet, F!MapThenFoldSet,
       SumFunctionOnSet, FoldFunctionOnSet, MapThenFoldSet

\* The instance flattens a sequence of sequences as DataFacts does.
LEMMA FireFlattened == ASSUME NEW ss PROVE F!FlattenSeq(ss) = Flattened(ss)
BY DEF F!FlattenSeq, Flattened, IsFlattening

\* What the module says of a state, in the terms above.
LEMMA FireTerms ==
  ASSUME NEW s \in Seq(Valid(event))
  PROVE  F!SizeOf(s) = Sum(event, s) /\ F!Measured(s) = Sized(event, s) /\ F!ToSet(s) = Elements(s)
<1> DEFINE z == [id \in Valid(event) |-> SizeAt(event, id)]
<1>1. \A k \in DOMAIN s : s[k] \in Valid(event)
  OBVIOUS
<1>2. \A k \in DOMAIN s : z[s[k]] = F!MessageAt(s[k]).size /\ F!MessageAt(s[k]).size = SizeAt(event, s[k])
  BY <1>1 DEF F!MessageAt, SizeAt
<1>3. Sum(event, s) = SeqSum(z, s)
  BY DEF Sum
<1> HIDE DEF z
<1>4. [k \in DOMAIN s |-> z[s[k]]] = [k \in DOMAIN s |-> F!MessageAt(s[k]).size]
  BY <1>2
<1>5. F!SizeOf(s) = Sum(event, s)
  BY <1>3, <1>4, FireSum DEF F!SizeOf, SeqSum
<1>6. F!Measured(s) = Sized(event, s)
  BY <1>2 DEF F!Measured, Sized
<1>7. F!ToSet(s) = Elements(s)
  BY DEF F!ToSet, Elements
<1> QED
  BY <1>5, <1>6, <1>7

\* What is posted and what is passed, in the same terms.
LEMMA FirePosted == F!Posted = PostedOf(posts) /\ F!Seen = SeenIn(event, rec, msg)
BY FireFlattened DEF F!Posted, PostedOf, F!Seen, SeenIn

\* What the invariant says of the batch.
LEMMA FireGathered ==
  ASSUME F!ConstantsOK, FireInv
  PROVE  /\ EventOK(event) /\ batch \in Seq(Valid(event)) /\ Sum(event, batch) \in Nat
         /\ F!SizeOf(batch) = Sum(event, batch)
         /\ PostOK(event, batching, batch) \/ Sum(event, batch) = 0
         /\ posts \in Seq(F!Post) /\ MaxBatch \in Nat
         /\ PostedOf(posts) \in Seq(Valid(event))
<1>1. EventOK(event) /\ batch \in Seq(Valid(event)) /\ posts \in Seq(F!Post)
  BY DEF FireInv, OnLine, F!TypeOK
<1>2. Sum(event, batch) \in Nat /\ (Sized(event, batch) = {} <=> Sum(event, batch) = 0)
  BY <1>1, SizeFacts
<1>3. F!SizeOf(batch) = Sum(event, batch)
  BY <1>1, FireTerms
<1>4. MaxBatch \in Nat
  BY DEF F!ConstantsOK
<1>5. PostOK(event, batching, batch) \/ Sum(event, batch) = 0
  BY <1>1, <1>2, <1>4 DEF FireInv, PostOK
<1>6. PostedOf(posts) \in Seq(Valid(event))
  <2> DEFINE mp == [k \in 1 .. Len(posts) |-> posts[k].messages]
             T == Seq(Valid(event))
  <2>1. \A k \in 1 .. Len(posts) : posts[k].messages \in T
    BY DEF FireInv, PostsOK, PostOK
  <2>2. mp \in Seq(T)
    BY <1>1, <2>1
  <2> HIDE DEF mp
  <2>3. Flattened(mp) \in Seq(Valid(event))
    BY <2>2, FlattenedType
  <2> QED
    BY <2>3 DEF PostedOf, mp
<1> QED
  BY <1>1, <1>2, <1>3, <1>4, <1>5, <1>6

\* The message at hand.
LEMMA AtHand ==
  ASSUME F!ConstantsOK, FireInv, F!AtMessage
  PROVE  /\ <<rec, msg>> \in Valid(event) /\ SizeAt(event, <<rec, msg>>) \in Nat
         /\ F!Current.size = SizeAt(event, <<rec, msg>>)
         /\ rec \in 1 .. Len(event) /\ msg \in 1 .. Len(event[rec].messages)
         /\ SeenIn(event, rec, msg + 1) = SeenIn(event, rec, msg) \union {<<rec, msg>>}
         /\ \A id \in SeenIn(event, rec, msg) : id # <<rec, msg>> /\ F!Before(id, <<rec, msg>>)
         /\ eventAnswer = "none" /\ event[rec].framed
         /\ msg + 1 <= Len(event[rec].messages) + 1 /\ msg + 1 > 0 /\ msg + 1 \in 0 .. MaxMessages + 1
<1>1. eventAnswer = "none" /\ rec \in 1 .. Len(event) /\ msg \in 1 .. Len(event[rec].messages)
  <2>1. rec \in 1 .. Len(event) + 1 /\ event \in Seq(F!Record)
    BY DEF FireInv, F!TypeOK
  <2> QED
    BY <2>1 DEF F!AtMessage
<1>2. EventOK(event)
  BY DEF FireInv
<1>3. /\ <<rec, msg>> \in Valid(event)
      /\ SeenIn(event, rec, msg + 1) = SeenIn(event, rec, msg) \union {<<rec, msg>>}
      /\ \A id \in SeenIn(event, rec, msg) : id # <<rec, msg>> /\ F!Before(id, <<rec, msg>>)
      /\ Len(event[rec].messages) \in Nat
  BY <1>1, <1>2, SeenFacts
<1>4. SizeAt(event, <<rec, msg>>) \in Nat
  BY <1>2, <1>3, ValidFacts
<1>5. F!Current.size = SizeAt(event, <<rec, msg>>)
  BY DEF F!Current, F!MessageAt, SizeAt
<1>6. event[rec].framed
  <2>1. msg > 0
    BY <1>1
  <2> QED
    BY <2>1 DEF FireInv, InEvent
<1>7. Len(event[rec].messages) <= MaxMessages /\ MaxMessages \in Nat
  BY <1>1, <1>2 DEF EventOK, F!ConstantsOK
<1> QED
  BY <1>1, <1>3, <1>4, <1>5, <1>6, <1>7

\* The invariant at the start.
LEMMA FireInit == ASSUME F!ConstantsOK, F!Init PROVE FireInv
<1>1. PICK n \in 0 .. MaxRecords : event \in [1 .. n -> F!Parsable \union {F!Misframed}]
  BY DEF F!Init
<1>2. /\ rec = 1 /\ msg = 0 /\ batch = <<>> /\ posts = <<>> /\ eventAnswer = "none" /\ batching \in BOOLEAN
      /\ MaxRecords \in Nat /\ MaxMessages \in Nat /\ MaxBatch \in Nat
  BY DEF F!Init, F!ConstantsOK
<1>3. ASSUME NEW e \in F!Parsable \union {F!Misframed}
      PROVE  e \in F!Record /\ Len(e.messages) <= MaxMessages
  <2>1. CASE e = F!Misframed
    BY <1>2, <2>1 DEF F!Misframed, F!Record
  <2>2. ASSUME NEW s \in F!BoundedSeq(F!Message, MaxMessages), e = [framed |-> TRUE, messages |-> s]
        PROVE  e \in F!Record /\ Len(e.messages) <= MaxMessages
    <3>1. PICK k \in 0 .. MaxMessages : s \in [1 .. k -> F!Message]
      BY DEF F!BoundedSeq, F!SeqOf
    <3>2. s \in Seq(F!Message) /\ Len(s) = k
      BY <1>2, <3>1
    <3> QED
      BY <1>2, <2>2, <3>1, <3>2 DEF F!Record
  <2> QED
    BY <2>1, <2>2 DEF F!Parsable
<1>4. event \in Seq(F!Record) /\ Len(event) = n
  BY <1>1, <1>2, <1>3
<1>5. EventOK(event)
  <2>1. \A r \in 1 .. Len(event) : event[r] \in F!Parsable \union {F!Misframed}
    BY <1>1, <1>4
  <2> QED
    BY <1>1, <1>2, <1>3, <1>4, <2>1 DEF EventOK
<1>6. F!TypeOK
  BY <1>2, <1>4 DEF F!TypeOK
<1>7. SeenIn(event, rec, msg) = {}
  <2>1. ASSUME NEW id \in F!Id PROVE ~ (id[1] < 1) /\ ~ (id[2] < 0)
    BY <1>2 DEF F!Id
  <2> QED
    BY <1>2, <2>1 DEF SeenIn
<1>8. PostedOf(posts) = <<>>
  <2>1. [k \in 1 .. Len(posts) |-> posts[k].messages] = <<>>
    BY <1>2
  <2> QED
    BY <2>1, FlattenedEmpty DEF PostedOf
<1>9. Sum(event, batch) = 0 /\ batch \in Seq(Valid(event))
  BY <1>2, SizeEmpty
<1>10. OnLine
  <2> DEFINE e == <<>>
  <2>1. Elements(e) = {} /\ Pairwise(Ahead(event), e) /\ e \o e = e
    BY NoElement
  <2>2. PostedOf(posts) = e /\ batch = e
    BY <1>2, <1>8
  <2> HIDE DEF e
  <2> QED
    BY <1>7, <1>9, <2>1, <2>2 DEF OnLine
<1>11. PostsOK(event, batching, posts) /\ LastFull
  BY <1>2 DEF PostsOK, LastFull
<1>12. InEvent
  BY <1>2 DEF InEvent
<1> QED
  BY <1>2, <1>5, <1>6, <1>9, <1>10, <1>11, <1>12 DEF FireInv

\* Posting what is gathered: the posts, and the line as it was.
LEMMA BatchPosted ==
  ASSUME F!ConstantsOK, FireInv, eventAnswer = "none", Sum(event, batch) > 0, F!Answered(batch)
  PROVE  /\ posts' \in Seq(F!Post) /\ PostsOK(event, batching, posts')
         /\ PostedOf(posts') = PostedOf(posts) \o batch
         /\ posts' # <<>> /\ posts'[Len(posts')].messages = batch
<1> DEFINE ev == event
           p == posts
           q == posts'
           s == batch
           b == batching
<1>2. EventOK(ev) /\ p \in Seq(F!Post) /\ PostOK(ev, b, s)
  BY FireGathered
<1>3. PostsOK(ev, b, p)
  BY DEF FireInv
<1>4. Following(ev, b, p, s)
  BY DEF FireInv, LastFull, Following
<1>5. Added(p, s, q)
  BY DEF F!Answered, Added
<1> HIDE DEF ev, p, q, s, b
<1>6. /\ q \in Seq(F!Post) /\ PostsOK(ev, b, q)
      /\ PostedOf(q) = PostedOf(p) \o s
      /\ q # <<>> /\ q[Len(q)].messages = s
  BY <1>2, <1>3, <1>4, <1>5, PostAdded
<1> QED
  BY <1>6 DEF ev, p, q, s, b

\* An empty batch.
LEMMA BatchEmptied ==
  ASSUME F!ConstantsOK, FireInv, batch' = <<>>, PostedOf(posts') = PostedOf(posts) \o batch,
         UNCHANGED <<event, rec, msg>>
  PROVE  /\ OnLine' /\ Sum(event, batch)' = 0
         /\ \A s : FullWith(event, s, batch')
<1> DEFINE e == <<>>
           L == PostedOf(posts) \o batch
           T == Seq(Valid(event))
<1>1. /\ PostedOf(posts) \in Seq(Valid(event)) /\ batch \in Seq(Valid(event))
  BY FireGathered
<1>2. L \in T /\ Elements(L) = Elements(PostedOf(posts)) \union Elements(batch)
  BY <1>1, ConcatPlaces, ConcatElements
<1>3. Elements(e) = {}
  BY NoElement
<1>4. e \in T /\ Sum(event, e) = 0 /\ Sized(event, e) = {}
  BY SizeEmpty
<1>5. L \o e = L
  BY <1>2
<1>6. Elements(L) = SeenIn(event, rec, msg) /\ Pairwise(Ahead(event), L)
  BY <1>2 DEF FireInv, OnLine
<1>7. batch' = e /\ PostedOf(posts') = L
  OBVIOUS
<1> HIDE DEF e, L
<1>8. OnLine'
  BY <1>3, <1>4, <1>5, <1>6, <1>7 DEF OnLine
<1>9. Sum(event, batch)' = 0
  BY <1>4, <1>7
<1> QED
  BY <1>4, <1>7, <1>8, <1>9 DEF FullWith

\* A record is entered.
LEMMA SplitKeeps == ASSUME F!ConstantsOK, FireInv, F!Split PROVE FireInv'
<1>1. /\ UNCHANGED <<batching, event, rec, batch, posts>> /\ msg = 0 /\ rec \in 1 .. Len(event)
      /\ eventAnswer = "none" /\ eventAnswer' \in {"none", "err"}
  BY DEF F!Split, FireInv, F!TypeOK
<1>2. EventOK(event) /\ MaxMessages \in Nat
  BY DEF FireInv, F!ConstantsOK
<1>3. SeenIn(event, rec, 1) = SeenIn(event, rec, 0) /\ Len(event[rec].messages) \in Nat
  BY <1>1, <1>2, SeenFacts
<1>4. msg' = 0 \/ (msg' = 1 /\ event[rec].framed)
  BY <1>1 DEF F!Split
<1>5. F!TypeOK'
  BY <1>1, <1>2, <1>4 DEF FireInv, F!TypeOK
<1>6. InEvent'
  BY <1>1, <1>3, <1>4 DEF FireInv, InEvent
<1>7. OnLine'
  BY <1>1, <1>3, <1>4 DEF FireInv, OnLine
<1>8. LastFull'
  <2> SUFFICES ASSUME batching, posts # <<>>, eventAnswer' = "none"
               PROVE  /\ FullWith(event, posts[Len(posts)].messages, batch)
                      /\ Sum(event, batch) = 0 => RoomGone(event, posts[Len(posts)].messages, rec, msg')
    BY <1>1 DEF LastFull
  <2>1. /\ FullWith(event, posts[Len(posts)].messages, batch)
        /\ Sum(event, batch) = 0 => RoomGone(event, posts[Len(posts)].messages, rec, msg)
    BY <1>1 DEF FireInv, LastFull
  <2>2. RoomGone(event, posts[Len(posts)].messages, rec, msg) => Sum(event, posts[Len(posts)].messages) > MaxBatch
    BY <1>1, <1>2 DEF RoomGone, EventOK
  <2> QED
    BY <2>1, <2>2 DEF RoomGone
<1> QED
  BY <1>1, <1>5, <1>6, <1>7, <1>8 DEF FireInv

\* A message without room: the batch makes way.
LEMMA FlushKeeps == ASSUME F!ConstantsOK, FireInv, F!Flush PROVE FireInv'
<1>1. /\ UNCHANGED <<batching, event, rec, msg, eventAnswer>> /\ batch' = <<>> /\ F!Answered(batch)
      /\ F!AtTransformed /\ F!Overflows
  BY DEF F!Flush
<1>2. /\ eventAnswer = "none" /\ rec \in 1 .. Len(event) /\ msg \in 1 .. Len(event[rec].messages)
      /\ F!Current.size = SizeAt(event, <<rec, msg>>)
  BY <1>1, AtHand DEF F!AtTransformed
<1>3. F!SizeOf(batch) = Sum(event, batch)
  BY FireGathered
<1>4. Sum(event, batch) > 0 /\ Sum(event, batch) + SizeAt(event, <<rec, msg>>) > MaxBatch
  BY <1>1, <1>2, <1>3 DEF F!Overflows
<1>5. /\ posts' \in Seq(F!Post) /\ PostsOK(event, batching, posts')
      /\ PostedOf(posts') = PostedOf(posts) \o batch
      /\ posts'[Len(posts')].messages = batch
  BY <1>1, <1>2, <1>4, BatchPosted
<1>6. OnLine' /\ Sum(event, batch)' = 0 /\ \A s : FullWith(event, s, batch')
  BY <1>1, <1>5, BatchEmptied
<1>7. F!TypeOK'
  BY <1>1, <1>5 DEF FireInv, F!TypeOK
<1>8. RoomGone(event, posts'[Len(posts')].messages, rec, msg)
  BY <1>2, <1>4, <1>5 DEF RoomGone
<1>9. LastFull'
  BY <1>1, <1>6, <1>8 DEF LastFull
<1>10. InEvent' /\ EventOK(event)'
  BY <1>1 DEF FireInv, InEvent
<1>11. Sum(event, batch)' <= MaxBatch /\ PostsOK(event, batching, posts)'
  BY <1>1, <1>5, <1>6 DEF F!ConstantsOK
<1> QED
  BY <1>6, <1>7, <1>9, <1>10, <1>11 DEF FireInv

\* The rest is posted.
LEMMA PostRestKeeps == ASSUME F!ConstantsOK, FireInv, F!PostRest PROVE FireInv'
<1>1. /\ UNCHANGED <<batching, event, rec, msg, eventAnswer>> /\ batch' = <<>> /\ F!Answered(batch)
      /\ eventAnswer = "none" /\ rec = Len(event) + 1 /\ F!SizeOf(batch) > 0
  BY DEF F!PostRest, F!AtRest
<1>2. Sum(event, batch) > 0
  BY <1>1, FireGathered
<1>3. /\ posts' \in Seq(F!Post) /\ PostsOK(event, batching, posts')
      /\ PostedOf(posts') = PostedOf(posts) \o batch
  BY <1>1, <1>2, BatchPosted
<1>4. OnLine' /\ Sum(event, batch)' = 0 /\ \A s : FullWith(event, s, batch')
  BY <1>1, <1>3, BatchEmptied
<1>5. F!TypeOK'
  BY <1>1, <1>3 DEF FireInv, F!TypeOK
<1>6. RoomGone(event, posts'[Len(posts')].messages, rec, msg)
  BY <1>1 DEF RoomGone
<1>7. LastFull'
  BY <1>1, <1>4, <1>6 DEF LastFull
<1>8. InEvent' /\ EventOK(event)'
  BY <1>1 DEF FireInv, InEvent
<1>9. Sum(event, batch)' <= MaxBatch /\ PostsOK(event, batching, posts)'
  BY <1>1, <1>3, <1>4 DEF F!ConstantsOK
<1> QED
  BY <1>4, <1>5, <1>7, <1>8, <1>9 DEF FireInv

\* A record is done.
LEMMA EndRecordKeeps == ASSUME F!ConstantsOK, FireInv, F!EndRecord PROVE FireInv'
<1>1. /\ UNCHANGED <<batching, event, batch, posts, eventAnswer>>
      /\ rec \in 1 .. Len(event) /\ msg = Len(event[rec].messages) + 1
      /\ rec' = rec + 1 /\ msg' = 0
  BY DEF F!EndRecord, FireInv, F!TypeOK
<1>2. EventOK(event) /\ MaxMessages \in Nat
  BY DEF FireInv, F!ConstantsOK
<1>3. /\ SeenIn(event, rec + 1, 0) = SeenIn(event, rec, Len(event[rec].messages) + 1)
      /\ Len(event) \in Nat /\ Len(event[rec].messages) \in Nat
  BY <1>1, <1>2, SeenFacts
<1>4. rec + 1 \in 1 .. Len(event) + 1
  BY <1>1, <1>3
<1>5. F!TypeOK'
  BY <1>1, <1>2, <1>4 DEF FireInv, F!TypeOK
<1>6. InEvent'
  <2>1. event[rec].framed /\ rec \in Nat /\ \A r \in 1 .. rec - 1 : event[r].framed
    BY <1>1, <1>3 DEF FireInv, InEvent
  <2>2. \A r \in 1 .. rec' - 1 : event[r].framed
    BY <1>1, <2>1
  <2> QED
    BY <1>1, <2>2 DEF InEvent
<1>7. OnLine'
  BY <1>1, <1>3 DEF FireInv, OnLine
<1>8. LastFull'
  <2> SUFFICES ASSUME batching, posts # <<>>, eventAnswer = "none"
               PROVE  /\ FullWith(event, posts[Len(posts)].messages, batch)
                      /\ Sum(event, batch) = 0 => RoomGone(event, posts[Len(posts)].messages, rec', msg')
    BY <1>1 DEF LastFull
  <2>1. /\ FullWith(event, posts[Len(posts)].messages, batch)
        /\ Sum(event, batch) = 0 => RoomGone(event, posts[Len(posts)].messages, rec, msg)
    BY DEF FireInv, LastFull
  <2>2. RoomGone(event, posts[Len(posts)].messages, rec, msg) => Sum(event, posts[Len(posts)].messages) > MaxBatch
    BY <1>1, <1>3 DEF RoomGone
  <2> QED
    BY <2>1, <2>2 DEF RoomGone
<1> QED
  BY <1>1, <1>5, <1>6, <1>7, <1>8 DEF FireInv

\* The event ends, or stutters.
LEMMA EndKeeps ==
  ASSUME FireInv, UNCHANGED <<batching, event, rec, msg, batch, posts>>,
         eventAnswer' \in {"ok", "err"} \/ eventAnswer' = eventAnswer
  PROVE  FireInv'
<1>1. F!TypeOK' /\ InEvent' /\ OnLine' /\ EventOK(event)' /\ PostsOK(event, batching, posts)'
      /\ (Sum(event, batch) <= MaxBatch)'
  BY DEF FireInv, F!TypeOK, InEvent, OnLine
<1>2. LastFull'
  BY DEF FireInv, LastFull
<1> QED
  BY <1>1, <1>2 DEF FireInv

\* Where the parts of a line stand.
LEMMA OnLineParts ==
  ASSUME F!ConstantsOK, FireInv
  PROVE  /\ PostedOf(posts) \in Seq(Valid(event)) /\ batch \in Seq(Valid(event))
         /\ Pairwise(Ahead(event), PostedOf(posts)) /\ Pairwise(Ahead(event), batch)
         /\ Elements(PostedOf(posts)) \X Elements(batch) \subseteq Ahead(event)
         /\ Elements(PostedOf(posts)) \union Elements(batch) = SeenIn(event, rec, msg)
         /\ Elements(PostedOf(posts)) \subseteq Valid(event) /\ Elements(batch) \subseteq Valid(event)
<1> DEFINE P == PostedOf(posts)
           R == Ahead(event)
           V == Valid(event)
<1>1. P \in Seq(V) /\ batch \in Seq(V)
  BY FireGathered
<1>2. Pairwise(R, P \o batch) /\ Elements(P) \union Elements(batch) = SeenIn(event, rec, msg)
  BY DEF FireInv, OnLine
<1>3. Elements(P) \subseteq V /\ Elements(batch) \subseteq V
  BY <1>1 DEF Elements
<1> HIDE DEF P, R, V
<1>4. Pairwise(R, P) /\ Pairwise(R, batch) /\ Elements(P) \X Elements(batch) \subseteq R
  BY <1>1, <1>2, ConcatPairwise
<1> QED
  BY <1>1, <1>2, <1>3, <1>4 DEF P, R, V

\* The current message may stand behind all before it.
LEMMA AheadOfCurrent ==
  ASSUME F!ConstantsOK, FireInv, F!AtTransformed, NEW id \in Valid(event), id \in SeenIn(event, rec, msg)
  PROVE  <<id, <<rec, msg>> >> \in Ahead(event)
<1> DEFINE x == <<rec, msg>>
<1>1. x \in Valid(event) /\ id # x /\ F!Before(id, x)
  BY AtHand DEF F!AtTransformed
<1> HIDE DEF x
<1>2. <<id, x>> \in Ahead(event)
  BY <1>1 DEF Ahead
<1> QED
  BY <1>2 DEF x

\* A message gathered.
LEMMA GatherOnLine ==
  ASSUME F!ConstantsOK, FireInv, F!Gather
  PROVE  OnLine'
<1> DEFINE x == <<rec, msg>>
           P == PostedOf(posts)
           R == Ahead(event)
           V == Valid(event)
           u == <<x>>
           c == batch'
<1>1. /\ F!AtTransformed /\ batch' = Append(batch, x) /\ rec' = rec /\ msg' = msg + 1
      /\ event' = event /\ posts' = posts
  BY DEF F!Gather
<1>2. /\ x \in V /\ SeenIn(event, rec, msg + 1) = SeenIn(event, rec, msg) \union {x}
  BY <1>1, AtHand DEF F!AtTransformed
<1>3. /\ P \in Seq(V) /\ batch \in Seq(V) /\ Pairwise(R, P) /\ Pairwise(R, batch)
      /\ Elements(P) \X Elements(batch) \subseteq R
      /\ Elements(P) \union Elements(batch) = SeenIn(event, rec, msg)
      /\ Elements(P) \subseteq V /\ Elements(batch) \subseteq V
  BY OnLineParts
<1>4. \A id \in V : id \in SeenIn(event, rec, msg) => <<id, x>> \in R
  BY <1>1, AheadOfCurrent
<1> HIDE DEF x, P, R, V
<1>5. u \in Seq(V) /\ Elements(u) = {x} /\ Pairwise(R, u)
  BY <1>2, SingleElement
<1>6. c = batch \o u /\ c \in Seq(V)
  BY <1>1, <1>2, <1>3
<1> HIDE DEF u, c
<1>7. Elements(c) = Elements(batch) \union {x}
  BY <1>3, <1>5, <1>6, ConcatElements
<1>8. Elements(batch) \X Elements(u) \subseteq R /\ Elements(P) \X Elements(c) \subseteq R
  BY <1>3, <1>4, <1>5, <1>7
<1>9. Pairwise(R, c)
  BY <1>3, <1>5, <1>6, <1>8, ConcatPairwise
<1>10. Pairwise(R, P \o c)
  BY <1>3, <1>6, <1>8, <1>9, ConcatPairwise
<1>11. Elements(P) \union Elements(c) = SeenIn(event, rec, msg + 1)
  BY <1>2, <1>3, <1>7
<1> QED
  BY <1>1, <1>6, <1>10, <1>11 DEF OnLine, P, R, V, c

\* A message posted alone, past a batch without metrics.
LEMMA AloneOnLine ==
  ASSUME F!ConstantsOK, FireInv, F!AtTransformed, Sum(event, batch) = 0,
         PostedOf(posts') = PostedOf(posts) \o << <<rec, msg>> >>,
         batch' = batch, rec' = rec, msg' = msg + 1, event' = event
  PROVE  OnLine'
<1> DEFINE x == <<rec, msg>>
           P == PostedOf(posts)
           Q == PostedOf(posts')
           R == Ahead(event)
           V == Valid(event)
           u == <<x>>
<1>1. /\ x \in V /\ SeenIn(event, rec, msg + 1) = SeenIn(event, rec, msg) \union {x}
      /\ \A id \in SeenIn(event, rec, msg) : id # x
  BY AtHand DEF F!AtTransformed
<1>2. /\ P \in Seq(V) /\ batch \in Seq(V) /\ Pairwise(R, P) /\ Pairwise(R, batch)
      /\ Elements(P) \X Elements(batch) \subseteq R
      /\ Elements(P) \union Elements(batch) = SeenIn(event, rec, msg)
      /\ Elements(P) \subseteq V /\ Elements(batch) \subseteq V
  BY OnLineParts
<1>3. \A id \in V : id \in SeenIn(event, rec, msg) => <<id, x>> \in R
  BY AheadOfCurrent
<1>4. \A id \in Elements(batch) : <<x, id>> \in R
  <2>1. EventOK(event)
    BY DEF FireInv
  <2>2. ASSUME NEW k \in DOMAIN batch PROVE SizeAt(event, batch[k]) = 0
    <3>1. /\ Sum(event, batch) \in Nat /\ SizeAt(event, batch[k]) \in Nat
          /\ SizeAt(event, batch[k]) <= Sum(event, batch)
      BY <1>2, <2>1, SizeFacts
    <3> QED
      BY <3>1
  <2>3. ASSUME NEW id \in Elements(batch) PROVE <<x, id>> \in R
    <3>1. SizeAt(event, id) = 0
      BY <2>2 DEF Elements
    <3>2. x \in V /\ id \in V /\ id # x
      BY <1>1, <1>2
    <3> HIDE DEF x
    <3> QED
      BY <3>1, <3>2 DEF Ahead
  <2> QED
    BY <2>3
<1>5. Q = P \o u
  OBVIOUS
<1> HIDE DEF x, P, Q, R, V
<1>6. u \in Seq(V) /\ Elements(u) = {x} /\ Pairwise(R, u)
  BY <1>1, SingleElement
<1>7. Q \in Seq(V)
  BY <1>2, <1>5, <1>6
<1> HIDE DEF u
<1>8. Elements(Q) = Elements(P) \union {x}
  BY <1>2, <1>5, <1>6, ConcatElements
<1>9. Elements(P) \X Elements(u) \subseteq R /\ Elements(Q) \X Elements(batch) \subseteq R
  BY <1>2, <1>3, <1>4, <1>6, <1>8
<1>10. Pairwise(R, Q)
  BY <1>2, <1>5, <1>6, <1>9, ConcatPairwise
<1>11. Pairwise(R, Q \o batch)
  BY <1>2, <1>7, <1>9, <1>10, ConcatPairwise
<1>12. Elements(Q) \union Elements(batch) = SeenIn(event, rec, msg + 1)
  BY <1>1, <1>2, <1>8
<1> QED
  BY <1>2, <1>11, <1>12 DEF OnLine, Q, R, V

\* Past a message.
LEMMA NextMessage ==
  ASSUME F!ConstantsOK, FireInv, F!AtTransformed,
         rec' = rec, msg' = msg + 1, event' = event, batching' = batching, eventAnswer' = eventAnswer,
         posts' \in Seq(F!Post), ~ batching => batch' = <<>>, batch' \in Seq(Valid(event))
  PROVE  F!TypeOK' /\ InEvent' /\ EventOK(event)'
<1>1. /\ event[rec].framed /\ msg + 1 <= Len(event[rec].messages) + 1 /\ msg + 1 > 0
      /\ msg + 1 \in 0 .. MaxMessages + 1 /\ rec <= Len(event)
  BY AtHand DEF F!AtTransformed
<1>2. batch' \in Seq(F!Id)
  BY DEF Valid
<1>3. F!TypeOK'
  BY <1>1, <1>2 DEF FireInv, F!TypeOK
<1>4. InEvent'
  BY <1>1 DEF FireInv, InEvent
<1> QED
  BY <1>3, <1>4 DEF FireInv

\* A message is gathered.
LEMMA GatherKeeps == ASSUME F!ConstantsOK, FireInv, F!Gather PROVE FireInv'
<1> DEFINE x == <<rec, msg>>
           c == batch'
           last == posts[Len(posts)].messages
<1>1. /\ F!AtTransformed /\ batch' = Append(batch, x) /\ rec' = rec /\ msg' = msg + 1
      /\ event' = event /\ posts' = posts /\ batching' = batching /\ eventAnswer' = eventAnswer
      /\ ~ F!Overflows /\ ~ F!GoesAlone
  BY DEF F!Gather
<1>2. /\ x \in Valid(event) /\ SizeAt(event, x) \in Nat /\ F!Current.size = SizeAt(event, x)
      /\ rec \in 1 .. Len(event) /\ eventAnswer = "none"
  BY <1>1, AtHand DEF F!AtTransformed
<1>3. /\ EventOK(event) /\ batch \in Seq(Valid(event)) /\ Sum(event, batch) \in Nat
      /\ F!SizeOf(batch) = Sum(event, batch)
      /\ posts \in Seq(F!Post) /\ MaxBatch \in Nat
  BY FireGathered
<1>4. /\ batching /\ SizeAt(event, x) <= MaxBatch
      /\ Sum(event, batch) = 0 \/ Sum(event, batch) + SizeAt(event, x) <= MaxBatch
  <2> HIDE DEF x
  <2> QED
    BY <1>1, <1>2, <1>3 DEF F!Overflows, F!GoesAlone
<1>5. OnLine'
  BY GatherOnLine
<1>6. /\ c \in Seq(Valid(event))
      /\ Sum(event, c) = Sum(event, batch) + SizeAt(event, x)
      /\ Sized(event, c) = Sized(event, batch) \union (IF SizeAt(event, x) > 0 THEN {Len(batch) + 1} ELSE {})
      /\ Len(batch) \in Nat /\ DOMAIN batch = 1 .. Len(batch)
      /\ \A k \in 1 .. Len(batch) : c[k] = batch[k]
      /\ c[Len(batch) + 1] = x
  <2> DEFINE ev == event
             s == batch
  <2>1. Grown(s, x, c)
    BY <1>1 DEF Grown
  <2>2. EventOK(ev) /\ s \in Seq(Valid(ev)) /\ x \in Valid(ev)
    BY <1>2, <1>3
  <2> HIDE DEF x, c, ev, s
  <2>3. /\ c \in Seq(Valid(ev))
        /\ Sum(ev, c) = Sum(ev, s) + SizeAt(ev, x)
        /\ Sized(ev, c) = Sized(ev, s) \union (IF SizeAt(ev, x) > 0 THEN {Len(s) + 1} ELSE {})
        /\ Len(s) \in Nat /\ DOMAIN s = 1 .. Len(s)
        /\ \A k \in 1 .. Len(s) : c[k] = s[k]
        /\ c[Len(s) + 1] = x
    BY <2>1, <2>2, SizeAppend
  <2> QED
    BY <2>3 DEF ev, s
<1>7. Sized(event, batch) \subseteq 1 .. Len(batch) /\ (Sized(event, batch) = {} <=> Sum(event, batch) = 0)
  BY <1>3, <1>6, SizeFacts
<1>8. F!TypeOK' /\ InEvent' /\ EventOK(event)'
  BY <1>1, <1>3, <1>4, <1>6, NextMessage
<1>9. Sum(event, batch)' <= MaxBatch
  <2> HIDE DEF x
  <2> QED
    BY <1>1, <1>2, <1>3, <1>4, <1>6
<1>10. ASSUME posts # <<>>
       PROVE  /\ FullWith(event, last, c)
              /\ Sum(event, c) = 0 => RoomGone(event, last, rec, msg + 1)
  <2>1. /\ FullWith(event, last, batch)
        /\ Sum(event, batch) = 0 => RoomGone(event, last, rec, msg)
    BY <1>2, <1>4, <1>10 DEF FireInv, LastFull
  <2>2. RoomGone(event, last, rec, msg) => Sum(event, last) > MaxBatch \/ Sum(event, last) + SizeAt(event, x) > MaxBatch
    BY <1>2, <1>3 DEF RoomGone, EventOK
  <2>3. last \in Seq(Valid(event)) /\ Sum(event, last) \in Nat
    <3>1. Len(posts) \in 1 .. Len(posts)
      BY <1>3, <1>10
    <3>2. last \in Seq(Valid(event))
      BY <3>1 DEF FireInv, PostsOK, PostOK
    <3> QED
      BY <1>3, <3>2, SizeFacts
  <2> HIDE DEF x, c, last
  <2>4. FullWith(event, last, c)
    <3> SUFFICES ASSUME NEW i \in Sized(event, c), \A j \in Sized(event, c) : i <= j
                 PROVE  Sum(event, last) + SizeAt(event, c[i]) > MaxBatch
      BY DEF FullWith
    <3>1. CASE Sum(event, batch) = 0
      <4>1. i = Len(batch) + 1
        BY <1>6, <1>7, <3>1
      <4> QED
        BY <1>2, <1>3, <1>6, <2>1, <2>2, <2>3, <3>1, <4>1
    <3>2. CASE Sum(event, batch) # 0
      <4>1. PICK k \in Sized(event, batch) : TRUE
        BY <1>7, <3>2
      <4>2. k \in 1 .. Len(batch) /\ k \in Sized(event, c)
        BY <1>6, <1>7
      <4>3. i \in Sized(event, batch) /\ i \in 1 .. Len(batch)
        BY <1>6, <1>7, <4>2
      <4>4. (\A j \in Sized(event, batch) : i <= j) /\ c[i] = batch[i]
        BY <1>6, <4>3
      <4> QED
        BY <2>1, <4>3, <4>4 DEF FullWith
    <3> QED
      BY <3>1, <3>2
  <2>5. Sum(event, c) = 0 => Sum(event, last) > MaxBatch
    BY <1>2, <1>3, <1>6, <2>1, <2>2, <2>3
  <2> QED
    BY <2>4, <2>5 DEF RoomGone
<1>11. LastFull'
  BY <1>1, <1>10 DEF LastFull
<1>12. PostsOK(event, batching, posts)'
  BY <1>1 DEF FireInv
<1> QED
  BY <1>5, <1>8, <1>9, <1>11, <1>12 DEF FireInv

\* A message is posted by itself.
LEMMA PostAloneKeeps ==
  ASSUME F!ConstantsOK, FireInv, F!PostAlone
  PROVE  /\ FireInv'
         /\ << <<rec, msg>> >> \in Seq(Valid(event))
         /\ PostedOf(posts') = PostedOf(posts) \o << <<rec, msg>> >>
<1> DEFINE x == <<rec, msg>>
           u == <<x>>
           ev == event
           b == batching
           p == posts
           q == posts'
           v == batch
<1>1. /\ F!AtTransformed /\ F!Answered(u) /\ rec' = rec /\ msg' = msg + 1 /\ batch' = batch
      /\ event' = event /\ batching' = batching /\ eventAnswer' = eventAnswer
      /\ ~ F!Overflows /\ F!GoesAlone
  BY DEF F!PostAlone
<1>2. /\ x \in Valid(event) /\ SizeAt(event, x) \in Nat /\ F!Current.size = SizeAt(event, x)
      /\ eventAnswer = "none"
  BY <1>1, AtHand DEF F!AtTransformed
<1>3. /\ EventOK(ev) /\ v \in Seq(Valid(ev)) /\ Sum(ev, v) \in Nat
      /\ F!SizeOf(v) = Sum(ev, v)
      /\ p \in Seq(F!Post) /\ MaxBatch \in Nat
  BY FireGathered
<1>4. Sum(ev, v) = 0 /\ (b => SizeAt(ev, x) > MaxBatch)
  <2>1. CASE b
    <3> HIDE DEF x
    <3> QED
      BY <1>1, <1>2, <1>3, <2>1 DEF F!Overflows, F!GoesAlone
  <2>2. CASE ~ b
    <3>1. batch = <<>>
      BY <2>2 DEF FireInv, F!TypeOK
    <3> QED
      BY <2>2, <3>1, SizeEmpty
  <2> QED
    BY <2>1, <2>2
<1>5. Sized(ev, v) = {}
  BY <1>3, <1>4, SizeFacts
<1>6. PostsOK(ev, b, p)
  BY DEF FireInv
<1>7. Added(p, u, q)
  BY <1>1 DEF F!Answered, Added
<1>8. ~ b => v = <<>>
  BY DEF FireInv, F!TypeOK
<1>9. b /\ p # <<>> => Sum(ev, p[Len(p)].messages) \in Nat
  <2>1. ASSUME p # <<>> PROVE Sum(ev, p[Len(p)].messages) \in Nat
    <3>1. Len(p) \in 1 .. Len(p)
      BY <1>3, <2>1
    <3>2. p[Len(p)].messages \in Seq(Valid(ev))
      BY <1>6, <3>1 DEF PostsOK, PostOK
    <3> QED
      BY <1>3, <3>2, SizeFacts
  <2> QED
    BY <2>1
<1> HIDE DEF x
<1>10. /\ u \in Seq(Valid(ev)) /\ Sum(ev, u) = SizeAt(ev, x)
       /\ Sized(ev, u) = IF SizeAt(ev, x) > 0 THEN {1} ELSE {}
       /\ u[1] = x
  BY <1>2, <1>3, SizeSingle
<1> HIDE DEF u, ev, b, p, q, v
<1>11. PostOK(ev, b, u)
  BY <1>2, <1>3, <1>4, <1>10 DEF PostOK, ev
<1>12. Following(ev, b, p, u)
  <2> SUFFICES ASSUME b, p # <<>>, NEW i \in Sized(ev, u)
               PROVE  Sum(ev, p[Len(p)].messages) + SizeAt(ev, u[i]) > MaxBatch
    BY DEF Following, FullWith
  <2>1. i = 1
    BY <1>10
  <2> QED
    BY <1>2, <1>3, <1>4, <1>9, <1>10, <2>1 DEF ev
<1>13. /\ q \in Seq(F!Post) /\ PostsOK(ev, b, q) /\ PostedOf(q) = PostedOf(p) \o u
       /\ q # <<>> /\ q[Len(q)].messages = u
  BY <1>3, <1>6, <1>7, <1>11, <1>12, PostAdded
<1>14. OnLine'
  BY <1>1, <1>4, <1>13, AloneOnLine DEF ev, p, q, v, u, x
<1>15. F!TypeOK' /\ InEvent' /\ EventOK(event)'
  BY <1>1, <1>3, <1>8, <1>13, NextMessage DEF ev, b, q, v
<1>16. Sum(event, batch)' <= MaxBatch
  BY <1>1, <1>3, <1>4 DEF ev, v
<1>17. LastFull'
  <2>1. FullWith(ev, u, v)
    BY <1>5 DEF FullWith
  <2>2. b => RoomGone(ev, u, rec, msg + 1)
    BY <1>4, <1>10 DEF RoomGone
  <2> QED
    BY <1>1, <1>13, <2>1, <2>2 DEF LastFull, ev, b, q, v
<1>18. PostsOK(event, batching, posts)'
  BY <1>1, <1>13 DEF ev, b, q
<1>19. FireInv'
  BY <1>14, <1>15, <1>16, <1>17, <1>18 DEF FireInv
<1> QED
  BY <1>10, <1>13, <1>19 DEF ev, p, q, u, x

\* The invariant is kept.
LEMMA FireNext == ASSUME F!ConstantsOK, FireInv, [F!Next]_F!vars PROVE FireInv'
<1>1. CASE F!Split
  BY <1>1, SplitKeeps
<1>2. CASE F!TransformFails
  BY <1>2, EndKeeps DEF F!TransformFails
<1>3. CASE F!Flush
  BY <1>3, FlushKeeps
<1>4. CASE F!PostAlone
  BY <1>4, PostAloneKeeps
<1>5. CASE F!Gather
  BY <1>5, GatherKeeps
<1>6. CASE F!PostFails
  BY <1>6, EndKeeps DEF F!PostFails
<1>7. CASE F!EndRecord
  BY <1>7, EndRecordKeeps
<1>8. CASE F!PostRest
  BY <1>8, PostRestKeeps
<1>9. CASE F!Return
  BY <1>9, EndKeeps DEF F!Return
<1>10. CASE UNCHANGED F!vars
  BY <1>10, EndKeeps DEF F!vars
<1> QED
  BY <1>1, <1>2, <1>3, <1>4, <1>5, <1>6, <1>7, <1>8, <1>9, <1>10 DEF F!Next

\* Posts in terms of the module.
LEMMA FireSound == ASSUME F!ConstantsOK, FireInv PROVE PostsAreSound
<1>1. /\ EventOK(event) /\ batch \in Seq(Valid(event)) /\ F!SizeOf(batch) = Sum(event, batch)
      /\ posts \in Seq(F!Post) /\ PostedOf(posts) \in Seq(Valid(event))
  BY FireGathered
<1>2. F!InOrder
  <2> DEFINE L == PostedOf(posts) \o batch
  <2>1. F!Line = L
    BY FirePosted DEF F!Line
  <2>2. Pairwise(Ahead(event), L) /\ Elements(PostedOf(posts)) \union Elements(batch) = SeenIn(event, rec, msg)
    BY DEF FireInv, OnLine
  <2>3. L \in Seq(Valid(event))
    BY <1>1
  <2>4. Elements(L) = Elements(PostedOf(posts)) \union Elements(batch)
    BY <1>1, ConcatElements
  <2> HIDE DEF L
  <2>5. F!ToSet(L) = F!Seen
    BY <2>2, <2>4, FirePosted DEF F!ToSet, Elements
  <2>6. ASSUME NEW i \in DOMAIN L, NEW j \in DOMAIN L, i < j
        PROVE  /\ L[i] # L[j]
               /\ F!MessageAt(L[i]).size > 0 /\ F!MessageAt(L[j]).size > 0 => F!Before(L[i], L[j])
    <3>1. <<L[i], L[j]>> \in Ahead(event)
      BY <2>2, <2>6 DEF Pairwise
    <3> QED
      BY <3>1 DEF Ahead, SizeAt, F!MessageAt
  <2> QED
    BY <2>1, <2>5, <2>6 DEF F!InOrder
<1>3. F!PostsAreFull
  <2>1. F!SizeOf(batch) <= MaxBatch
    BY <1>1 DEF FireInv
  <2>2. ASSUME NEW k \in 1 .. Len(posts)
        PROVE  LET s == posts[k].messages IN
               /\ F!SizeOf(s) > MaxBatch => \A i, j \in F!Measured(s) : i = j
               /\ batching => F!Measured(s) # {}
    <3> DEFINE s == posts[k].messages
    <3>1. PostOK(event, batching, s)
      BY DEF FireInv, PostsOK
    <3> HIDE DEF s
    <3>2. F!SizeOf(s) = Sum(event, s) /\ F!Measured(s) = Sized(event, s)
      BY <3>1, FireTerms DEF PostOK
    <3> QED
      BY <3>1, <3>2 DEF PostOK, s
  <2>3. ASSUME NEW k \in 1 .. Len(posts), batching, k < Len(posts)
        PROVE  LET s == posts[k].messages
                   t == posts[k + 1].messages IN
               \A i \in F!Measured(t) :
                 (\A j \in F!Measured(t) : i <= j) => F!SizeOf(s) + F!MessageAt(t[i]).size > MaxBatch
    <3> DEFINE s == posts[k].messages
               t == posts[k + 1].messages
    <3>1. k + 1 \in 1 .. Len(posts)
      BY <1>1, <2>3
    <3>2. FullWith(event, s, t) /\ PostOK(event, batching, s) /\ PostOK(event, batching, t)
      BY <2>3, <3>1 DEF FireInv, PostsOK
    <3> HIDE DEF s, t
    <3>3. F!SizeOf(s) = Sum(event, s) /\ F!Measured(t) = Sized(event, t)
      BY <3>2, FireTerms DEF PostOK
    <3>4. \A i \in F!Measured(t) : F!MessageAt(t[i]).size = SizeAt(event, t[i])
      BY DEF F!MessageAt, SizeAt
    <3> QED
      BY <3>2, <3>3, <3>4 DEF FullWith, s, t
  <2> QED
    BY <2>1, <2>2, <2>3 DEF F!PostsAreFull
<1> QED
  BY <1>2, <1>3 DEF PostsAreSound, F!PostsAreSound, FireInv

(* What is posted and what is gathered are the messages the event has gone *)
(* past, each once, those with metrics in order; a post exceeds the limit  *)
(* only with one message, and is never less full than it could have been.  *)
THEOREM PostsAreSoundHolds == F!Spec => []PostsAreSound
<1>1. F!Init => FireInv
  BY FireInit, FirehoseAssumption
<1>2. FireInv /\ [F!Next]_F!vars => FireInv'
  BY FireNext, FirehoseAssumption
<1>3. FireInv => PostsAreSound
  BY FireSound, FirehoseAssumption
<1> QED
  BY <1>1, <1>2, <1>3, PTL DEF F!Spec

\* What has been posted, for the refinement.
LEMMA PostedSet ==
  ASSUME F!ConstantsOK, FireInv
  PROVE  /\ F!ToSet(F!Posted) = Elements(PostedOf(posts))
         /\ Elements(PostedOf(posts)) \subseteq Valid(event)
         /\ Elements(PostedOf(posts)) \subseteq SeenIn(event, rec, msg)
BY OnLineParts, FirePosted DEF F!ToSet, Elements

\* Existing messages are owed, but without metrics only if each is posted.
LEMMA OwedMessage ==
  ASSUME NEW id \in Valid(event), batching => SizeAt(event, id) > 0
  PROVE  id \in F!Owed
BY DEF F!Owed, Valid, SizeAt, F!MessageAt

\* What is gathered with metrics has not been posted.
LEMMA GatheredOwed ==
  ASSUME F!ConstantsOK, FireInv, Sum(event, batch) # 0
  PROVE  F!Owed # F!Owed \intersect F!ToSet(F!Posted)
<1>1. /\ batch \in Seq(Valid(event)) /\ EventOK(event)
      /\ Elements(PostedOf(posts)) \X Elements(batch) \subseteq Ahead(event)
  BY OnLineParts, FireGathered
<1>2. PICK k \in Sized(event, batch) : TRUE
  BY <1>1, SizeFacts
<1>3. k \in DOMAIN batch /\ batch[k] \in Valid(event) /\ SizeAt(event, batch[k]) > 0
  BY <1>1 DEF Sized
<1>4. batch[k] \in F!Owed
  BY <1>3, OwedMessage
<1>5. batch[k] \notin Elements(PostedOf(posts))
  <2> DEFINE x == batch[k]
             E == Elements(PostedOf(posts))
             B == Elements(batch)
  <2>1. x \in B
    BY <1>3 DEF Elements
  <2>2. E \X B \subseteq Ahead(event)
    BY <1>1
  <2> HIDE DEF x, E, B
  <2>3. ASSUME x \in E PROVE FALSE
    <3>1. <<x, x>> \in Ahead(event)
      BY <2>1, <2>2, <2>3
    <3> QED
      BY <3>1 DEF Ahead
  <2> QED
    BY <2>3 DEF x, E
<1> QED
  BY <1>4, <1>5, PostedSet

\* The current message has not been posted.
LEMMA CurrentOwed ==
  ASSUME F!ConstantsOK, FireInv, F!AtMessage, batching => SizeAt(event, <<rec, msg>>) > 0
  PROVE  F!Owed # F!Owed \intersect F!ToSet(F!Posted)
<1> DEFINE x == <<rec, msg>>
<1>1. x \in Valid(event) /\ \A id \in SeenIn(event, rec, msg) : id # x
  BY AtHand
<1>2. x \in F!Owed
  BY <1>1, OwedMessage
<1> HIDE DEF x
<1> QED
  BY <1>1, <1>2, PostedSet

\* Every step of the event is a step of Shipment, or none.
LEMMA FireSteps == ASSUME F!ConstantsOK, FireInv, [F!Next]_F!vars PROVE [F!Ship!Next]_F!Ship!vars
<1> DEFINE acked == F!Owed \intersect F!ToSet(F!Posted)
<1>1. ASSUME UNCHANGED <<batching, event>> PROVE F!Owed' = F!Owed
  BY <1>1 DEF F!Owed, F!MessageAt
<1>2. ASSUME UNCHANGED posts PROVE F!ToSet(F!Posted)' = F!ToSet(F!Posted)
  BY <1>2 DEF F!Posted, F!ToSet
<1>3. ASSUME eventAnswer = "none", eventAnswer' = "err", UNCHANGED <<batching, event, posts>>,
             F!Owed # F!Owed \intersect F!ToSet(F!Posted)
      PROVE  [F!Ship!Next]_F!Ship!vars
  BY <1>1, <1>2, <1>3 DEF F!Ship!Next, F!Ship!Answer
<1>4. ASSUME NEW s \in Seq(Valid(event)), PostedOf(posts') = PostedOf(posts) \o s, FireInv',
             eventAnswer = "none", eventAnswer' = "none", UNCHANGED <<batching, event>>
      PROVE  [F!Ship!Next]_F!Ship!vars
  <2>1. PostedOf(posts) \in Seq(Valid(event))
    BY OnLineParts
  <2>2. Elements(PostedOf(posts')) = Elements(PostedOf(posts)) \union Elements(s)
    BY <1>4, <2>1, ConcatElements
  <2>3. F!ToSet(F!Posted) = Elements(PostedOf(posts))
    BY PostedSet
  <2>4. F!ToSet(F!Posted)' = Elements(PostedOf(posts'))
    BY FireFlattened DEF F!Posted, PostedOf, F!ToSet, Elements
  <2>5. F!ToSet(F!Posted) \subseteq F!ToSet(F!Posted)'
    BY <2>2, <2>3, <2>4
  <2> QED
    BY <1>1, <1>4, <2>5 DEF F!Ship!Next, F!Ship!Ack
<1>5. ASSUME UNCHANGED <<batching, event, posts, eventAnswer>> PROVE [F!Ship!Next]_F!Ship!vars
  BY <1>1, <1>2, <1>5 DEF F!Ship!vars
<1>6. CASE F!Split
  <2>1. UNCHANGED <<batching, event, posts>> /\ eventAnswer = "none"
    BY <1>6 DEF F!Split
  <2>2. CASE event[rec].framed
    BY <1>5, <1>6, <2>1, <2>2 DEF F!Split
  <2>3. CASE ~ event[rec].framed
    <3>1. rec \in 1 .. Len(event) /\ eventAnswer' = "err"
      BY <1>6, <2>3 DEF F!Split, FireInv, F!TypeOK
    <3>2. <<rec, 0>> \in F!Owed
      BY <2>3, <3>1 DEF F!Owed
    <3>3. <<rec, 0>> \notin F!ToSet(F!Posted)
      <4>1. <<rec, 0>> \notin F!Id
        BY DEF F!Id
      <4> QED
        BY <4>1, PostedSet DEF Valid
    <3> QED
      BY <1>3, <2>1, <3>1, <3>2, <3>3
  <2> QED
    BY <2>2, <2>3
<1>7. CASE F!TransformFails
  <2>1. /\ UNCHANGED <<batching, event, posts>> /\ eventAnswer = "none" /\ eventAnswer' = "err"
        /\ F!AtMessage /\ F!Current.fate # "good"
    BY <1>7 DEF F!TransformFails, F!AtMessage
  <2>2. SizeAt(event, <<rec, msg>>) = 1
    <3> DEFINE x == <<rec, msg>>
    <3>1. x \in Valid(event) /\ EventOK(event)
      BY <2>1, AtHand DEF FireInv
    <3>2. event[x[1]].messages[x[2]].fate # "good"
      BY <2>1 DEF F!Current, F!MessageAt
    <3> HIDE DEF x
    <3>3. SizeAt(event, x) = 1
      BY <3>1, <3>2, ValidFacts
    <3> QED
      BY <3>3 DEF x
  <2> QED
    BY <1>3, <2>1, <2>2, CurrentOwed
<1>8. CASE F!Flush
  <2>1. /\ UNCHANGED <<batching, event>> /\ eventAnswer = "none" /\ eventAnswer' = "none"
        /\ F!Answered(batch) /\ F!Overflows
    BY <1>8 DEF F!Flush, F!AtTransformed, F!AtMessage
  <2>2. Sum(event, batch) > 0
    BY <2>1, FireGathered DEF F!Overflows
  <2>3. PostedOf(posts') = PostedOf(posts) \o batch /\ batch \in Seq(Valid(event))
    BY <2>1, <2>2, BatchPosted, FireGathered
  <2> QED
    BY <1>4, <1>8, <2>1, <2>3, FlushKeeps
<1>9. CASE F!PostAlone
  <2>1. /\ UNCHANGED <<batching, event>> /\ eventAnswer = "none" /\ eventAnswer' = "none"
    BY <1>9 DEF F!PostAlone, F!AtTransformed, F!AtMessage
  <2>2. PostedOf(posts') = PostedOf(posts) \o << <<rec, msg>> >> /\ << <<rec, msg>> >> \in Seq(Valid(event))
    BY <1>9, PostAloneKeeps
  <2> QED
    BY <1>4, <1>9, <2>1, <2>2, PostAloneKeeps
<1>10. CASE F!Gather
  BY <1>5, <1>10 DEF F!Gather
<1>11. CASE F!PostFails
  <2>1. UNCHANGED <<batching, event, posts>> /\ eventAnswer = "none" /\ eventAnswer' = "err"
    BY <1>11 DEF F!PostFails, F!AtTransformed, F!AtMessage, F!AtRest
  <2>2. CASE F!SizeOf(batch) > 0
    <3>1. Sum(event, batch) # 0
      BY <2>2, FireGathered
    <3> QED
      BY <1>3, <2>1, <3>1, GatheredOwed
  <2>3. CASE F!AtTransformed /\ F!GoesAlone
    <3>1. F!AtMessage
      BY <2>3 DEF F!AtTransformed
    <3>2. /\ F!Current.size = SizeAt(event, <<rec, msg>>) /\ SizeAt(event, <<rec, msg>>) \in Nat /\ MaxBatch \in Nat
      BY <3>1, AtHand DEF F!ConstantsOK
    <3>3. batching => SizeAt(event, <<rec, msg>>) > 0
      BY <2>3, <3>2 DEF F!GoesAlone
    <3> QED
      BY <1>3, <2>1, <3>1, <3>3, CurrentOwed
  <2> QED
    BY <1>11, <2>2, <2>3 DEF F!PostFails, F!Overflows
<1>12. CASE F!EndRecord
  BY <1>5, <1>12 DEF F!EndRecord
<1>13. CASE F!PostRest
  <2>1. /\ UNCHANGED <<batching, event>> /\ eventAnswer = "none" /\ eventAnswer' = "none"
        /\ F!Answered(batch) /\ F!SizeOf(batch) > 0
    BY <1>13 DEF F!PostRest, F!AtRest
  <2>2. Sum(event, batch) > 0
    BY <2>1, FireGathered
  <2>3. PostedOf(posts') = PostedOf(posts) \o batch /\ batch \in Seq(Valid(event))
    BY <2>1, <2>2, BatchPosted, FireGathered
  <2> QED
    BY <1>4, <1>13, <2>1, <2>3, PostRestKeeps
<1>14. CASE F!Return
  <2>1. /\ UNCHANGED <<batching, event, posts>> /\ eventAnswer = "none" /\ eventAnswer' = "ok"
        /\ rec = Len(event) + 1 /\ F!SizeOf(batch) = 0
    BY <1>14 DEF F!Return, F!AtRest
  <2>2. Sum(event, batch) = 0 /\ batch \in Seq(Valid(event)) /\ EventOK(event)
    BY <2>1, FireGathered
  <2>3. /\ Elements(PostedOf(posts)) \union Elements(batch) = SeenIn(event, rec, msg)
    BY OnLineParts
  <2>4. Len(event) \in Nat /\ \A r \in 1 .. Len(event) : event[r].framed
    BY <2>1, <2>2 DEF FireInv, InEvent, EventOK
  <2>5. ASSUME NEW id \in Valid(event), batching => SizeAt(event, id) > 0
        PROVE  id \in Elements(PostedOf(posts))
    <3>1. id \in SeenIn(event, rec, msg)
      BY <2>1, <2>4 DEF SeenIn, Valid, F!Id, F!ConstantsOK
    <3>2. ASSUME id \in Elements(batch) PROVE FALSE
      <4>1. PICK k \in DOMAIN batch : id = batch[k]
        BY <3>2 DEF Elements
      <4>2. SizeAt(event, id) \in Nat /\ SizeAt(event, id) <= 0
        BY <2>2, <4>1, SizeFacts
      <4>3. ~ batching
        BY <2>5, <4>2
      <4>4. batch = <<>>
        BY <4>3 DEF FireInv, F!TypeOK
      <4> QED
        BY <4>1, <4>4
    <3> QED
      BY <2>3, <3>1, <3>2
  <2>6. F!Owed \subseteq Elements(PostedOf(posts))
    <3> SUFFICES ASSUME NEW id \in F!Owed PROVE id \in Elements(PostedOf(posts))
      OBVIOUS
    <3>1. id \in Valid(event) /\ (batching => SizeAt(event, id) > 0)
      BY <2>4 DEF F!Owed, Valid, SizeAt, F!MessageAt
    <3> QED
      BY <2>5, <3>1
  <2>7. F!Owed = F!Owed \intersect F!ToSet(F!Posted)
    BY <2>6, PostedSet
  <2> QED
    BY <1>1, <1>2, <2>1, <2>7 DEF F!Ship!Next, F!Ship!Answer
<1>15. CASE UNCHANGED F!vars
  BY <1>5, <1>15 DEF F!vars
<1> QED
  BY <1>6, <1>7, <1>8, <1>9, <1>10, <1>11, <1>12, <1>13, <1>14, <1>15 DEF F!Next

\* Nothing is posted at the start.
LEMMA FireStarts == ASSUME F!Init PROVE F!Ship!Init
<1>1. posts = <<>> /\ eventAnswer = "none"
  BY DEF F!Init
<1>2. [k \in 1 .. Len(posts) |-> posts[k].messages] = <<>>
  BY <1>1
<1>3. F!Posted = <<>>
  BY <1>2, FireFlattened, FlattenedEmpty DEF F!Posted
<1>4. F!ToSet(F!Posted) = {}
  BY <1>3 DEF F!ToSet
<1> QED
  BY <1>1, <1>4 DEF F!Ship!Init

(* The event implements Shipment: it succeeds if and only if every message *)
(* it owes was posted and answered.                                        *)
THEOREM EventImplementsShipment == F!Spec => Shipped
<1>1. F!Init => FireInv
  BY FireInit, FirehoseAssumption
<1>2. FireInv /\ [F!Next]_F!vars => FireInv'
  BY FireNext, FirehoseAssumption
<1>3. F!Init => F!Ship!Init
  BY FireStarts
<1>4. FireInv /\ [F!Next]_F!vars => [F!Ship!Next]_F!Ship!vars
  BY FireSteps, FirehoseAssumption
<1> QED
  BY <1>1, <1>2, <1>3, <1>4, PTL DEF F!Spec, Shipped, F!Shipped, F!Ship!Spec

-----------------------------------------------------------------------------
(* Module Associator.  The invariant says what has been looked up, and in  *)
(* which of the mappings it is found.                                      *)
Preferred(k) == \A j \in A!Candidates : A!Precedes(k, j)

LookupInv ==
  /\ regexes \in Seq(SUBSET A!Dimension)
  /\ resources \in Seq(A!Labels)
  /\ metric \in A!Labels
  /\ found \in {-1, 0} \union DOMAIN resources
  /\ found = 0 => metric = <<>> \/ A!Candidates = {}
  /\ found > 0 => \E k \in A!Candidates : found \in A!Hits(k) /\ Preferred(k)

\* The instance counts as FiniteSets does.
LEMMA LookupCounts == \A S : A!Cardinality(S) = Cardinality(S) /\ A!IsFiniteSet(S) = IsFiniteSet(S)
BY DEF A!Cardinality, Cardinality, A!IsFiniteSet, IsFiniteSet

\* The same labels have the same signature.
LEMMA SameSignature ==
  ASSUME NEW l, NEW m, NEW dims, \A d \in dims : m[d] = l[d]
  PROVE  A!Signature(l, dims) = A!Signature(m, dims)
<1>1. {l[d] : d \in dims} = {m[d] : d \in dims}
  OBVIOUS
<1>2. ASSUME NEW v PROVE {d \in dims : l[d] = v} = {d \in dims : m[d] = v}
  OBVIOUS
<1>3. A!OddValues(l, dims) = A!OddValues(m, dims)
  BY <1>1, <1>2, Zenon DEF A!OddValues
<1> QED
  BY <1>3, Zenon DEF A!Signature

\* Where no two dimensions share a value the signature tells the labels.
LEMMA SignatureTells ==
  ASSUME NEW l, NEW m, NEW dims, A!Signature(l, dims) = A!Signature(m, dims),
         \A d, e \in dims : d # e => l[d] # l[e] /\ l[d] # m[e],
         NEW d \in dims
  PROVE  m[d] = l[d]
<1> DEFINE v == l[d]
           O == {e \in dims : l[e] = v}
<1>1. A!OddValues(l, dims) = A!OddValues(m, dims)
  <2> DEFINE S == A!OddValues(l, dims)
             T == A!OddValues(m, dims)
  <2>1. (dims \ S) \union (S \ dims) = (dims \ T) \union (T \ dims)
    BY DEF A!Signature, A!Xor
  <2> HIDE DEF S, T
  <2>2. S = T
    BY <2>1
  <2> QED
    BY <2>2 DEF S, T
<1>2. O = {d}
  OBVIOUS
<1>3. v \in {l[e] : e \in dims} /\ Cardinality(O) % 2 = 1
  <2>1. Cardinality({d}) = 1
    BY FS_Singleton
  <2> QED
    BY <1>2, <2>1
<1>4. l[d] \in A!OddValues(l, dims)
  <2> HIDE DEF v
  <2>1. v \in A!OddValues(l, dims)
    BY <1>3, LookupCounts DEF A!OddValues
  <2> QED
    BY <2>1 DEF v
<1>5. l[d] \in {m[e] : e \in dims}
  BY <1>1, <1>4 DEF A!OddValues
<1>6. PICK e \in dims : l[d] = m[e]
  BY <1>5
<1> QED
  BY <1>6

\* The greatest and the least of the places of a sequence.
LEMMA Extremes ==
  ASSUME NEW S, NEW s \in Seq(S), NEW T \in SUBSET DOMAIN s, T # {}
  PROVE  /\ A!Max(T) \in T /\ \A x \in T : x <= A!Max(T)
         /\ A!Min(T) \in T /\ \A x \in T : A!Min(T) <= x
<1>1. Len(s) \in Nat /\ T \in SUBSET Nat /\ \A t \in T : t <= Len(s)
  OBVIOUS
<1>2. \E x \in T : \A y \in T : y <= x
  BY <1>1, GreatestElement
<1>3. \E x \in T : \A y \in T : x <= y
  BY <1>1, LeastNatural
<1>4. A!Max(T) = CHOOSE x \in T : \A y \in T : x >= y
  BY DEF A!Max
<1>5. A!Min(T) = CHOOSE x \in T : \A y \in T : x <= y
  BY DEF A!Min
<1>6. \A x, y \in T : x >= y <=> y <= x
  BY <1>1
<1>7. \E x \in T : \A y \in T : x >= y
  BY <1>2, <1>6
<1>8. A!Max(T) \in T /\ \A y \in T : A!Max(T) >= y
  BY <1>4, <1>7, Zenon
<1>9. A!Min(T) \in T /\ \A y \in T : A!Min(T) <= y
  BY <1>3, <1>5, Zenon
<1> QED
  BY <1>6, <1>8, <1>9

\* Regexes have sizes.
LEMMA RegexFacts ==
  ASSUME A!ConstantsOK, LookupInv, NEW k \in DOMAIN regexes
  PROVE  /\ regexes[k] \subseteq A!Dimension /\ Cardinality(regexes[k]) \in Nat
         /\ Cardinality(regexes[k]) <= Cardinality(A!Dimension) /\ Cardinality(A!Dimension) \in Nat
<1>1. regexes[k] \subseteq A!Dimension
  BY DEF LookupInv
<1>2. IsFiniteSet(A!Dimension)
  BY LookupCounts DEF A!ConstantsOK
<1>3. IsFiniteSet(regexes[k]) /\ Cardinality(regexes[k]) <= Cardinality(A!Dimension)
  BY <1>1, <1>2, FS_Subset
<1>4. Cardinality(regexes[k]) \in Nat /\ Cardinality(A!Dimension) \in Nat
  BY <1>2, <1>3, FS_CardinalityType
<1> QED
  BY <1>1, <1>3, <1>4

\* Of the mappings that answer one is preferred.
LEMMA OnePreferred ==
  ASSUME A!ConstantsOK, LookupInv, A!Candidates # {}
  PROVE  \E k \in A!Candidates : Preferred(k)
<1> DEFINE C == A!Candidates
           size(k) == Cardinality(regexes[k])
           T == {size(k) : k \in C}
           n == Cardinality(A!Dimension)
<1>1. C \subseteq DOMAIN regexes
  BY DEF A!Candidates
<1>2. \A k \in C : size(k) \in Nat /\ size(k) <= n /\ n \in Nat
  BY <1>1, RegexFacts
<1>3. \A k \in C : k \in Nat
  BY <1>1 DEF LookupInv
<1>4. PICK c \in T : \A t \in T : t <= c
  <2>1. T \in SUBSET Nat /\ T # {} /\ n \in Nat /\ \A t \in T : t <= n
    BY <1>2
  <2> HIDE DEF T, n
  <2> QED
    BY <2>1, GreatestElement
<1> DEFINE U == {k \in C : size(k) = c}
<1>5. PICK k \in U : \A j \in U : k <= j
  <2>1. U \in SUBSET Nat /\ U # {}
    BY <1>3
  <2> HIDE DEF U
  <2> QED
    BY <2>1, LeastNatural
<1>6. ASSUME NEW j \in C PROVE A!Precedes(k, j)
  <2>1. size(j) <= c /\ size(k) = c /\ size(j) \in Nat /\ c \in Nat
    BY <1>2, <1>4, <1>5
  <2>2. size(j) = c => k <= j
    BY <1>5
  <2>3. size(k) > size(j) \/ (size(k) = size(j) /\ k <= j)
    BY <2>1, <2>2
  <2> QED
    BY <2>3, LookupCounts DEF A!Precedes
<1> QED
  BY <1>5, <1>6 DEF Preferred

\* What is found answers the metric under the mapping of its first regex.
LEMMA HitFacts ==
  ASSUME LookupInv, NEW k \in A!Candidates, NEW r \in A!Hits(k)
  PROVE  /\ k \in DOMAIN regexes /\ r \in DOMAIN resources /\ r \in A!Mapped(k)
         /\ k \in A!Matching(r) /\ k = A!Min(A!Matching(r))
         /\ regexes[k] \subseteq DOMAIN metric /\ regexes[k] \subseteq DOMAIN resources[r]
         /\ A!Signature(resources[r], regexes[k]) = A!Signature(A!Sought, regexes[k])
         /\ resources[r] \in A!Labels
BY DEF LookupInv, A!Candidates, A!Hits, A!Mapped, A!Matching

\* A resource that agrees is among those that answer.
LEMMA AgreeingAnswers ==
  ASSUME LookupInv, NEW r \in DOMAIN resources, NEW k \in DOMAIN regexes, A!Agree(r, k)
  PROVE  k \in A!Candidates /\ r \in A!Hits(k) /\ metric # <<>>
<1>1. A!Matching(r) # {} /\ A!Matching(r) \subseteq DOMAIN regexes
  BY DEF A!Agree, A!Known, A!Matching
<1>2. k = A!Min(A!Matching(r)) /\ regexes[k] \subseteq DOMAIN metric
      /\ \A d \in regexes[k] : A!Sought[d] = resources[r][d]
  BY DEF A!Agree, A!Known, A!Same, A!Sought
<1>3. k \in A!Matching(r)
  BY <1>1, <1>2, Extremes DEF LookupInv
<1>4. A!Signature(resources[r], regexes[k]) = A!Signature(A!Sought, regexes[k])
  BY <1>2, SameSignature
<1>5. r \in A!Hits(k)
  BY <1>2, <1>3, <1>4 DEF A!Hits, A!Mapped
<1>6. k \in A!Candidates
  BY <1>2, <1>5 DEF A!Candidates
<1>7. metric # <<>>
  <2>1. regexes[k] # {}
    BY <1>3 DEF A!Matching
  <2> QED
    BY <1>2, <2>1
<1> QED
  BY <1>5, <1>6, <1>7

\* The invariant at the start.
LEMMA LookupStart == ASSUME A!ConstantsOK, A!Init PROVE LookupInv
<1>1. /\ regexes \in A!BoundedSeq(SUBSET A!Dimension, MaxRegexes) /\ found = -1
      /\ resources \in A!BoundedSeq(A!Labels \ {<<>>}, MaxResources) /\ metric \in A!Labels
  BY DEF A!Init
<1>2. regexes \in Seq(SUBSET A!Dimension)
  <2>1. PICK n \in 0 .. MaxRegexes : regexes \in [1 .. n -> SUBSET A!Dimension]
    BY <1>1 DEF A!BoundedSeq, A!SeqOf
  <2> QED
    BY <2>1 DEF A!ConstantsOK
<1>3. resources \in Seq(A!Labels)
  <2>1. PICK n \in 0 .. MaxResources : resources \in [1 .. n -> A!Labels \ {<<>>}]
    BY <1>1 DEF A!BoundedSeq, A!SeqOf
  <2> QED
    BY <2>1 DEF A!ConstantsOK
<1> QED
  BY <1>1, <1>2, <1>3 DEF LookupInv

\* The lookup keeps the invariant.
LEMMA LookupStep == ASSUME A!ConstantsOK, LookupInv, [A!Next]_A!vars PROVE LookupInv'
<1>1. /\ UNCHANGED <<mq, regexes, resources, metric>>
      /\ found' = found \/ A!Associate
  BY DEF A!Next, A!vars, A!Associate
<1>2. \A k : A!Hits(k)' = A!Hits(k)
  BY <1>1 DEF A!Hits, A!Mapped, A!Matching, A!Sought
<1>3. A!Candidates' = A!Candidates
  BY <1>1, <1>2 DEF A!Candidates
<1>4. \A k : Preferred(k)' = Preferred(k)
  BY <1>1, <1>3 DEF Preferred, A!Precedes
<1> DEFINE Good(f) ==
      /\ f \in {-1, 0} \union DOMAIN resources
      /\ f = 0 => metric = <<>> \/ A!Candidates = {}
      /\ f > 0 => \E k \in A!Candidates : f \in A!Hits(k) /\ Preferred(k)
<1>5. Good(found')
  <2>1. CASE found' = found
    BY <2>1 DEF LookupInv
  <2>2. CASE A!Associate /\ (metric = <<>> \/ A!Candidates = {})
    BY <2>2 DEF A!Associate
  <2>3. CASE A!Associate /\ ~ (metric = <<>> \/ A!Candidates = {})
    <3> DEFINE k == CHOOSE q \in A!Candidates : \A j \in A!Candidates : A!Precedes(q, j)
    <3>1. k \in A!Candidates /\ Preferred(k)
      BY <2>3, OnePreferred, Zenon DEF Preferred
    <3>2. found' = A!Max(A!Hits(k))
      BY <2>3 DEF A!Associate
    <3> HIDE DEF k
    <3>3. A!Hits(k) # {} /\ A!Hits(k) \subseteq DOMAIN resources
      BY <3>1 DEF A!Candidates, A!Hits, A!Mapped
    <3>4. A!Max(A!Hits(k)) \in A!Hits(k)
      BY <3>3, Extremes DEF LookupInv
    <3>5. found' > 0
      BY <3>2, <3>3, <3>4 DEF LookupInv
    <3> QED
      BY <3>1, <3>2, <3>3, <3>4, <3>5
  <2> QED
    BY <1>1, <2>1, <2>2, <2>3
<1> QED
  BY <1>1, <1>2, <1>3, <1>4, <1>5 DEF LookupInv

\* Whatever the values: of the resources that agree with the metric none is
\* passed over for one that is known by fewer dimensions, or for none.
LEMMA NonePassedOver ==
  ASSUME A!ConstantsOK, LookupInv, found >= 0,
         NEW r \in DOMAIN resources, NEW k \in DOMAIN regexes, A!Agree(r, k)
  PROVE  \E q \in A!Candidates :
           found > 0 /\ found \in A!Hits(q) /\ Cardinality(regexes[q]) >= Cardinality(regexes[k])
<1>1. k \in A!Candidates /\ metric # <<>>
  BY AgreeingAnswers
<1>2. found > 0
  BY <1>1 DEF LookupInv
<1>3. PICK q \in A!Candidates : found \in A!Hits(q) /\ Preferred(q)
  BY <1>2 DEF LookupInv
<1>4. A!Precedes(q, k) /\ q \in DOMAIN regexes
  BY <1>1, <1>3 DEF Preferred, A!Candidates
<1>5. Cardinality(regexes[q]) >= Cardinality(regexes[k])
  <2>1. k \in DOMAIN regexes /\ q \in DOMAIN regexes
    BY <1>4
  <2>2. Cardinality(regexes[k]) \in Nat /\ Cardinality(regexes[q]) \in Nat
    BY <2>1, RegexFacts
  <2>3. Cardinality(regexes[q]) > Cardinality(regexes[k]) \/ Cardinality(regexes[q]) = Cardinality(regexes[k])
    BY <1>4, LookupCounts DEF A!Precedes
  <2> QED
    BY <2>2, <2>3
<1> QED
  BY <1>2, <1>3, <1>5

\* What is found agrees with the metric, or has values that can be confused.
LEMMA FoundIsRight ==
  ASSUME LookupInv, NEW k \in A!Candidates, NEW r \in A!Hits(k)
  PROVE  A!Known(r, k) /\ (A!Agree(r, k) \/ A!Confusable(r, k))
<1>1. /\ k \in A!Matching(r) /\ k = A!Min(A!Matching(r))
      /\ regexes[k] \subseteq DOMAIN metric
      /\ A!Signature(resources[r], regexes[k]) = A!Signature(A!Sought, regexes[k])
  BY HitFacts
<1>2. A!Known(r, k)
  BY <1>1 DEF A!Known
<1>3. ASSUME ~ A!Confusable(r, k) PROVE A!Agree(r, k)
  <2>1. \A d \in regexes[k] : A!Sought[d] = resources[r][d]
    BY <1>1, <1>3, SignatureTells DEF A!Confusable
  <2>2. \A d \in regexes[k] : A!Same(r, d)
    BY <1>1, <2>1 DEF A!Same, A!Sought
  <2> QED
    BY <1>2, <2>2 DEF A!Agree
<1> QED
  BY <1>2, <1>3

(* The lookup finds a resource that agrees with the metric, or has values  *)
(* of two dimensions that exclusive or confuses; it finds one if one       *)
(* agrees, and none known by more dimensions agrees.                       *)
THEOREM BestResourceHolds == A!Spec => []BestResource
<1>1. A!Init => LookupInv
  BY LookupStart, LookupAssumption
<1>2. LookupInv /\ [A!Next]_A!vars => LookupInv'
  BY LookupStep, LookupAssumption
<1>3. LookupInv => BestResource
  <2> SUFFICES ASSUME LookupInv PROVE BestResource
    OBVIOUS
  <2>1. ASSUME found > 0
        PROVE  \E k \in DOMAIN regexes : A!Agree(found, k) \/ (A!Known(found, k) /\ A!Confusable(found, k))
    <3>1. PICK k \in A!Candidates : found \in A!Hits(k)
      BY <2>1 DEF LookupInv
    <3>2. A!Known(found, k) /\ (A!Agree(found, k) \/ A!Confusable(found, k))
      BY <3>1, FoundIsRight
    <3> QED
      BY <3>1, <3>2 DEF A!Candidates
  <2>2. ASSUME found >= 0, NEW r \in DOMAIN resources, NEW k \in DOMAIN regexes, A!Agree(r, k)
        PROVE  \E q \in DOMAIN regexes :
                 found > 0 /\ A!Known(found, q) /\ Cardinality(regexes[q]) >= Cardinality(regexes[k])
    <3>1. PICK q \in A!Candidates :
            found > 0 /\ found \in A!Hits(q) /\ Cardinality(regexes[q]) >= Cardinality(regexes[k])
      BY <2>2, NonePassedOver, LookupAssumption
    <3>2. A!Known(found, q) /\ q \in DOMAIN regexes
      BY <3>1, FoundIsRight DEF A!Candidates
    <3> QED
      BY <3>1, <3>2
  <2>3. A!RightResource
    BY <2>1 DEF A!RightResource
  <2>4. A!MostSpecificFound
    BY <2>2, LookupCounts DEF A!MostSpecificFound
  <2> QED
    BY <2>3, <2>4 DEF BestResource, A!BestResource
<1> QED
  BY <1>1, <1>2, <1>3, PTL DEF A!Spec
=============================================================================
