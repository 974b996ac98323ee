--------------------------- MODULE ResourceCache ---------------------------
(***************************************************************************)
(* Where the tags of a CloudWatch metric come from                         *)
(* (src/src/metrics/tag_enrichment.rs): NamespaceResourceCache, kept for   *)
(* one Firehose event, above a file for each namespace, kept for as long   *)
(* as the Lambda environment lives, above the tagging API, read page by    *)
(* page.  An environment handles one event at a time; the event may be cut *)
(* off at any point, between the steps of writing a file too.              *)
(*                                                                         *)
(* Tags may change at any tick of the clock, so a list of resources is     *)
(* named by the time at which its first page was read.  A file has its     *)
(* time of modification beside that.                                       *)
(***************************************************************************)
EXTENDS Naturals, FiniteSets

CONSTANTS
  Namespace,  (* CloudWatch namespaces with a YACE service                  *)
  Plain,      (* those whose service has no filters or no regexes           *)
  Pages,      (* pages of an answer of the tagging API                      *)
  Ttl,        (* MetricsFileCacheExpiration                                 *)
  MaxRun,     (* longest an event may run: the Lambda timeout               *)
  MaxTime,    (* bound: the clock                                           *)
  NoFile

ASSUME ConstantsAssumption ==
  /\ Plain \subseteq Namespace
  /\ Pages \in Nat \ {0}
  /\ {Ttl, MaxRun, MaxTime} \subseteq Nat
  /\ NoFile \notin [stamp : Nat, mtime : Nat, whole : BOOLEAN]

VARIABLES
  enabled,   (* FILE_CACHE_ENABLED                                          *)
  lenient,   (* CONTINUE_ON_RESOURCE_FAILURE                                *)
  now,       (* the clock                                                   *)
  file,      (* the cache file of each namespace                            *)
  tmp,       (* the file it is written to first                             *)
  started,   (* when the event in progress started                          *)
  step,      (* where the event is                                          *)
  ns,        (* the namespace being looked up                               *)
  page,      (* pages read of the answer                                    *)
  stamp,     (* when the first was read                                     *)
  tags,      (* associators: the resources used for each namespace so far   *)
  fetches,   (* history: lookups of the event that went to the API          *)
  failed,    (* history: namespaces whose fetch failed in this event        *)
  used,      (* history: the newest tags used for a namespace, by any event *)
  answer     (* result of the last event                                    *)

config == <<enabled, lenient>>
files  == <<file, tmp>>
fetch  == <<ns, page, stamp>>
past   == <<fetches, failed, used>>
vars == <<config, now, files, started, step, fetch, tags, past, answer>>

Time == 0 .. MaxTime
File == [stamp : Time, mtime : Time, whole : BOOLEAN] \union {NoFile}
Source == {"plain", "file", "api", "stale", "skipped"}
Tags == [from : Source, stamp : Time, at : Time]

TypeOK ==
  /\ {enabled, lenient} \subseteq BOOLEAN
  /\ now \in Time
  /\ file \in [Namespace -> File]
  /\ tmp \in [Namespace -> File]
  /\ started \in Time /\ started <= now
  /\ step \in {"idle", "event", "fetch", "create", "write", "rename"}
  /\ ns \in Namespace
  /\ page \in 0 .. Pages
  /\ stamp \in Time
  /\ DOMAIN tags \subseteq Namespace
  /\ \A n \in DOMAIN tags : tags[n] \in Tags
  /\ fetches \in [Namespace -> Nat]
  /\ failed \subseteq Namespace
  /\ used \in [Namespace -> Time]
  /\ answer \in {"none", "ok", "err"}

Nothing == [n \in {} |-> 0]

Init ==
  /\ enabled \in BOOLEAN
  /\ lenient \in BOOLEAN
  /\ now = 0
  /\ file = [n \in Namespace |-> NoFile]
  /\ tmp = [n \in Namespace |-> NoFile]
  /\ started = 0
  /\ step = "idle"
  /\ ns \in Namespace
  /\ page = 0
  /\ stamp = 0
  /\ tags = Nothing
  /\ fetches = [n \in Namespace |-> 0]
  /\ failed = {}
  /\ used = [n \in Namespace |-> 0]
  /\ answer = "none"

-----------------------------------------------------------------------------
(* An event starts with an empty NamespaceResourceCache. *)
Begin ==
  /\ step = "idle"
  /\ step' = "event"
  /\ started' = now
  /\ tags' = Nothing
  /\ fetches' = [n \in Namespace |-> 0]
  /\ failed' = {}
  /\ answer' = "none"
  /\ UNCHANGED <<config, now, files, fetch, used>>

(* The associator of n is built, from resources read at time s. *)
Associate(n, source, s) ==
  /\ tags' = [m \in DOMAIN tags \union {n} |->
                IF m = n THEN [from |-> source, stamp |-> s, at |-> now] ELSE tags[m]]
  /\ used' = [used EXCEPT ![n] = IF s > @ THEN s ELSE @]
  /\ step' = "event"

(* A data point of a namespace the event has not met yet. *)
Meets(n) == step = "event" /\ n \notin DOMAIN tags

(* Its service tags nothing. *)
LookUpPlain(n) ==
  /\ Meets(n)
  /\ n \in Plain
  /\ Associate(n, "plain", now)
  /\ UNCHANGED <<config, now, files, started, fetch, fetches, failed, answer>>

(* Variants: a file is fresh whatever its age; once it has expired.        *)
FreshAlways(n) == enabled /\ file[n] # NoFile

FreshOnceExpired(n) ==
  /\ enabled
  /\ file[n] # NoFile
  /\ now - file[n].mtime > Ttl

Fresh(n) ==
  /\ enabled
  /\ file[n] # NoFile
  /\ now - file[n].mtime < Ttl

(* The file of the namespace is fresh and can be read. *)
LookUpFile(n) ==
  /\ Meets(n)
  /\ n \notin Plain
  /\ Fresh(n)
  /\ file[n].whole
  /\ Associate(n, "file", file[n].stamp)
  /\ UNCHANGED <<config, now, files, started, fetch, fetches, failed, answer>>

(* It is not: the tagging API is asked. *)
StartFetch(n) ==
  /\ Meets(n)
  /\ n \notin Plain
  /\ ~ (Fresh(n) /\ file[n].whole)
  /\ ns' = n
  /\ page' = 0
  /\ fetches' = [fetches EXCEPT ![n] = @ + 1]
  /\ step' = "fetch"
  /\ UNCHANGED <<config, now, files, started, stamp, tags, failed, used, answer>>

(* A page comes back; the resources of the first are the oldest. *)
FetchPage ==
  /\ step = "fetch"
  /\ page < Pages
  /\ page' = page + 1
  /\ stamp' = IF page = 0 THEN now ELSE stamp
  /\ UNCHANGED <<config, now, files, started, step, ns, tags, past, answer>>

(* The last page came back.  An answer without resources is used, but not  *)
(* written to the file.                                                    *)
FetchDone ==
  /\ step = "fetch"
  /\ page = Pages
  /\ \/ Associate(ns, "api", stamp)
     \/ enabled /\ step' = "create" /\ UNCHANGED <<tags, used>>
  /\ UNCHANGED <<config, now, files, started, fetch, fetches, failed, answer>>

(* Variant: the outcome of a failed fetch is not kept. *)
FetchFailsForgotten ==
  /\ step = "fetch"
  /\ page < Pages
  /\ step' = "event"
  /\ failed' = failed \union {ns}
  /\ UNCHANGED <<config, now, files, started, fetch, tags, fetches, used, answer>>

(* A page does not come back; those before it are dropped.  A file of any  *)
(* age is the next best; without one the namespace goes untagged, or the   *)
(* event fails.                                                            *)
FetchFails ==
  /\ step = "fetch"
  /\ page < Pages
  /\ failed' = failed \union {ns}
  /\ \/ /\ enabled /\ file[ns] # NoFile
        /\ file[ns].whole
        /\ Associate(ns, "stale", file[ns].stamp)
        /\ UNCHANGED answer
     \/ /\ ~ (enabled /\ file[ns] # NoFile /\ file[ns].whole)
        /\ lenient
        /\ Associate(ns, "skipped", now)
        /\ UNCHANGED answer
     \/ /\ ~ (enabled /\ file[ns] # NoFile /\ file[ns].whole)
        /\ ~ lenient
        /\ step' = "idle"
        /\ answer' = "err"
        /\ UNCHANGED <<tags, used>>
  /\ UNCHANGED <<config, now, files, started, fetch, fetches>>

(* write_file_cache: the temporary file is created empty, ... *)
CreateTmp ==
  /\ step = "create"
  /\ tmp' = [tmp EXCEPT ![ns] = [stamp |-> stamp, mtime |-> now, whole |-> FALSE]]
  /\ step' = "write"
  /\ UNCHANGED <<config, now, file, started, fetch, tags, past, answer>>

(* ... then written, ... *)
WriteTmp ==
  /\ step = "write"
  /\ tmp' = [tmp EXCEPT ![ns] = [stamp |-> stamp, mtime |-> now, whole |-> TRUE]]
  /\ step' = "rename"
  /\ UNCHANGED <<config, now, file, started, fetch, tags, past, answer>>

(* ... then it takes the place of the file. *)
Rename ==
  /\ step = "rename"
  /\ file' = [file EXCEPT ![ns] = tmp[ns]]
  /\ tmp' = [tmp EXCEPT ![ns] = NoFile]
  /\ Associate(ns, "api", stamp)
  /\ UNCHANGED <<config, now, started, fetch, fetches, failed, answer>>

(* Variant: what there is of it takes the place of the file. *)
WriteFailsRenaming ==
  /\ step = "write"
  /\ file' = [file EXCEPT ![ns] = tmp[ns]]
  /\ Associate(ns, "api", stamp)
  /\ UNCHANGED <<config, now, tmp, started, fetch, fetches, failed, answer>>

(* Any of the three fails: the file stays as it is. *)
WriteFails ==
  /\ step \in {"create", "write", "rename"}
  /\ Associate(ns, "api", stamp)
  /\ UNCHANGED <<config, now, files, started, fetch, fetches, failed, answer>>

(* The event has no more data points. *)
Finish ==
  /\ step = "event"
  /\ step' = "idle"
  /\ answer' = "ok"
  /\ UNCHANGED <<config, now, files, started, fetch, tags, past>>

(* The invocation is cut off, wherever it is; its environment goes on. *)
CutOff ==
  /\ step # "idle"
  /\ step' = "idle"
  /\ answer' = "none"
  /\ UNCHANGED <<config, now, files, started, fetch, tags, past>>

(* The environment is replaced by one without files. *)
NewEnvironment ==
  /\ step' = "idle"
  /\ answer' = "none"
  /\ file' = [n \in Namespace |-> NoFile]
  /\ tmp' = [n \in Namespace |-> NoFile]
  /\ UNCHANGED <<config, now, started, fetch, tags, past>>

(* Time passes; an event ends before its timeout. *)
Tick ==
  /\ now < MaxTime
  /\ step # "idle" => now - started < MaxRun
  /\ now' = now + 1
  /\ UNCHANGED <<config, files, started, step, fetch, tags, past, answer>>

Next ==
  \/ Begin \/ Finish \/ CutOff \/ NewEnvironment \/ Tick
  \/ \E n \in Namespace : LookUpPlain(n) \/ LookUpFile(n) \/ StartFetch(n)
  \/ FetchPage \/ FetchDone \/ FetchFails
  \/ CreateTmp \/ WriteTmp \/ Rename \/ WriteFails

Spec == Init /\ [][Next]_vars

-----------------------------------------------------------------------------
(* An event asks the tagging API for the resources of a namespace at most  *)
(* once, however many data points it has and however the fetch ends: an    *)
(* outage is not answered with a request for every data point.             *)
OneFetchPerEvent == \A n \in Namespace : fetches[n] <= 1

(* A file is always a complete list, wherever an event was cut off and     *)
(* whatever failed while it was written (tag_enrichment.rs:385-400).       *)
NeverTorn == \A n \in Namespace : file[n] # NoFile => file[n].whole

(* Unless its fetch failed in this very event, no namespace is tagged from *)
(* a list read longer ago than the expiration of the file plus the longest *)
(* an event runs: the age of a file counts from its writing, the age of    *)
(* its tags from the first page.                                           *)
FreshUnlessFetchFailed ==
  \A n \in DOMAIN tags \ failed : tags[n].at - tags[n].stamp <= Ttl + MaxRun

(* A cache file is a whole list, and what is tagged is fresh or a fallback. *)
CacheIsSound == NeverTorn /\ FreshUnlessFetchFailed

(* Unless its fetch failed in this event, a namespace is not tagged from   *)
(* an older list than it was before, in this event or an earlier one: a    *)
(* list that was used but could not be written leaves no younger-looking   *)
(* file behind that would bring the tags before it back.                   *)
TagsNeverGoBack ==
  [][ \A n \in DOMAIN tags' :
        \/ n \in DOMAIN tags /\ step # "idle"
        \/ n \in failed'
        \/ tags'[n].stamp >= used[n] ]_vars
=============================================================================
