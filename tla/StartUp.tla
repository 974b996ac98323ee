------------------------------ MODULE StartUp ------------------------------
(***************************************************************************)
(* A cold start (src/src/main.rs): the configuration of one of the three   *)
(* telemetry modes is read from the environment variables, its API key is  *)
(* taken from Secrets Manager if it is an ARN there, a role is assumed, and *)
(* the exporter is built.  The values that are read only to be kept are    *)
(* left out, but for the failures of reading them.                         *)
(*                                                                         *)
(* A value is known by what the code tells it by: unset, blank, padded     *)
(* (valid but for spaces around it), valid or invalid; the API key as a    *)
(* key or an ARN, with or without spaces in front (behind an ARN they      *)
(* leave it one).                                                          *)
(***************************************************************************)
EXTENDS Naturals, Sequences, FiniteSets

CONSTANTS
  MaxHeaders  (* bound: most entries of OTLP_HEADERS                        *)

(* To be stated as an assumption where the module is instantiated. *)
ConstantsOK == MaxHeaders \in Nat

VARIABLES
  env,       (* the environment variables                                   *)
  step,      (* what is done next; running or failed when it is over        *)
  route,     (* where telemetry is to be sent, and with what                *)
  headers,   (* names of the headers parsed so far                          *)
  identity,  (* for each service, whose credentials its client has          *)
  secrets    (* history: Secrets Manager was asked                          *)

vars == <<env, step, route, headers, identity, secrets>>

(* An entry of OTLP_HEADERS by its name: two names that differ in case,    *)
(* another one; or an entry that is reserved or malformed.                 *)
Header == {"a", "A", "b", "refused"}

Lower(name) == IF name = "A" THEN "a" ELSE name

Value == {"unset", "blank", "padded", "valid", "invalid"}
Key == {"unset", "blank", "key", "padded key", "arn", "padded arn"}
Service == {"s3", "ecr", "logs", "sqs"}

Env ==
  [ TELEMETRY_MODE      : {"logs", "metrics", "traces"},  \* anything else: logs
    LOG_EXPORT_PROTOCOL : {"rest", "otlp", "invalid"},    \* unset: rest
    OTLP_ENDPOINT       : Value,
    OTLP_HEADERS        : UNION {[1 .. n -> Header] : n \in 0 .. MaxHeaders},
    CORALOGIX_DOMAIN    : Value,
    CORALOGIX_ENDPOINT  : {"unset", "blank", "valid"},
    CORALOGIX_API_KEY   : Key,
    LAMBDA_ASSUME_ROLE  : BOOLEAN ]

NoRoute == [to |-> "nowhere", key |-> "unset"]

Route ==
  [to : {"nowhere", "coralogix", "collector"}, key : Key \union {"secret"}]

TypeOK ==
  /\ env \in Env
  /\ step \in {"load", "headers", "secret", "role", "build", "running", "failed"}
  /\ route \in Route
  /\ headers \in Seq({"a", "b"}) /\ Len(headers) <= MaxHeaders
  /\ identity \in [Service -> {"lambda", "role"}]
  /\ secrets \in BOOLEAN

Init ==
  /\ env \in Env
  /\ step = "load"
  /\ route = NoRoute
  /\ headers = <<>>
  /\ identity = [s \in Service |-> "lambda"]
  /\ secrets = FALSE

-----------------------------------------------------------------------------
(* A value that is missing or invalid ends the start; Lambda tries anew.   *)
Fails ==
  /\ step' = "failed"
  /\ UNCHANGED <<env, route, headers, identity, secrets>>

Loaded(to, key, next) ==
  /\ route' = [to |-> to, key |-> key]
  /\ step' = next
  /\ UNCHANGED <<env, headers, identity, secrets>>

IsSet(value) == value \notin {"unset", "blank"}

(* validate_collector_endpoint: spaces are no part of a URI.               *)
ValidCollector(value) == value = "valid"

(* coralogix_otlp_endpoint: a bare host name that makes a URI.              *)
ValidDomain == env.CORALOGIX_DOMAIN = "valid"

(* Outside traces a key is taken as it is, blank or padded. *)
RawKey == env.CORALOGIX_API_KEY

(* LogExportConfig::load_from_env, or any other value that cannot be read. *)
LoadLogs ==
  /\ step = "load"
  /\ env.TELEMETRY_MODE = "logs"
  /\ \/ Fails
     \/ /\ env.LOG_EXPORT_PROTOCOL = "rest"
        /\ env.CORALOGIX_ENDPOINT # "unset" /\ RawKey # "unset"
        /\ Loaded("coralogix", RawKey, "secret")
     \/ /\ env.LOG_EXPORT_PROTOCOL = "otlp"
        /\ IsSet(env.OTLP_ENDPOINT)
        /\ ValidCollector(env.OTLP_ENDPOINT)
        /\ Loaded("collector", "unset", "headers")
     \/ /\ env.LOG_EXPORT_PROTOCOL = "otlp"
        /\ ~ IsSet(env.OTLP_ENDPOINT)
        /\ ValidDomain /\ RawKey # "unset"
        /\ Loaded("coralogix", RawKey, "secret")

LoadMetrics ==
  /\ step = "load"
  /\ env.TELEMETRY_MODE = "metrics"
  /\ \/ Fails
     \/ RawKey # "unset" /\ Loaded("coralogix", RawKey, "secret")

(* Variant: blank is unset, but spaces around a value are kept. *)
FilledIn(value) == IF value = "blank" THEN "unset" ELSE value

(* env_opt: the value without spaces around it; a blank one counts as unset. *)
Trimmed(value) ==
  CASE value = "blank"      -> "unset"
    [] value = "padded"     -> "valid"
    [] value = "padded key" -> "key"
    [] value = "padded arn" -> "arn"
    [] OTHER                -> value

(* Variant: the endpoint takes the collector's place without its headers,  *)
(* and with the key.                                                       *)
LoadTracesKeyed ==
  LET collector == Trimmed(env.OTLP_ENDPOINT)
      key       == Trimmed(env.CORALOGIX_API_KEY) IN
  /\ step = "load"
  /\ env.TELEMETRY_MODE = "traces"
  /\ \/ Fails
     \/ key # "unset" /\ collector # "unset" /\ Loaded("collector", key, "headers")
     \/ key # "unset" /\ collector = "unset" /\ Loaded("coralogix", key, "secret")

(* traces::Config::load_from_env.  A domain is not validated. *)
LoadTraces ==
  LET collector == Trimmed(env.OTLP_ENDPOINT)
      key       == Trimmed(env.CORALOGIX_API_KEY) IN
  /\ step = "load"
  /\ env.TELEMETRY_MODE = "traces"
  /\ \/ Fails
     \/ /\ collector # "unset" /\ ValidCollector(collector)
        /\ Loaded("collector", "unset", "headers")
     \/ /\ collector = "unset" /\ key # "unset"
        /\ \/ Trimmed(env.CORALOGIX_ENDPOINT) # "unset"
           \/ Trimmed(env.CORALOGIX_DOMAIN) # "unset"
        /\ Loaded("coralogix", key, "secret")

(* Variant: a name is compared with those before as it is written. *)
AcceptsCased(name, before) ==
  /\ name # "refused"
  /\ \A i \in DOMAIN before : before[i] # name

Accepts(name, before) ==
  /\ name # "refused"
  /\ \A i \in DOMAIN before : before[i] # Lower(name)

(* OtlpHeaders::parse, one entry after the other. *)
ParseHeader ==
  /\ step = "headers"
  /\ Len(headers) < Len(env.OTLP_HEADERS)
  /\ LET name == env.OTLP_HEADERS[Len(headers) + 1] IN
     IF Accepts(name, headers)
       THEN /\ headers' = Append(headers, Lower(name))
            /\ UNCHANGED <<env, step, route, identity, secrets>>
       ELSE Fails

HeadersParsed ==
  /\ step = "headers"
  /\ Len(headers) = Len(env.OTLP_HEADERS)
  /\ step' = "secret"
  /\ UNCHANGED <<env, route, headers, identity, secrets>>

(* Variant: without an answer the ARN is used as it is. *)
ResolveKeyOrKeep ==
  /\ step = "secret"
  /\ secrets' = (route.key = "arn")
  /\ route' \in IF route.key = "arn" THEN {route, [route EXCEPT !.key = "secret"]}
                ELSE {route}
  /\ step' = "role"
  /\ UNCHANGED <<env, headers, identity>>

(* get_api_key_from_secrets_manager, for a key that starts as an ARN does: *)
(* a padded one does not.                                                  *)
ResolveKey ==
  /\ step = "secret"
  /\ IF route.key = "arn"
       THEN /\ secrets' = TRUE
            /\ \/ /\ route' = [route EXCEPT !.key = "secret"]
                  /\ step' = "role"
               \/ /\ UNCHANGED route
                  /\ step' = "failed"
       ELSE /\ UNCHANGED <<route, secrets>>
            /\ step' = "role"
  /\ UNCHANGED <<env, headers, identity>>

(* Variant: the client of the dead-letter queue assumes the role, too. *)
AssumedAll == [s \in Service |-> "role"]

(* AwsClients::new_assume_role: the queue stays with the Lambda's own role. *)
Assumed == [s \in Service |-> IF s = "sqs" THEN "lambda" ELSE "role"]

AssumeRole ==
  /\ step = "role"
  /\ IF env.TELEMETRY_MODE = "logs" /\ env.LAMBDA_ASSUME_ROLE
       THEN \/ /\ identity' = Assumed
               /\ step' = "build"
            \/ /\ UNCHANGED identity
               /\ step' = "failed"
       ELSE /\ UNCHANGED identity
            /\ step' = "build"
  /\ UNCHANGED <<env, route, headers, secrets>>

(* build_exporter: metrics have none, their key goes with each request.    *)
Build ==
  /\ step = "build"
  /\ step' \in {"running", "failed"}
  /\ UNCHANGED <<env, route, headers, identity, secrets>>

Next ==
  \/ LoadLogs \/ LoadMetrics \/ LoadTraces
  \/ ParseHeader \/ HeadersParsed
  \/ ResolveKey \/ AssumeRole \/ Build

Spec == Init /\ [][Next]_vars

-----------------------------------------------------------------------------
(* The key of Coralogix goes to Coralogix and to no collector, for which   *)
(* Secrets Manager is not even asked; headers of a collector, which may    *)
(* hold credentials, go to no other place (traces/mod.rs:392-412).         *)
CredentialsByRoute ==
  step = "running" =>
    IF route.to = "collector"
      THEN route.key = "unset" /\ ~ secrets
      ELSE route.key # "unset" /\ headers = <<>>

(* An ARN is never used in place of the key it names (main.rs:59-69,       *)
(* 81-91, 104-112): if Secrets Manager does not answer nothing runs.  What *)
(* runs with traces has a key or the secret; logs and metrics run with     *)
(* what they were given, be it blank, a padded key or even a padded ARN,   *)
(* which counts as a key (logs/config.rs:255, 273; metrics/config.rs:38).  *)
ArnIsNoKey ==
  step = "running" /\ route.to = "coralogix" =>
    \/ route.key \in {"key", "secret"}
    \/ /\ route.key \in {"blank", "padded key", "padded arn"}
       /\ env.TELEMETRY_MODE # "traces" /\ env.CORALOGIX_API_KEY = route.key

(* Headers that are sent have different names, whatever their case, and    *)
(* are all of those that are configured (config.rs:142).                   *)
HeadersDiffer ==
  /\ \A i, j \in DOMAIN headers : headers[i] = headers[j] => i = j
  /\ step = "running" /\ route.to = "collector" =>
       Len(headers) = Len(env.OTLP_HEADERS)

(* The dead-letter queue is used with the Lambda's own permissions         *)
(* (clients.rs:80), and data are read with those of the role if there is   *)
(* one: a role that cannot be assumed leaves nothing running.              *)
QueueIsOwn ==
  step = "running" =>
    /\ identity["sqs"] = "lambda"
    /\ env.TELEMETRY_MODE = "logs" =>
         identity["s3"] = IF env.LAMBDA_ASSUME_ROLE THEN "role" ELSE "lambda"

(* What runs has its own credentials and nobody else's.                    *)
StartIsSound == TypeOK /\ CredentialsByRoute /\ ArnIsNoKey /\ HeadersDiffer /\ QueueIsOwn
=============================================================================
