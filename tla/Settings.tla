------------------------------ MODULE Settings ------------------------------
(***************************************************************************)
(* How a setting gets its effective value: the environment, the YAML file, *)
(* cleanenv's env-default tags, loadConfig's own defaults, and after that  *)
(* normalizeKafkaConfig in the consumer and the pool defaults in the       *)
(* repository, which repeat them.  Callers share one Config through        *)
(* NewConfig, while the file may change under them.                        *)
(*                                                                         *)
(* Settings are numbers.  A topic is a number too, 0 when it is empty, and *)
(* its name with the DLQ suffix is a hundred more.                         *)
(***************************************************************************)
EXTENDS Integers

CONSTANTS Values,    \* numbers a file or the environment may hold
          Unset,     \* the setting does not occur
          Malformed, \* it is not a number: cleanenv fails
          Callers,   \* goroutines that call NewConfig
          NoConfig,  \* instance = nil
          MaxEdits   \* how often the file changes

ASSUME SettingsAssumption ==
  /\ Values \subseteq Int
  /\ Unset \notin Values /\ Malformed \notin Values /\ Malformed # Unset
  /\ -100 \notin Values  \* no topic becomes empty by its suffix
  /\ MaxEdits \in Nat

KafkaNames == {"ProcessTimeoutMs", "RetryBaseDelayMs", "RetryJitterMs", "MaxProcessRetries",
               "MetricsFlushSec", "ShutdownDrainTimeoutSec", "BatchSize", "BatchFlushIntervalSec"}
PoolNames == {"PoolMaxOpen", "PoolMaxIdle", "ConnMaxLifetimeMinutes"}
TopicNames == {"Topic", "DLQTopic"}
Names == KafkaNames \cup PoolNames \cup TopicNames \cup {"PoolMaxLegacy"}

VARIABLES env,      \* env[s]: what the environment says of setting s
          file,     \* file[s]: what config.yaml says
          edits,    \* how often the file has changed
          instance, \* the package's singleton
          got       \* got[c]: what NewConfig last returned to caller c

settings == <<env, file, edits, instance, got>>

Sayings == Values \cup {Unset, Malformed}

SettingsInit ==
  /\ env \in [Names -> Sayings]
  /\ file \in [Names -> Sayings]
  /\ edits = 0
  /\ instance = NoConfig
  /\ got = [c \in Callers |-> NoConfig]

----------------------------------------------------------------------------
(* The four tables of defaults. *)

(* env-default; a setting without a tag starts at zero. *)
TagDefault ==
  LET tags ==
        [ProcessTimeoutMs |-> 5000, RetryBaseDelayMs |-> 100, RetryJitterMs |-> 300,
         MaxProcessRetries |-> 3, MetricsFlushSec |-> 15, ShutdownDrainTimeoutSec |-> 60,
         BatchSize |-> 100, BatchFlushIntervalSec |-> 5]
  IN
  [s \in Names |-> IF s \in DOMAIN tags THEN tags[s] ELSE 0]

ConfigDefault ==
  [ProcessTimeoutMs |-> 5000, RetryBaseDelayMs |-> 100, RetryJitterMs |-> 300,
   MaxProcessRetries |-> 3, MetricsFlushSec |-> 15, ShutdownDrainTimeoutSec |-> 60,
   BatchSize |-> 100, BatchFlushIntervalSec |-> 5,
   PoolMaxOpen |-> 25, PoolMaxIdle |-> 5, ConnMaxLifetimeMinutes |-> 5]

(* Mistake: the batch size is changed in loadConfig and forgotten here. *)
ConsumerDefaultForgotten ==
  [s \in KafkaNames |-> IF s = "BatchSize" THEN 50 ELSE ConfigDefault[s]]

ConsumerDefault ==
  [ProcessTimeoutMs |-> 5000, RetryBaseDelayMs |-> 100, RetryJitterMs |-> 300,
   MaxProcessRetries |-> 3, MetricsFlushSec |-> 15, ShutdownDrainTimeoutSec |-> 60,
   BatchSize |-> 100, BatchFlushIntervalSec |-> 5]

PoolDefault == [PoolMaxOpen |-> 25, PoolMaxIdle |-> 5, ConnMaxLifetimeMinutes |-> 5]

----------------------------------------------------------------------------
(* No retries at all is a choice; everything else has to be positive. *)
Least(s) == IF s = "MaxProcessRetries" THEN 0 ELSE 1

AtLeast(s, v, default) == IF v < Least(s) THEN default ELSE v

DLQOf(topic) == IF topic = 0 THEN 0 ELSE topic + 100

(* Mistake: the file has the last word. *)
ReadFileLast(s) ==
  IF file[s] # Unset THEN file[s] ELSE IF env[s] # Unset THEN env[s] ELSE TagDefault[s]

(* External: cleanenv.  A variable that is set is taken as it is; a field    *)
(* the file left at zero, or set to zero, gets its tag's default.            *)
Read(s) ==
  IF env[s] # Unset THEN env[s]
  ELSE IF file[s] \in {Unset, 0} THEN TagDefault[s]
  ELSE file[s]

(* A malformed value, or a required setting in neither place, is an error. *)
ReadFails ==
  \/ \E s \in Names : Malformed \in {env[s], file[s]}
  \/ env["Topic"] = Unset /\ file["Topic"] \in {Unset, 0}

(* What cleanenv leaves in the Config. *)
AsRead == [s \in Names |-> Read(s)]

(* Mistake: loadConfig leaves the Kafka settings to their tags. *)
LoadTrustsTags ==
  LET read == AsRead IN
  [s \in Names |->
     CASE s \in PoolNames \ {"PoolMaxOpen"} -> AtLeast(s, read[s], ConfigDefault[s])
       [] s = "PoolMaxOpen" -> AtLeast(s, read[s], AtLeast(s, read["PoolMaxLegacy"], ConfigDefault[s]))
       [] s = "DLQTopic" -> IF read[s] = 0 THEN DLQOf(read["Topic"]) ELSE read[s]
       [] OTHER -> read[s]]

(* loadConfig, when it succeeds. *)
Load ==
  LET read == AsRead IN
  [s \in Names |->
     CASE s \in KafkaNames \cup (PoolNames \ {"PoolMaxOpen"}) -> AtLeast(s, read[s], ConfigDefault[s])
       [] s = "PoolMaxOpen" -> AtLeast(s, read[s], AtLeast(s, read["PoolMaxLegacy"], ConfigDefault[s]))
       [] s = "DLQTopic" -> IF read[s] = 0 THEN DLQOf(read["Topic"]) ELSE read[s]
       [] OTHER -> read[s]]

(* normalizeKafkaConfig, which NewConsumer and Start both apply. *)
Normalize(cfg) ==
  [s \in DOMAIN cfg |->
     CASE s \in KafkaNames -> AtLeast(s, cfg[s], ConsumerDefault[s])
       [] s = "DLQTopic" -> IF cfg[s] = 0 THEN DLQOf(cfg["Topic"]) ELSE cfg[s]
       [] OTHER -> cfg[s]]

(* What NewPostgresRepoWithPoolAndMetrics sets on its pool. *)
Pool(cfg) == [s \in PoolNames |-> AtLeast(s, cfg[s], PoolDefault[s])]

----------------------------------------------------------------------------
(* Somebody edits config.yaml. *)
Edit(s, v) ==
  /\ edits < MaxEdits
  /\ edits' = edits + 1
  /\ file' = [file EXCEPT ![s] = v]
  /\ UNCHANGED <<env, instance, got>>

(* Mistake: NewConfig loads the configuration for each caller. *)
NewConfigEachTime(c) ==
  /\ IF ReadFails
     THEN UNCHANGED <<instance, got>>
     ELSE instance' = Load /\ got' = [got EXCEPT ![c] = Load]
  /\ UNCHANGED <<env, file, edits>>

(* NewConfig under its mutex; an error is not remembered. *)
NewConfig(c) ==
  /\ \/ /\ instance # NoConfig
        /\ got' = [got EXCEPT ![c] = instance]
        /\ UNCHANGED instance
     \/ /\ instance = NoConfig /\ ~ReadFails
        /\ instance' = Load
        /\ got' = [got EXCEPT ![c] = instance']
     \/ /\ instance = NoConfig /\ ReadFails
        /\ UNCHANGED <<instance, got>>
  /\ UNCHANGED <<env, file, edits>>

SettingsNext ==
  \/ \E s \in Names, v \in Sayings : Edit(s, v)
  \/ \E c \in Callers : NewConfig(c)

SettingsSpec == SettingsInit /\ [][SettingsNext]_settings

----------------------------------------------------------------------------
(* Whatever file and environment say, every loaded setting is one the        *)
(* consumer and the pool can run with, and a topic has its DLQ.              *)
SettingsInRange ==
  instance # NoConfig =>
    /\ \A s \in KafkaNames \cup PoolNames : instance[s] >= Least(s)
    /\ instance["Topic"] # 0 => instance["DLQTopic"] # 0

(* The defaults are written down four times and agree: the consumer and the  *)
(* repository leave alone what loadConfig returns, they make the same of a   *)
(* configuration it has not seen, but for the legacy pool size they do not   *)
(* know, and a Kafka setting that is missing gets what an illegal one gets.  *)
DefaultsAgree ==
  ~ReadFails =>
    /\ Normalize(Load) = Load
    /\ \A s \in KafkaNames \cup TopicNames : Normalize(AsRead)[s] = Load[s]
    /\ \A s \in PoolNames :
         /\ Pool(Load)[s] = Load[s]
         /\ s # "PoolMaxOpen" \/ AsRead["PoolMaxLegacy"] <= 0 => Pool(AsRead)[s] = Load[s]
    /\ \A s \in KafkaNames :
         env[s] = Unset /\ file[s] = Unset => Load[s] = ConfigDefault[s]

(* README: environment variables override.  A legal value in the environment *)
(* is the effective one, for the pool size also against the legacy setting,  *)
(* and also where it is 0 and the file or a default says otherwise.          *)
EnvironmentOverrides ==
  instance # NoConfig =>
    \A s \in KafkaNames \cup PoolNames :
      env[s] \in Values /\ env[s] >= Least(s) => instance[s] = env[s]

(* Callers that got a configuration hold the same one, although the file     *)
(* has changed between their calls.                                          *)
OneConfigForAll == \A c \in Callers : got[c] \in {NoConfig, instance}
=============================================================================
