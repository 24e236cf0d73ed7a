-------------------------- MODULE FunctionsProofs --------------------------
(***************************************************************************)
(* Theorems about the components that share no state with another: the     *)
(* configuration, for any environment, any file, any edits of it and any   *)
(* number of callers, the delays of sleepBackoff, for any width of         *)
(* integers, base delay, jitter and limit, and the amounts, of any length  *)
(* and for any width of integers.                                          *)
(***************************************************************************)
EXTENDS Backoff, Settings, MoneyParse, FoldLemmas, FiniteSetTheorems, SequenceTheorems

----------------------------------------------------------------------------
(* Settings. *)

(* The settings with a least value. *)
Checked == KafkaNames \cup PoolNames

LEMMA TagsAreNumbers == TagDefault \in [Names -> Int] /\ TagDefault["Topic"] = 0
BY DEF TagDefault, Names, KafkaNames, PoolNames, TopicNames

(* The tables agree where they overlap, and no default is out of range. *)
LEMMA DefaultsInRange ==
  /\ \A s \in KafkaNames : ConfigDefault[s] = ConsumerDefault[s]
  /\ \A s \in PoolNames : ConfigDefault[s] = PoolDefault[s]
  /\ \A s \in Checked : ConfigDefault[s] \in Int /\ ConfigDefault[s] >= Least(s)
BY DEF Checked, KafkaNames, PoolNames, ConfigDefault, ConsumerDefault, PoolDefault, Least

(* A value that may be taken is taken, another gives way to the default. *)
LEMMA AtLeastChooses ==
  ASSUME NEW s, NEW v \in Int, NEW d \in Int, d >= Least(s)
  PROVE  /\ AtLeast(s, v, d) \in Int /\ AtLeast(s, v, d) >= Least(s)
         /\ v >= Least(s) => AtLeast(s, v, d) = v
<1>1. Least(s) \in Int
  BY DEF Least
<1> QED BY <1>1 DEF AtLeast

----------------------------------------------------------------------------
(* What every loaded configuration is like. *)
Sound(cfg) ==
  /\ cfg \in [Names -> Int]
  /\ \A s \in Checked : cfg[s] >= Least(s)
  /\ cfg["Topic"] # 0 => cfg["DLQTopic"] # 0
  /\ \A s \in Checked : env[s] \in Values /\ env[s] >= Least(s) => cfg[s] = env[s]

SettingsInv ==
  /\ env \in [Names -> Sayings] /\ file \in [Names -> Sayings]
  /\ instance = NoConfig \/ Sound(instance)
  /\ got \in [Callers -> {NoConfig, instance}]

LEMMA NamesKnown ==
  /\ Checked \subseteq Names /\ {"Topic", "DLQTopic", "PoolMaxLegacy"} \subseteq Names
  /\ "PoolMaxOpen" \in PoolNames
  /\ {"Topic", "DLQTopic", "PoolMaxLegacy"} \cap Checked = {}
BY DEF Checked, Names, KafkaNames, PoolNames, TopicNames

LEMMA ReadsNumbers ==
  ASSUME SettingsInv, ~ReadFails, NEW s \in Names
  PROVE  /\ Read(s) \in Int
         /\ env[s] \in Values => Read(s) = env[s]
         /\ Read("Topic") # -100
<1>1. \A n \in Names :
        env[n] \in Values \cup {Unset} /\ file[n] \in Values \cup {Unset}
  BY DEF SettingsInv, ReadFails, Sayings
<1>2. \A n \in Names : Read(n) \in Values \cup {TagDefault[n]}
  BY <1>1 DEF Read
<1>3. \A n \in Names : Read(n) \in Int /\ (env[n] \in Values => Read(n) = env[n])
  BY <1>2, TagsAreNumbers, SettingsAssumption DEF Read
<1>4. Read("Topic") # -100
  BY <1>2, TagsAreNumbers, NamesKnown, SettingsAssumption
<1> QED BY <1>3, <1>4

LEMMA LoadIsSound ==
  ASSUME SettingsInv, ~ReadFails
  PROVE  Sound(Load)
<1> DEFINE read == AsRead
<1>1. /\ read \in [Names -> Int]
      /\ \A s \in Names : env[s] \in Values => read[s] = env[s]
      /\ read["Topic"] # -100
  BY ReadsNumbers, NamesKnown DEF AsRead
<1>2. ASSUME NEW s \in Checked
      PROVE  \E d \in Int : d >= Least(s) /\ Load[s] = AtLeast(s, read[s], d)
  <2>1. ConfigDefault[s] \in Int /\ ConfigDefault[s] >= Least(s)
    BY DefaultsInRange
  <2>2. CASE s # "PoolMaxOpen"
    <3>1. Load[s] = AtLeast(s, read[s], ConfigDefault[s])
      BY <2>2, NamesKnown DEF Load, Checked
    <3> QED BY <2>1, <3>1
  <2>3. CASE s = "PoolMaxOpen"
    <3> DEFINE d == AtLeast(s, read["PoolMaxLegacy"], ConfigDefault[s])
    <3>1. Load[s] = AtLeast(s, read[s], d)
      BY <2>3, NamesKnown DEF Load, Checked, KafkaNames, PoolNames
    <3>2. d \in Int /\ d >= Least(s)
      BY <1>1, <2>1, NamesKnown, AtLeastChooses
    <3> QED BY <3>1, <3>2
  <2> QED BY <2>2, <2>3
<1>3. \A s \in Checked :
        /\ Load[s] \in Int /\ Load[s] >= Least(s)
        /\ read[s] >= Least(s) => Load[s] = read[s]
  BY <1>1, <1>2, NamesKnown, AtLeastChooses
<1>4. /\ Load["Topic"] = read["Topic"] /\ Load["PoolMaxLegacy"] = read["PoolMaxLegacy"]
      /\ Load["DLQTopic"] = IF read["DLQTopic"] = 0 THEN DLQOf(read["Topic"]) ELSE read["DLQTopic"]
  BY NamesKnown DEF Load, Checked
<1>5. Load["DLQTopic"] \in Int /\ (Load["Topic"] # 0 => Load["DLQTopic"] # 0)
  BY <1>1, <1>4, NamesKnown DEF DLQOf
<1>6. Load \in [Names -> Int]
  <2>1. \A s \in Names : Load[s] \in Int
    BY <1>1, <1>3, <1>4, <1>5, NamesKnown DEF Names, Checked, TopicNames
  <2> QED BY <2>1 DEF Load
<1>7. \A s \in Checked : env[s] \in Values /\ env[s] >= Least(s) => Load[s] = env[s]
  BY <1>1, <1>3, NamesKnown
<1> QED BY <1>3, <1>5, <1>6, <1>7 DEF Sound

----------------------------------------------------------------------------
LEMMA NewConfigKeeps ==
  ASSUME SettingsInv, NEW c \in Callers, NewConfig(c)
  PROVE  SettingsInv'
<1>1. env' = env /\ file' = file
  BY DEF NewConfig
<1>2. CASE instance # NoConfig
  BY <1>1, <1>2 DEF NewConfig, SettingsInv, Sound
<1>3. CASE instance = NoConfig /\ ReadFails
  BY <1>1, <1>3 DEF NewConfig, SettingsInv, Sound
<1>4. CASE instance = NoConfig /\ ~ReadFails
  <2>1. instance' = Load /\ Sound(Load)
    BY <1>4, LoadIsSound DEF NewConfig
  <2>2. got' \in [Callers -> {NoConfig, instance'}]
    BY <1>4, <2>1 DEF NewConfig, SettingsInv
  <2> QED BY <1>1, <2>1, <2>2 DEF SettingsInv, Sound
<1> QED BY <1>2, <1>3, <1>4

(* Every configuration callers see is sound and the same for all of them,    *)
(* for any environment, file and edits.                                      *)
THEOREM SettingsInvariance == SettingsSpec => []SettingsInv
<1>1. SettingsInit => SettingsInv
  BY DEF SettingsInit, SettingsInv
<1>2. ASSUME SettingsInv, NEW s \in Names, NEW v \in Sayings, Edit(s, v)
      PROVE  SettingsInv'
  BY <1>2 DEF Edit, SettingsInv, Sound
<1>3. SettingsInv /\ UNCHANGED settings => SettingsInv'
  BY DEF settings, SettingsInv, Sound
<1>4. SettingsInv /\ [SettingsNext]_settings => SettingsInv'
  BY <1>2, <1>3, NewConfigKeeps DEF SettingsNext
<1> QED BY <1>1, <1>4, PTL DEF SettingsSpec

(* Consumer and pool can run with every loaded setting. *)
THEOREM SettingsInRangeHolds == SettingsSpec => []SettingsInRange
<1>1. SettingsInv => SettingsInRange
  BY DEF SettingsInv, Sound, SettingsInRange, Checked
<1> QED BY <1>1, SettingsInvariance, PTL

(* A missing Kafka setting has its default from its tag already. *)
LEMMA TagsAgree == \A s \in KafkaNames : TagDefault[s] = ConfigDefault[s]
BY DEF TagDefault, Names, KafkaNames, ConfigDefault

(* A sound configuration passes consumer and repository unchanged.           *)
LEMMA SoundStays ==
  ASSUME NEW cfg, Sound(cfg)
  PROVE  Normalize(cfg) = cfg /\ \A s \in PoolNames : Pool(cfg)[s] = cfg[s]
<1>1. \A s \in Checked : \A d \in Int : AtLeast(s, cfg[s], d) = cfg[s]
  BY NamesKnown DEF Sound, AtLeast, Least
<1>2. \A s \in KafkaNames : AtLeast(s, cfg[s], ConsumerDefault[s]) = cfg[s]
  BY <1>1, DefaultsInRange DEF Checked
<1>3. \A s \in PoolNames : AtLeast(s, cfg[s], PoolDefault[s]) = cfg[s]
  BY <1>1, DefaultsInRange DEF Checked
<1>4. cfg["DLQTopic"] = 0 => DLQOf(cfg["Topic"]) = cfg["DLQTopic"]
  BY DEF Sound, DLQOf
<1>5. cfg = [s \in Names |-> cfg[s]] /\ DOMAIN cfg = Names
  BY DEF Sound
<1>6. Normalize(cfg) = [s \in Names |-> cfg[s]]
  BY <1>2, <1>4, <1>5 DEF Normalize
<1> QED BY <1>3, <1>5, <1>6 DEF Pool

(* Of what cleanenv left consumer and repository make what loadConfig makes. *)
LEMMA ReadAlike ==
  ASSUME SettingsInv, ~ReadFails
  PROVE
  /\ \A s \in KafkaNames \cup TopicNames : Normalize(AsRead)[s] = Load[s]
  /\ \A s \in PoolNames :
       s # "PoolMaxOpen" \/ AsRead["PoolMaxLegacy"] <= 0 => Pool(AsRead)[s] = Load[s]
  /\ \A s \in KafkaNames : env[s] = Unset /\ file[s] = Unset => Load[s] = ConfigDefault[s]
<1> DEFINE read == AsRead
<1>1. DOMAIN read = Names /\ \A s \in Names : read[s] = Read(s)
  BY DEF AsRead
<1>2. ASSUME NEW s \in Checked, s # "PoolMaxOpen"
      PROVE  Load[s] = AtLeast(s, read[s], ConfigDefault[s])
  BY <1>2, NamesKnown DEF Load, Checked
<1>3. ASSUME NEW s \in KafkaNames
      PROVE  /\ s \in Checked /\ s # "PoolMaxOpen"
             /\ Normalize(read)[s] = AtLeast(s, read[s], ConsumerDefault[s])
  <2>1. s \in Checked /\ s \in DOMAIN read
    BY <1>1, NamesKnown DEF Checked
  <2>2. s # "PoolMaxOpen" /\ s # "DLQTopic"
    BY DEF KafkaNames
  <2>3. Normalize(read)[s] = AtLeast(s, read[s], ConsumerDefault[s])
    BY <2>1, <2>2 DEF Normalize
  <2> QED BY <2>1, <2>2, <2>3
<1>4. /\ Load["Topic"] = read["Topic"] /\ Normalize(read)["Topic"] = read["Topic"]
      /\ Load["DLQTopic"] = Normalize(read)["DLQTopic"]
  BY <1>1, NamesKnown DEF Load, Normalize, Checked
<1>5. \A s \in KafkaNames \cup TopicNames : Normalize(read)[s] = Load[s]
  BY <1>2, <1>3, <1>4, DefaultsInRange DEF TopicNames
<1>6. ASSUME NEW s \in PoolNames, s # "PoolMaxOpen" \/ read["PoolMaxLegacy"] <= 0
      PROVE  Pool(read)[s] = Load[s]
  <2>1. Pool(read)[s] = AtLeast(s, read[s], ConfigDefault[s])
    BY DefaultsInRange DEF Pool
  <2>2. CASE s # "PoolMaxOpen"
    BY <1>2, <2>1, <2>2 DEF Checked
  <2>3. CASE s = "PoolMaxOpen"
    <3>1. AtLeast(s, read["PoolMaxLegacy"], ConfigDefault[s]) = ConfigDefault[s]
      <4>1. read["PoolMaxLegacy"] \in Int /\ ~(read["PoolMaxLegacy"] >= Least(s))
        BY <1>1, <1>6, <2>3, ReadsNumbers, NamesKnown DEF Least
      <4>2. Least(s) \in Int
        BY DEF Least
      <4> QED BY <4>1, <4>2 DEF AtLeast
    <3>2. Load[s] = AtLeast(s, read[s], AtLeast(s, read["PoolMaxLegacy"], ConfigDefault[s]))
      BY <2>3, NamesKnown DEF Load, Checked, KafkaNames, PoolNames
    <3> QED BY <2>1, <3>1, <3>2
  <2> QED BY <2>2, <2>3
<1>7. ASSUME NEW s \in KafkaNames, env[s] = Unset, file[s] = Unset
      PROVE  Load[s] = ConfigDefault[s]
  <2>1. read[s] = ConfigDefault[s]
    BY <1>1, <1>7, TagsAgree DEF Read, Names
  <2> QED BY <1>2, <1>3, <2>1 DEF AtLeast
<1> QED BY <1>5, <1>6, <1>7

(* Whatever environment and file say, loadConfig, the consumer and the       *)
(* repository fall back on the same values in the same cases.                *)
THEOREM DefaultsAgreeHolds == SettingsSpec => []DefaultsAgree
<1>1. SettingsInv => DefaultsAgree
  BY LoadIsSound, SoundStays, ReadAlike DEF DefaultsAgree
<1> QED BY <1>1, SettingsInvariance, PTL

(* A legal value in the environment is the effective one. *)
THEOREM EnvironmentOverridesHolds == SettingsSpec => []EnvironmentOverrides
<1>1. SettingsInv => EnvironmentOverrides
  BY DEF SettingsInv, Sound, EnvironmentOverrides, Checked
<1> QED BY <1>1, SettingsInvariance, PTL

(* However the file changes between their calls, callers hold one Config. *)
THEOREM OneConfigForAllHolds == SettingsSpec => []OneConfigForAll
<1>1. SettingsInv => OneConfigForAll
  BY DEF SettingsInv, OneConfigForAll
<1> QED BY <1>1, SettingsInvariance, PTL

----------------------------------------------------------------------------
(* Backoff. *)

(* The provers know nothing of powers, but a set of n elements has 2^n       *)
(* subsets, one at least.                                                    *)
LEMMA PowersPositive ==
  ASSUME NEW n \in Nat
  PROVE  2^n \in Nat \ {0}
<1>1. IsFiniteSet(1..n) /\ Cardinality(1..n) = n
  BY FS_Interval
<1>2. IsFiniteSet(SUBSET (1..n)) /\ Cardinality(SUBSET (1..n)) = 2^n
  BY <1>1, FS_SUBSET
<1>3. SUBSET (1..n) # {}
  OBVIOUS
<1> QED BY <1>2, <1>3, FS_CardinalityType, FS_EmptySet

LEMMA WrapsToInt ==
  ASSUME NEW n \in Int
  PROVE  /\ Wrap(n) \in MinInt .. MaxInt
         /\ n \in MinInt .. MaxInt => Wrap(n) = n
<1> DEFINE m == 2 * (MaxInt + 1)
           k == n - MinInt
<1>1. MaxInt \in Nat /\ m \in Nat \ {0} /\ k \in Int /\ m = MaxInt - MinInt + 1 /\ MinInt \in Int
  BY Int64Assumption DEF MinInt
<1>2. k % m \in 0 .. (m - 1) /\ (k \in 0 .. (m - 1) => k % m = k)
  BY <1>1
<1>3. Wrap(n) = (k % m) + MinInt
  BY DEF Wrap
<1> HIDE DEF m
<1> QED BY <1>1, <1>2, <1>3

(* What is never exceeded, overflow or not. *)
LEMMA CapsDelay ==
  ASSUME RetryJitterMs \in JitterSettings, NEW n \in Nat, NEW d \in Delays(n)
  PROVE  d \in Int /\ d <= MaxRetryDelay
<1>1. PICK b \in ToDuration(RetryBaseDelayMs * 2^n), j \in Jitter :
        d = CapDelay(Wrap(Wrap(b * Millisecond) + j))
  BY DEF Delays
<1>2. MaxInt \in Nat /\ MinInt \in Int /\ MaxRetryDelay \in Int /\ Millisecond \in Int
  BY Int64Assumption, BackoffAssumption DEF MinInt
<1>3. RetryBaseDelayMs * 2^n \in Int
  BY BackoffAssumption
<1>4. b \in Int /\ j \in Int
  BY <1>2, <1>3 DEF ToDuration, Jitter
<1>5. Wrap(b * Millisecond) \in Int
  BY <1>2, <1>4, WrapsToInt
<1>6. Wrap(Wrap(b * Millisecond) + j) \in Int
  BY <1>2, <1>4, <1>5, WrapsToInt
<1> QED BY <1>1, <1>2, <1>6 DEF CapDelay

(* As long as the sum fits an int64 nothing wraps around. *)
LEMMA FittingDelay ==
  ASSUME RetryJitterMs \in JitterSettings, NEW n \in Nat, Fits(n), NEW d \in Delays(n)
  PROVE  d >= CapDelay(Doubled(n)) /\ d < Doubled(n) + RetryJitterMs * Millisecond
<1> DEFINE x == RetryBaseDelayMs * 2^n
           D == x * Millisecond
           J == RetryJitterMs * Millisecond
<1>1. /\ MaxInt \in Nat /\ MinInt \in Int /\ MinInt < 0
      /\ Millisecond \in Nat \ {0} /\ MaxRetryDelay \in Int
  BY Int64Assumption, BackoffAssumption DEF MinInt
<1>2. x \in Nat
  BY BackoffAssumption, PowersPositive
<1>3. J \in Nat /\ J > 0
  BY BackoffAssumption
<1>4. D \in Nat /\ x <= D
  BY <1>1, <1>2
<1>5. Doubled(n) = D /\ D + J <= MaxInt
  BY DEF Doubled, Fits
<1>6. ToDuration(x) = {x}
  BY <1>1, <1>2, <1>3, <1>4, <1>5 DEF ToDuration
<1>7. PICK j \in 0 .. (J - 1) : d = CapDelay(Wrap(Wrap(D) + j))
  <2>1. J \in MinInt .. MaxInt
    BY <1>1, <1>3, <1>4, <1>5
  <2>2. JitterBound = J
    BY <1>3, <2>1, WrapsToInt DEF JitterBound
  <2> QED BY <1>6, <2>2 DEF Delays, Jitter
<1> HIDE DEF x, D, J
<1>8. Wrap(D) = D
  BY <1>1, <1>3, <1>4, <1>5, WrapsToInt
<1>9. Wrap(D + j) = D + j
  BY <1>1, <1>3, <1>4, <1>5, WrapsToInt
<1>10. d = CapDelay(D + j)
  BY <1>7, <1>8, <1>9
<1>11. d >= CapDelay(D) /\ d < D + J
  BY <1>1, <1>3, <1>4, <1>10 DEF CapDelay
<1> QED BY <1>5, <1>11 DEF J

(* Before attempt n is repeated a worker waits the base delay doubled n      *)
(* times and at most one jitter more, never more than MaxRetryDelay; where   *)
(* the doubled delay overflows only the limit is left.                       *)
THEOREM DelaysGrowHolds == BackoffSpec => []DelaysGrow
<1> DEFINE Typed == /\ RetryJitterMs \in JitterSettings
                    /\ attempt \in [Sleepers -> Nat] /\ DOMAIN delay = Sleepers
           BInv == Typed /\ DelaysGrow
<1>1. BackoffInit => BInv
  BY DEF BackoffInit, DelaysGrow
<1>2. ASSUME BInv, NEW w \in Sleepers, Retry(w)
      PROVE  BInv'
  <2>1. PICK d \in Delays(attempt[w]) : delay' = [delay EXCEPT ![w] = d]
    BY <1>2 DEF Retry
  <2>2. /\ attempt[w] \in Nat /\ attempt' = [attempt EXCEPT ![w] = attempt[w] + 1]
        /\ RetryJitterMs' = RetryJitterMs /\ panicked' = panicked
    BY <1>2 DEF Retry
  <2>3. /\ d <= MaxRetryDelay
        /\ Fits(attempt[w]) => /\ d >= CapDelay(Doubled(attempt[w]))
                               /\ d < Doubled(attempt[w]) + RetryJitterMs * Millisecond
    BY <1>2, <2>2, CapsDelay, FittingDelay
  <2>4. attempt'[w] - 1 = attempt[w] /\ delay'[w] = d
    BY <1>2, <2>1, <2>2
  <2>5. \A v \in Sleepers \ {w} : attempt'[v] = attempt[v] /\ delay'[v] = delay[v]
    BY <1>2, <2>1, <2>2
  <2>6. Typed'
    BY <1>2, <2>1, <2>2
  <2>7. \A n : Fits(n)' = Fits(n)
    BY <2>2 DEF Fits, Doubled
  <2> QED BY <1>2, <2>2, <2>3, <2>4, <2>5, <2>6, <2>7 DEF DelaysGrow
<1>3. ASSUME BInv, NEW w \in Sleepers, Panic(w)
      PROVE  BInv'
  <2>1. RetryJitterMs' = RetryJitterMs /\ attempt' = attempt /\ delay' = delay
    BY <1>3 DEF Panic
  <2>2. RetryJitterMs * Millisecond > MaxInt
    <3>1. RetryJitterMs * Millisecond \in Nat \ {0} /\ MaxInt \in Nat /\ MinInt < 0 /\ MinInt \in Int
      BY <1>3, Int64Assumption, BackoffAssumption DEF MinInt
    <3>2. Wrap(RetryJitterMs * Millisecond) <= 0
      BY <1>3 DEF Panic, JitterBound
    <3> QED BY <3>1, <3>2, WrapsToInt
  <2> QED BY <1>3, <2>1, <2>2 DEF DelaysGrow, Fits, Doubled
<1>4. ASSUME BInv, NEW w \in Sleepers, Over(w)
      PROVE  BInv'
  <2>1. /\ RetryJitterMs' = RetryJitterMs /\ panicked' = panicked
        /\ attempt' = [attempt EXCEPT ![w] = 0] /\ delay' = [delay EXCEPT ![w] = 0]
    BY <1>4 DEF Over
  <2>2. \A n : Fits(n)' = Fits(n)
    BY <2>1 DEF Fits, Doubled
  <2>3. Typed' /\ attempt'[w] = 0
    BY <1>4, <2>1
  <2>4. \A v \in Sleepers \ {w} : attempt'[v] = attempt[v] /\ delay'[v] = delay[v]
    BY <1>4, <2>1
  <2> QED BY <1>4, <2>1, <2>2, <2>3, <2>4 DEF DelaysGrow
<1>5. BInv /\ UNCHANGED backoff => BInv'
  BY DEF backoff, DelaysGrow, Fits, Doubled
<1>6. BInv /\ [BackoffNext]_backoff => BInv'
  BY <1>2, <1>3, <1>4, <1>5 DEF BackoffNext
<1> QED BY <1>1, <1>6, PTL DEF BackoffSpec

----------------------------------------------------------------------------
(* Amounts. *)

LEMMA DigitRange ==
  ASSUME NEW d \in Digits
  PROVE  DigitValue(d) \in 0 .. 9
<1>1. DOMAIN Numerals = 1 .. 10
  BY DEF Numerals
<1>2. \E k \in DOMAIN Numerals : Numerals[k] = d
  <2>1. d \in {"0", "1", "2", "3", "4", "5", "6", "7", "8", "9"}
    BY MoneyAssumption
  <2> QED BY <1>1, <2>1 DEF Numerals
<1>3. (CHOOSE k \in DOMAIN Numerals : Numerals[k] = d) \in DOMAIN Numerals
  BY <1>2
<1> QED BY <1>1, <1>3 DEF DigitValue

LEMMA ZeroIsNothing == "0" \in Digits /\ DigitValue("0") = 0
<1>1. \A k \in 1 .. 10 : Numerals[k] = "0" <=> k = 1
  BY DEF Numerals
<1>2. DOMAIN Numerals = 1 .. 10
  BY DEF Numerals
<1>3. (CHOOSE k \in DOMAIN Numerals : Numerals[k] = "0") = 1
  BY <1>1, <1>2
<1> QED BY <1>3, MoneyAssumption DEF DigitValue

(* What digits spell is built up from the first to the last. *)
LEMMA SpelledUnfolds ==
  ASSUME NEW s \in Seq(Digits)
  PROVE  \E f : /\ f[0] = 0 /\ Spelled(s) = f[Len(s)]
                /\ \A k \in 1..Len(s) : f[k] = WithDigit(f[k - 1], s[k])
<1> DEFINE n == Len(s)
           g == [t \in Nat \X Int |-> IF t[1] \in 1..n THEN WithDigit(t[2], s[t[1]]) ELSE t[2]]
           Unfolded(h) ==
             h = [d \in SUBSET (1..n) |-> IF d = {} THEN 0 ELSE WithDigit(h[d \ {Max(d)}], s[Max(d)])]
           iter == CHOOSE h : Unfolded(h)
<1>1. n \in Nat /\ DOMAIN s = 1..n
  OBVIOUS
<1>2. Spelled(s) = iter[1..n]
  BY <1>1 DEF Spelled, FoldLeft, MapThenFoldSet
<1>3. \E h : Unfolded(h)
  <2>1. g \in [Nat \X Int -> Int]
    <3>1. ASSUME NEW t \in Nat \X Int, t[1] \in 1..n PROVE WithDigit(t[2], s[t[1]]) \in Int
      <4>1. t[2] \in Int /\ s[t[1]] \in Digits
        BY <3>1
      <4> QED BY <4>1, DigitRange DEF WithDigit
    <3> QED BY <3>1
  <2>2. PICK h : Folds(h, n, Int, 0, g)
    <3>1. 0 \in Int
      OBVIOUS
    <3> HIDE DEF g, n
    <3> QED BY <1>1, <2>1, <3>1, FoldDefined, Zenon
  <2>3. ASSUME NEW d \in SUBSET (1..n), d # {}
        PROVE  h[d] = WithDigit(h[d \ {Max(d)}], s[Max(d)])
    <3> DEFINE m == Max(d)
               r == d \ {m}
    <3>1. m \in 1..n /\ r \in SUBSET (1..n) /\ h[d] = g[<<m, h[r]>>]
      <4> HIDE DEF g
      <4> QED BY <2>2, <2>3 DEF Folds
    <3>2. h[r] \in Int
      BY <2>2, <3>1 DEF Folds
    <3> HIDE DEF m, r
    <3>3. g[<<m, h[r]>>] = WithDigit(h[r], s[m])
      BY <1>1, <3>1, <3>2
    <3>4. h[d] = WithDigit(h[r], s[m])
      BY <3>1, <3>3
    <3> QED BY <3>4 DEF m, r
  <2>4. Unfolded(h)
    BY <2>2, <2>3 DEF Folds
  <2> HIDE DEF Unfolded
  <2> QED BY <2>4
<1>4. Unfolded(iter)
  <2> HIDE DEF Unfolded
  <2> QED BY <1>3
<1>5. iter[{}] = 0
  BY <1>4
<1>6. ASSUME NEW k \in 1..n
      PROVE  iter[1..k] = WithDigit(iter[1..(k - 1)], s[k])
  <2>1. /\ 1..k # {} /\ 1..k \in SUBSET (1..n)
        /\ Max(1..k) = k /\ (1..k) \ {k} = 1..(k - 1)
    BY <1>1, FoldStep
  <2> DEFINE d == 1..k
             e == 1..(k - 1)
  <2>2. d # {} /\ d \in SUBSET (1..n) /\ Max(d) = k /\ d \ {k} = e
    BY <2>1
  <2>3. iter[d] = WithDigit(iter[e], s[k])
    <3> HIDE DEF iter, n, d, e
    <3> QED BY <1>4, <2>2
  <2> QED BY <2>3
<1> DEFINE f == [k \in 0..n |-> iter[1..k]]
<1>7. f[0] = 0 /\ Spelled(s) = f[n] /\ \A k \in 1..n : f[k] = WithDigit(f[k - 1], s[k])
  <2>1. 1..0 = {}
    OBVIOUS
  <2>2. \A k \in 0..n : f[k] = iter[1..k]
    OBVIOUS
  <2> HIDE DEF iter, f
  <2>3. f[0] = 0
    BY <1>1, <1>5, <2>1, <2>2
  <2>4. f[n] = Spelled(s)
    BY <1>1, <1>2, <2>2
  <2>5. ASSUME NEW k \in 1..n PROVE f[k] = WithDigit(f[k - 1], s[k])
    <3>1. k \in 0..n /\ k - 1 \in 0..n
      BY <1>1
    <3> HIDE DEF n
    <3> QED BY <1>6, <2>2, <3>1
  <2> QED BY <2>3, <2>4, <2>5
<1> HIDE DEF f
<1> QED BY <1>7

(* A further digit counts units, and what was there ten times itself. *)
LEMMA SpelledAppend ==
  ASSUME NEW s \in Seq(Digits), NEW d \in Digits
  PROVE  Spelled(s) \in Nat /\ Spelled(Append(s, d)) = 10 * Spelled(s) + DigitValue(d)
<1> DEFINE n == Len(s)
           t == Append(s, d)
<1>1. /\ n \in Nat /\ t \in Seq(Digits) /\ Len(t) = n + 1 /\ t[n + 1] = d
      /\ \A k \in 1..n : t[k] = s[k] /\ s[k] \in Digits
  OBVIOUS
<1>2. PICK f : /\ f[0] = 0 /\ Spelled(s) = f[n]
               /\ \A k \in 1..n : f[k] = WithDigit(f[k - 1], s[k])
  BY SpelledUnfolds
<1> HIDE DEF t
<1>3. PICK g : /\ g[0] = 0 /\ Spelled(t) = g[n + 1]
               /\ \A k \in 1..(n + 1) : g[k] = WithDigit(g[k - 1], t[k])
  BY <1>1, SpelledUnfolds
<1> HIDE DEF n
<1> DEFINE S == {k \in Nat : k <= n => f[k] \in Nat /\ g[k] = f[k]}
<1>4. 0 \in S
  BY <1>2, <1>3
<1>5. ASSUME NEW k \in Nat, k \in S
      PROVE  k + 1 \in S
  <2> SUFFICES ASSUME k + 1 <= n PROVE f[k + 1] \in Nat /\ g[k + 1] = f[k + 1]
    OBVIOUS
  <2>1. f[k] \in Nat /\ g[k] = f[k]
    BY <1>1, <1>5
  <2>2. k + 1 \in 1..n /\ k + 1 \in 1..(n + 1) /\ (k + 1) - 1 = k
    BY <1>1
  <2>3. f[k + 1] = WithDigit(f[k], s[k + 1]) /\ g[k + 1] = WithDigit(g[k], t[k + 1])
    BY <1>2, <1>3, <2>2
  <2>4. s[k + 1] \in Digits /\ t[k + 1] = s[k + 1]
    BY <1>1, <2>2
  <2>5. DigitValue(s[k + 1]) \in Nat
    BY <2>4, DigitRange
  <2> QED BY <2>1, <2>3, <2>4, <2>5 DEF WithDigit
<1>6. n \in S
  <2> HIDE DEF S
  <2> QED BY <1>1, <1>4, <1>5, Induction
<1>7. g[n + 1] = WithDigit(g[n], d)
  <2>1. n + 1 \in 1..(n + 1) /\ (n + 1) - 1 = n
    BY <1>1
  <2> QED BY <1>1, <1>3, <2>1
<1>8. Spelled(s) \in Nat /\ Spelled(t) = 10 * Spelled(s) + DigitValue(d)
  BY <1>2, <1>3, <1>6, <1>7 DEF WithDigit
<1> QED BY <1>8 DEF t

LEMMA SpelledEmpty == Spelled(<<>>) = 0
<1>1. <<>> \in Seq(Digits) /\ Len(<<>>) = 0
  BY EmptySeq
<1> QED BY <1>1, SpelledUnfolds

(* The decimals count hundredths, padded or appended. *)
LEMMA DecimalsCount ==
  ASSUME NEW whole \in Seq(Digits), NEW decimals \in Seq(Digits), Len(decimals) <= 2
  PROVE  /\ Spelled(whole) \in Nat
         /\ PadFraction(decimals) \in Seq(Digits) /\ PadFraction(decimals) # <<>>
         /\ Spelled(PadFraction(decimals)) \in 0 .. 99
         /\ <<100, 10, 1>>[Len(decimals) + 1] * Spelled(whole \o decimals)
              = 100 * Spelled(whole) + Spelled(PadFraction(decimals))
<1> DEFINE Pair(d, e) == Append(Append(<<>>, d), e)
           w == Spelled(whole)
<1>1. w \in Nat
  BY ZeroIsNothing, SpelledAppend
<1>2. ASSUME NEW d \in Digits, NEW e \in Digits
      PROVE  /\ Pair(d, e) \in Seq(Digits) /\ Pair(d, e) # <<>>
             /\ Spelled(Pair(d, e)) = 10 * DigitValue(d) + DigitValue(e)
             /\ DigitValue(d) \in 0 .. 9 /\ DigitValue(e) \in 0 .. 9
  <2>1. <<>> \in Seq(Digits) /\ Append(<<>>, d) \in Seq(Digits)
    OBVIOUS
  <2>2. Spelled(Append(<<>>, d)) = 10 * 0 + DigitValue(d)
    BY <2>1, SpelledAppend, SpelledEmpty
  <2>3. Spelled(Pair(d, e)) = 10 * Spelled(Append(<<>>, d)) + DigitValue(e)
    BY <2>1, SpelledAppend
  <2>4. DigitValue(d) \in 0 .. 9 /\ DigitValue(e) \in 0 .. 9
    BY DigitRange
  <2>5. Pair(d, e) \in Seq(Digits) /\ Pair(d, e) # <<>>
    BY <2>1
  <2> HIDE DEF Pair
  <2> QED BY <2>2, <2>3, <2>4, <2>5
<1>3. CASE Len(decimals) = 0
  <2>1. decimals = <<>> /\ whole \o decimals = whole
    BY <1>3, ConcatEmptySeq
  <2>2. PadFraction(decimals) = Pair("0", "0")
    BY <1>3 DEF PadFraction
  <2>3. Pair("0", "0") \in Seq(Digits) /\ Pair("0", "0") # <<>> /\ Spelled(Pair("0", "0")) = 0
    <3> HIDE DEF Pair
    <3> QED BY <1>2, ZeroIsNothing
  <2> HIDE DEF Pair, w
  <2>4. <<100, 10, 1>>[Len(decimals) + 1] = 100
    BY <1>3
  <2> QED BY <1>1, <2>1, <2>2, <2>3, <2>4 DEF w
<1>4. CASE Len(decimals) = 1
  <2>1. PICK d \in Digits : decimals = <<d>>
    <3>1. decimals[1] \in Digits
      BY <1>4
    <3>2. decimals = <<decimals[1]>>
      BY <1>4
    <3> QED BY <3>1, <3>2
  <2>2. whole \o decimals = Append(whole, d)
    BY <2>1
  <2>3. PadFraction(decimals) = Pair(d, "0")
    BY <1>4, <2>1 DEF PadFraction
  <2>4. Spelled(Append(whole, d)) = 10 * w + DigitValue(d)
    BY SpelledAppend
  <2>5. <<100, 10, 1>>[Len(decimals) + 1] = 10
    BY <1>4
  <2> HIDE DEF Pair, w
  <2>6. /\ Pair(d, "0") \in Seq(Digits) /\ Pair(d, "0") # <<>>
        /\ Spelled(Pair(d, "0")) = 10 * DigitValue(d) + DigitValue("0")
        /\ DigitValue(d) \in 0 .. 9 /\ DigitValue("0") = 0
    BY <1>2, ZeroIsNothing
  <2> DEFINE v == DigitValue(d)
             x == Spelled(Pair(d, "0"))
             y == Spelled(whole \o decimals)
  <2>7. v \in 0 .. 9 /\ x = 10 * v + 0 /\ y = 10 * w + v
    BY <2>2, <2>4, <2>6
  <2> HIDE DEF v, x, y
  <2>8. x \in 0 .. 99 /\ 10 * y = 100 * w + x
    <3>1. w \in Nat
      BY <1>1
    <3> QED BY <2>7, <3>1
  <2> QED BY <1>1, <2>3, <2>5, <2>6, <2>8 DEF w, x, y
<1>5. CASE Len(decimals) = 2
  <2>1. PICK d \in Digits, e \in Digits : decimals = <<d, e>>
    <3>1. decimals[1] \in Digits /\ decimals[2] \in Digits
      BY <1>5
    <3>2. decimals = <<decimals[1], decimals[2]>>
      BY <1>5
    <3> QED BY <3>1, <3>2
  <2>2. whole \o decimals = Append(Append(whole, d), e) /\ Append(whole, d) \in Seq(Digits)
    BY <2>1
  <2>3. PadFraction(decimals) = Pair(d, e)
    BY <1>5, <2>1 DEF PadFraction
  <2>4. /\ Spelled(Append(whole, d)) = 10 * w + DigitValue(d)
        /\ Spelled(Append(Append(whole, d), e)) = 10 * Spelled(Append(whole, d)) + DigitValue(e)
    BY <2>2, SpelledAppend
  <2>5. <<100, 10, 1>>[Len(decimals) + 1] = 1
    BY <1>5
  <2> HIDE DEF Pair, w
  <2>6. /\ Pair(d, e) \in Seq(Digits) /\ Pair(d, e) # <<>>
        /\ Spelled(Pair(d, e)) = 10 * DigitValue(d) + DigitValue(e)
        /\ DigitValue(d) \in 0 .. 9 /\ DigitValue(e) \in 0 .. 9
    BY <1>2
  <2> DEFINE v == DigitValue(d)
             u == DigitValue(e)
             x == Spelled(Pair(d, e))
             y == Spelled(whole \o decimals)
  <2>7. v \in 0 .. 9 /\ u \in 0 .. 9 /\ x = 10 * v + u /\ y = 10 * (10 * w + v) + u
    BY <2>2, <2>4, <2>6
  <2> HIDE DEF v, u, x, y
  <2>8. x \in 0 .. 99 /\ 1 * y = 100 * w + x
    BY <1>1, <2>7
  <2> QED BY <1>1, <2>3, <2>5, <2>6, <2>8 DEF w, x, y
<1>6. Len(decimals) \in 0 .. 2
  <2> DEFINE n == Len(decimals)
  <2>1. n \in Nat /\ n <= 2
    OBVIOUS
  <2> HIDE DEF n
  <2>2. n \in 0 .. 2
    BY <2>1
  <2> QED BY <2>2 DEF n
<1> QED BY <1>3, <1>4, <1>5, <1>6

(* An unsigned number is read as it is, if it fits. *)
LEMMA ReadsUnsigned ==
  ASSUME NEW s \in Seq(Digits), s # <<>>
  PROVE  /\ Spelled(s) \in Nat
         /\ ParseInt(s) = IF Spelled(s) <= MaxInt THEN Value(Spelled(s)) ELSE Error("range")
<1>1. Spelled(s) \in Nat /\ MaxInt \in Nat
  BY ZeroIsNothing, SpelledAppend, Int64Assumption
<1>2. s[1] \in Digits /\ IsDigits(s)
  BY DEF IsDigits
<1>3. s[1] \notin Signs
  BY <1>2, MoneyAssumption DEF Signs
<1>4. Unsigned(s) = s /\ s[1] # "-"
  BY <1>3 DEF Unsigned, Signs
<1>5. Spelled(s) \in MinInt .. MaxInt <=> Spelled(s) <= MaxInt
  BY <1>1 DEF MinInt
<1> QED BY <1>1, <1>2, <1>4, <1>5 DEF ParseInt

(* Within the range of its parts a sum is checked before it can wrap. *)
LEMMA JoinChecks ==
  ASSUME NEW sign \in Int, sign = 1 \/ sign = -1, NEW int \in Nat, NEW frac \in 0 .. 99,
         int <= MaxInt, frac <= MaxInt
  PROVE  Join(sign, int, frac) =
           IF 100 * int + frac <= MaxInt THEN Value(sign * (100 * int + frac))
           ELSE Error("ErrAmountOverflow")
<1> DEFINE q == MaxInt \div 100
           amount == 100 * int + frac
<1>1. MaxInt \in Nat /\ MinInt = -MaxInt - 1 /\ amount \in Nat
  BY Int64Assumption DEF MinInt
<1>2. q \in Nat /\ 100 * q <= MaxInt /\ MaxInt < 100 * q + 100 /\ ~(int < -q)
  BY <1>1
<1> HIDE DEF q
<1>3. CASE int > q
  <2>1. amount > MaxInt /\ ~(amount <= MaxInt)
    BY <1>1, <1>2, <1>3
  <2> QED BY <1>3, <2>1 DEF Join, q
<1>4. CASE int <= q
  <2>1. int * 100 \in MinInt .. MaxInt /\ MaxInt - frac \in MinInt .. MaxInt /\ int * 100 \in Nat
    BY <1>1, <1>2, <1>4
  <2>2. Wrap(int * 100) = int * 100 /\ Wrap(MaxInt - frac) = MaxInt - frac
    BY <1>1, <2>1, WrapsToInt
  <2>3. ~(int > q)
    BY <1>2, <1>4
  <2>4. CASE amount <= MaxInt
    <3>1. Wrap(int * 100 + frac) = amount
      <4>1. int * 100 + frac = amount /\ amount \in MinInt .. MaxInt
        BY <1>1, <2>4
      <4> HIDE DEF amount
      <4> QED BY <1>1, <4>1, WrapsToInt
    <3>2. Wrap(sign * amount) = sign * amount
      <4>1. sign * amount \in MinInt .. MaxInt /\ sign * amount \in Int
        BY <1>1, <2>4
      <4> HIDE DEF amount
      <4> QED BY <4>1, WrapsToInt
    <3>3. ~(int * 100 > MaxInt - frac)
      BY <1>1, <2>4
    <3> HIDE DEF amount
    <3>4. Join(sign, int, frac) = Value(sign * amount)
      BY <1>2, <2>2, <2>3, <3>1, <3>2, <3>3 DEF Join, q
    <3> QED BY <2>4, <3>4 DEF amount
  <2>5. CASE amount > MaxInt
    <3>1. int * 100 > MaxInt - frac /\ ~(amount <= MaxInt)
      BY <1>1, <2>5
    <3>2. Join(sign, int, frac) = Error("ErrAmountOverflow")
      BY <2>2, <3>1 DEF Join
    <3> QED BY <3>1, <3>2
  <2> QED BY <1>1, <2>4, <2>5
<1> QED BY <1>2, <1>3, <1>4

LEMMA DecimalRead ==
  ASSUME NEW sign \in Int, sign = 1 \/ sign = -1,
         NEW whole \in Seq(Digits), whole # <<>>,
         NEW decimals \in Seq(Digits), Len(decimals) <= 2
  PROVE  LET amount == <<100, 10, 1>>[Len(decimals) + 1] * Spelled(whole \o decimals)
             parsed == ParseDecimal(sign, whole, decimals)
         IN
         /\ amount \in Nat
         /\ IF amount <= MaxInt THEN parsed = Value(sign * amount) ELSE ~parsed.ok
<1> DEFINE amount == <<100, 10, 1>>[Len(decimals) + 1] * Spelled(whole \o decimals)
           int == Spelled(whole)
           frac == Spelled(PadFraction(decimals))
           parsed == ParseDecimal(sign, whole, decimals)
<1>1. /\ int \in Nat /\ frac \in 0 .. 99 /\ amount = 100 * int + frac /\ MaxInt \in Nat
      /\ PadFraction(decimals) \in Seq(Digits) /\ PadFraction(decimals) # <<>>
  BY DecimalsCount, Int64Assumption
<1>2. /\ ParseInt(whole) = IF int <= MaxInt THEN Value(int) ELSE Error("range")
      /\ ParseInt(PadFraction(decimals)) = IF frac <= MaxInt THEN Value(frac) ELSE Error("range")
  BY <1>1, ReadsUnsigned
<1>3. /\ ~(Len(decimals) > 2)
      /\ \A e : ~Error(e).ok
      /\ \A n : Value(n).ok /\ Value(n).value = n
  BY DEF Error, Value
<1> HIDE DEF amount, int, frac, parsed
<1> SUFFICES amount \in Nat /\ IF amount <= MaxInt THEN parsed = Value(sign * amount) ELSE ~parsed.ok
  BY DEF amount, parsed
<1>4. CASE int <= MaxInt /\ frac <= MaxInt
  <2>1. parsed = Join(sign, int, frac)
    BY <1>1, <1>2, <1>3, <1>4 DEF ParseDecimal, parsed
  <2>2. Join(sign, int, frac) =
          IF 100 * int + frac <= MaxInt THEN Value(sign * (100 * int + frac))
          ELSE Error("ErrAmountOverflow")
    <3>1. int \in Nat /\ frac \in 0 .. 99 /\ int <= MaxInt /\ frac <= MaxInt
      BY <1>1, <1>4
    <3>2. \A i \in Nat, f \in 0 .. 99 : i <= MaxInt /\ f <= MaxInt =>
            Join(sign, i, f) = IF 100 * i + f <= MaxInt THEN Value(sign * (100 * i + f))
                               ELSE Error("ErrAmountOverflow")
      BY JoinChecks
    <3> QED BY <3>1, <3>2
  <2>3. amount \in Nat
    BY <1>1
  <2>4. CASE amount <= MaxInt
    <3>1. parsed = Value(sign * amount)
      BY <1>1, <2>1, <2>2, <2>4
    <3> QED BY <2>3, <2>4, <3>1
  <2>5. CASE ~(amount <= MaxInt)
    <3>1. ~parsed.ok
      BY <1>1, <1>3, <2>1, <2>2, <2>5
    <3> QED BY <2>3, <2>5, <3>1
  <2> QED BY <2>4, <2>5
<1>5. CASE ~(int <= MaxInt /\ frac <= MaxInt)
  <2>1. ~(amount <= MaxInt) /\ amount \in Nat
    BY <1>1, <1>5
  <2>2. ~parsed.ok
    BY <1>1, <1>2, <1>3, <1>5 DEF ParseDecimal, parsed
  <2> QED BY <2>1, <2>2
<1> QED BY <1>4, <1>5

(* What a sign in front takes off the places of a sequence. *)
Cut(s) == IF s # <<>> /\ s[1] \in Signs THEN 1 ELSE 0

LEMMA CharsDiffer ==
  /\ Digits \subseteq Chars /\ Digits \cap Signs = {}
  /\ "." \in Chars /\ "." \notin Digits /\ "." \notin Signs
BY MoneyAssumption DEF Chars, Signs

LEMMA UnsignedIsRest ==
  ASSUME NEW s \in Seq(Chars)
  PROVE  /\ Cut(s) \in {0, 1} /\ Unsigned(s) \in Seq(Chars)
         /\ Len(Unsigned(s)) = Len(s) - Cut(s)
         /\ \A j \in 1 .. Len(Unsigned(s)) : Unsigned(s)[j] = s[j + Cut(s)]
<1>1. CASE s # <<>> /\ s[1] \in Signs
  <2>1. Unsigned(s) = Tail(s) /\ Cut(s) = 1
    BY <1>1 DEF Unsigned, Cut
  <2> QED BY <1>1, <2>1, HeadTailProperties
<1>2. CASE ~(s # <<>> /\ s[1] \in Signs)
  <2>1. Unsigned(s) = s /\ Cut(s) = 0
    BY <1>2 DEF Unsigned, Cut
  <2> QED BY <2>1
<1> QED BY <1>1, <1>2

LEMMA UnsignedDigits ==
  ASSUME NEW s \in Seq(Chars), IsDigits(Unsigned(s))
  PROVE  Cut(s) < Len(s) /\ \A j \in (Cut(s) + 1) .. Len(s) : s[j] \in Digits
<1> DEFINE u == Unsigned(s)
           c == Cut(s)
<1>1. /\ c \in {0, 1} /\ Len(s) \in Nat /\ u \in Seq(Chars) /\ Len(u) = Len(s) - c
      /\ \A j \in 1 .. Len(u) : u[j] = s[j + c]
  BY UnsignedIsRest
<1>2. u # <<>> /\ DOMAIN u = 1 .. Len(u) /\ \A j \in DOMAIN u : u[j] \in Digits
  BY <1>1 DEF IsDigits
<1> HIDE DEF u, c
<1>3. Len(u) \in Nat \ {0}
  BY <1>1, <1>2, EmptySeq
<1>4. ASSUME NEW j \in (c + 1) .. Len(s) PROVE s[j] \in Digits
  <2>1. j - c \in 1 .. Len(u) /\ (j - c) + c = j
    BY <1>1
  <2> QED BY <1>1, <1>2, <2>1
<1>5. c < Len(s)
  BY <1>1, <1>3
<1> QED BY <1>4, <1>5 DEF c

(* The point stands where it stood, counted from the sign. *)
LEMMA PointsShift ==
  ASSUME NEW s \in Seq(Chars)
  PROVE  \A k \in Int : k \in Points(Unsigned(s)) <=> k + Cut(s) \in Points(s) /\ k > 0
<1> DEFINE u == Unsigned(s)
           c == Cut(s)
<1>1. /\ c \in {0, 1} /\ Len(s) \in Nat /\ u \in Seq(Chars) /\ Len(u) = Len(s) - c
      /\ \A j \in 1 .. Len(u) : u[j] = s[j + c]
  BY UnsignedIsRest
<1>2. DOMAIN u = 1 .. Len(u) /\ DOMAIN s = 1 .. Len(s)
  BY <1>1
<1> HIDE DEF u, c
<1>3. ASSUME NEW k \in Int
      PROVE  k \in Points(u) <=> k + c \in Points(s) /\ k > 0
  <2>1. k \in 1 .. Len(u) <=> k + c \in 1 .. Len(s) /\ k > 0
    BY <1>1
  <2> QED BY <1>1, <1>2, <2>1 DEF Points
<1> QED BY <1>3 DEF u, c

LEMMA SamePoints ==
  ASSUME NEW s \in Seq(Chars)
  PROVE  Points(s) = {} <=> Points(Unsigned(s)) = {}
<1>1. Cut(s) \in {0, 1} /\ Unsigned(s) \in Seq(Chars)
  BY UnsignedIsRest
<1>2. ASSUME NEW k \in Points(Unsigned(s)) PROVE k + Cut(s) \in Points(s)
  <2>1. k \in Int
    BY <1>1 DEF Points
  <2> QED BY <2>1, PointsShift
<1>3. ASSUME NEW k \in Points(s) PROVE k - Cut(s) \in Points(Unsigned(s))
  <2>1. k \in Int /\ k > 0 /\ s # <<>> /\ s[k] = "."
    BY DEF Points
  <2>2. Cut(s) = 1 => k # 1
    BY <2>1, CharsDiffer DEF Cut
  <2>3. k - Cut(s) \in Int /\ k - Cut(s) > 0 /\ (k - Cut(s)) + Cut(s) = k
    BY <1>1, <2>1, <2>2
  <2> QED BY <2>3, PointsShift
<1> QED BY <1>2, <1>3

(* The parts on both sides of place k. *)
LEMMA PartsOfBody ==
  ASSUME NEW T, NEW body \in Seq(T), NEW k \in 1 .. Len(body)
  PROVE  LET whole == SubSeq(body, 1, k - 1)
             decimals == SubSeq(body, k + 1, Len(body))
         IN
         /\ whole \in Seq(T) /\ Len(whole) = k - 1 /\ \A j \in 1 .. (k - 1) : whole[j] = body[j]
         /\ decimals \in Seq(T) /\ Len(decimals) = Len(body) - k
         /\ \A j \in 1 .. (Len(body) - k) : decimals[j] = body[j + k]
<1>1. Len(body) \in Nat /\ k - 1 \in Int /\ k + 1 \in Int /\ \A j \in 1 .. Len(body) : body[j] \in T
  OBVIOUS
<1>2. \A j \in 1 .. (k - 1) : body[j] \in T
  BY <1>1
<1>3. \A j \in (k + 1) .. Len(body) : body[j] \in T
  BY <1>1
<1> DEFINE whole == SubSeq(body, 1, k - 1)
           decimals == SubSeq(body, k + 1, Len(body))
<1>4. /\ whole \in Seq(T) /\ Len(whole) = IF 1 <= k - 1 THEN (k - 1) - 1 + 1 ELSE 0
      /\ \A j \in 1 .. ((k - 1) - 1 + 1) : whole[j] = body[1 + j - 1]
  BY <1>1, <1>2, SubSeqProperties
<1>5. /\ decimals \in Seq(T)
      /\ Len(decimals) = IF k + 1 <= Len(body) THEN Len(body) - (k + 1) + 1 ELSE 0
      /\ \A j \in 1 .. (Len(body) - (k + 1) + 1) : decimals[j] = body[(k + 1) + j - 1]
  BY <1>1, <1>3, SubSeqProperties
<1> HIDE DEF whole, decimals
<1>6. Len(whole) = k - 1 /\ \A j \in 1 .. (k - 1) : whole[j] = body[j]
  BY <1>1, <1>4
<1>7. Len(decimals) = Len(body) - k /\ \A j \in 1 .. (Len(body) - k) : decimals[j] = body[j + k]
  BY <1>1, <1>5
<1> QED BY <1>4, <1>5, <1>6, <1>7 DEF whole, decimals

LEMMA OneDigitSequence ==
  ASSUME NEW s \in Seq(Chars), IsDigits(s)
  PROVE  s \in Seq(Digits) /\ s # <<>>
<1>1. s # <<>> /\ \A j \in 1 .. Len(s) : s[j] \in Digits
  BY DEF IsDigits
<1>2. Len(s) \in Nat /\ s \in [1 .. Len(s) -> Chars]
  OBVIOUS
<1>3. s \in [1 .. Len(s) -> Digits]
  BY <1>1, <1>2
<1>4. s \in Seq(Digits)
  BY <1>2, <1>3
<1> QED BY <1>1, <1>4

(* An amount without a point is already in minor units. *)
LEMMA WholeRead ==
  ASSUME NEW s \in Seq(Chars), IsDigits(Unsigned(s))
  PROVE  /\ Points(s) = {}
         /\ Meaning(s) \in Int
         /\ IF Meaning(s) \in MinInt .. MaxInt THEN ParseToMinorUnits(s) = Value(Meaning(s))
            ELSE ~ParseToMinorUnits(s).ok
<1> DEFINE body == Unsigned(s)
           n == Spelled(body)
           m == IF s[1] = "-" THEN -n ELSE n
<1>1. body \in Seq(Digits) /\ body # <<>> /\ s # <<>>
  <2>1. body \in Seq(Chars)
    BY UnsignedIsRest
  <2>2. s # <<>>
    BY DEF IsDigits, Unsigned
  <2> QED BY <2>1, <2>2, OneDigitSequence
<1>2. n \in Nat
  BY <1>1, ReadsUnsigned
<1>3. Points(body) = {}
  BY <1>1, CharsDiffer DEF Points
<1>4. Points(s) = {}
  BY <1>3, SamePoints
<1>5. ParseInt(s) = IF m \in MinInt .. MaxInt THEN Value(m) ELSE Error("range")
  BY <1>1 DEF ParseInt
<1>6. Meaning(s) = (IF s[1] = "-" THEN -1 ELSE 1) * n
  BY <1>3 DEF Meaning
<1> HIDE DEF n
<1>7. Meaning(s) = m /\ m \in Int
  BY <1>2, <1>6
<1>8. (\A e : ~Error(e).ok) /\ (\A v : Value(v).ok)
  BY DEF Error, Value
<1> HIDE DEF m
<1>9. ParseToMinorUnits(s) = IF ParseInt(s).ok THEN ParseInt(s) ELSE Error("ErrInvalidAmount")
  BY <1>1, <1>4 DEF ParseToMinorUnits
<1>10. CASE m \in MinInt .. MaxInt
  BY <1>4, <1>5, <1>7, <1>8, <1>9, <1>10
<1>11. CASE m \notin MinInt .. MaxInt
  BY <1>4, <1>5, <1>7, <1>8, <1>9, <1>11
<1> QED BY <1>10, <1>11

(* An amount with a point is what its parts spell, or refused. *)
LEMMA PointedRead ==
  ASSUME NEW s \in Seq(Chars), NEW k \in DOMAIN Unsigned(s),
         Unsigned(s)[k] = ".", IsDigits(SubSeq(Unsigned(s), 1, k - 1)),
         Len(Unsigned(s)) - k <= 2,
         \A j \in (k + 1) .. Len(Unsigned(s)) : Unsigned(s)[j] \in Digits
  PROVE  /\ Points(s) # {}
         /\ Meaning(s) \in Int
         /\ IF Meaning(s) \in -MaxInt .. MaxInt THEN ParseToMinorUnits(s) = Value(Meaning(s))
            ELSE ~ParseToMinorUnits(s).ok
<1> DEFINE body == Unsigned(s)
           whole == SubSeq(body, 1, k - 1)
           decimals == SubSeq(body, k + 1, Len(body))
           sign == IF s[1] = "-" THEN -1 ELSE 1
           amount == <<100, 10, 1>>[Len(decimals) + 1] * Spelled(whole \o decimals)
           parsed == ParseDecimal(sign, whole, decimals)
<1>1. /\ body \in Seq(Chars) /\ Len(body) \in Nat /\ k \in 1 .. Len(body)
      /\ DOMAIN body = 1 .. Len(body)
  <2>1. body \in Seq(Chars)
    BY UnsignedIsRest
  <2> QED BY <2>1
<1>2. /\ whole \in Seq(Chars) /\ Len(whole) = k - 1 /\ \A j \in 1 .. (k - 1) : whole[j] = body[j]
      /\ decimals \in Seq(Chars) /\ Len(decimals) = Len(body) - k
      /\ \A j \in 1 .. (Len(body) - k) : decimals[j] = body[j + k]
  <2> HIDE DEF body
  <2> QED BY <1>1, PartsOfBody
<1>3. whole \in Seq(Digits) /\ whole # <<>> /\ k > 1
  <2>1. whole \in Seq(Digits) /\ whole # <<>>
    BY <1>2, OneDigitSequence
  <2> HIDE DEF whole
  <2> QED BY <1>1, <1>2, <2>1, EmptySeq
<1>4. decimals \in Seq(Digits) /\ Len(decimals) <= 2
  <2>1. \A j \in (k + 1) .. Len(body) : body[j] \in Digits
    OBVIOUS
  <2>2. Len(body) - k <= 2
    OBVIOUS
  <2> HIDE DEF body, decimals
  <2>3. \A j \in 1 .. Len(decimals) : decimals[j] \in Digits
    <3> SUFFICES ASSUME NEW j \in 1 .. Len(decimals) PROVE decimals[j] \in Digits
      OBVIOUS
    <3>1. j \in 1 .. (Len(body) - k) /\ j + k \in (k + 1) .. Len(body)
      <4>1. Len(decimals) = Len(body) - k /\ Len(body) \in Nat /\ k \in Nat
        BY <1>1, <1>2
      <4> QED BY <4>1
    <3> QED BY <1>2, <2>1, <3>1
  <2>4. Len(decimals) \in Nat /\ decimals \in [1 .. Len(decimals) -> Chars]
    BY <1>2
  <2>5. decimals \in [1 .. Len(decimals) -> Digits]
    BY <2>3, <2>4
  <2> QED BY <1>2, <2>2, <2>4, <2>5
<1>5. Points(body) = {k}
  <2>1. body[k] = "."
    OBVIOUS
  <2>2. \A j \in 1 .. Len(body) : j # k => body[j] \in Digits
    <3> SUFFICES ASSUME NEW j \in 1 .. Len(body), j # k PROVE body[j] \in Digits
      OBVIOUS
    <3>1. CASE j < k
      <4>1. j \in 1 .. (k - 1) /\ whole[j] = body[j]
        BY <1>1, <1>2, <3>1
      <4>2. whole[j] \in Digits
        BY <1>2, <1>3, <4>1
      <4> QED BY <4>1, <4>2
    <3>2. CASE ~(j < k)
      <4>1. j \in (k + 1) .. Len(body)
        BY <1>1, <3>2
      <4> QED BY <4>1
    <3> QED BY <3>1, <3>2
  <2> HIDE DEF body
  <2> QED BY <1>1, <2>1, <2>2, CharsDiffer DEF Points
<1>6. Points(s) # {} /\ s # <<>>
  <2>1. Points(s) # {}
    BY <1>5, SamePoints
  <2> QED BY <2>1 DEF Points
<1>7. ParseToMinorUnits(s) = parsed
  <2>1. (CHOOSE j \in Points(body) : TRUE) = k
    BY <1>5
  <2>2. ParsePointed(sign, body) = parsed
    <3>1. \E j \in Points(body) : Points(body) = {j} /\ j > 1
      BY <1>3, <1>5
    <3> QED BY <2>1, <3>1 DEF ParsePointed
  <2> QED BY <1>6, <2>2 DEF ParseToMinorUnits
<1>8. Meaning(s) = sign * amount
  <2>1. (CHOOSE j \in Points(body) : TRUE) = k
    BY <1>5
  <2>2. Points(body) # {}
    BY <1>5
  <2> QED BY <2>1, <2>2 DEF Meaning
<1>9. sign \in Int /\ (sign = 1 \/ sign = -1)
  OBVIOUS
<1> HIDE DEF sign
<1>10. amount \in Nat /\ IF amount <= MaxInt THEN parsed = Value(sign * amount) ELSE ~parsed.ok
  <2> HIDE DEF whole, decimals
  <2> QED BY <1>3, <1>4, <1>9, DecimalRead
<1> HIDE DEF amount, parsed
<1>11. sign * amount \in Int /\ (sign * amount \in -MaxInt .. MaxInt <=> amount <= MaxInt)
  <2>1. MaxInt \in Nat
    BY Int64Assumption
  <2> QED BY <1>9, <1>10, <2>1
<1> QED BY <1>6, <1>7, <1>8, <1>10, <1>11

LEMMA SupportedRead ==
  ASSUME raw \in Seq(Chars)
  PROVE  SupportedAmountsParsed
<1>1. CASE IsDigits(Unsigned(raw))
  BY <1>1, WholeRead DEF SupportedAmountsParsed
<1>2. ASSUME NEW k \in DOMAIN Unsigned(raw),
             Unsigned(raw)[k] = ".", IsDigits(SubSeq(Unsigned(raw), 1, k - 1)),
             Len(Unsigned(raw)) - k <= 2,
             \A j \in (k + 1) .. Len(Unsigned(raw)) : Unsigned(raw)[j] \in Digits
      PROVE  SupportedAmountsParsed
  BY <1>2, PointedRead DEF SupportedAmountsParsed
<1>3. CASE ~WellFormed(raw)
  BY <1>3 DEF SupportedAmountsParsed
<1> QED BY <1>1, <1>2, <1>3 DEF WellFormed

(* An amount with a point at p and digits around it, with a sign in front if *)
(* a, a stray one behind it if b, and one behind the point if c.             *)
Shape(s, a, b, p, c) ==
  /\ a \in {0, 1} /\ b \in {0, 1} /\ c \in {0, 1} /\ b <= a
  /\ a = 1 <=> s[1] \in Signs
  /\ b = 1 => s[2] \in Signs
  /\ p \in (a + b + 2) .. (Len(s) - c) /\ s[p] = "." /\ (Len(s) - p) - c <= 2
  /\ c = 1 => s[p + 1] \in Signs
  /\ \A j \in (a + b + 1) .. Len(s) : j < p \/ j > p + c => s[j] \in Digits

LEMMA Removed ==
  ASSUME NEW T, NEW s \in Seq(T), NEW i \in 1 .. Len(s)
  PROVE  /\ RemoveAt(s, i) \in Seq(T) /\ Len(RemoveAt(s, i)) = Len(s) - 1
         /\ \A j \in 1 .. (Len(s) - 1) : RemoveAt(s, i)[j] = IF j < i THEN s[j] ELSE s[j + 1]
<1> DEFINE front == SubSeq(s, 1, i - 1)
           back == SubSeq(s, i + 1, Len(s))
<1>1. /\ front \in Seq(T) /\ Len(front) = i - 1 /\ \A j \in 1 .. (i - 1) : front[j] = s[j]
      /\ back \in Seq(T) /\ Len(back) = Len(s) - i
      /\ \A j \in 1 .. (Len(s) - i) : back[j] = s[j + i]
  BY PartsOfBody
<1>2. RemoveAt(s, i) = front \o back
  BY DEF RemoveAt
<1>3. Len(s) \in Nat
  OBVIOUS
<1> HIDE DEF front, back
<1>4. /\ front \o back \in Seq(T) /\ Len(front \o back) = Len(front) + Len(back)
      /\ \A j \in 1 .. (Len(front) + Len(back)) :
           (front \o back)[j] = IF j <= Len(front) THEN front[j] ELSE back[j - Len(front)]
  BY <1>1, ConcatProperties
<1>5. ASSUME NEW j \in 1 .. (Len(s) - 1)
      PROVE  (front \o back)[j] = IF j < i THEN s[j] ELSE s[j + 1]
  <2>1. CASE j < i
    BY <1>1, <1>3, <1>4, <2>1
  <2>2. CASE ~(j < i)
    <3>1. j - (i - 1) \in 1 .. (Len(s) - i) /\ (j - (i - 1)) + i = j + 1
      BY <1>3, <2>2
    <3>2. (front \o back)[j] = back[j - (i - 1)]
      <4>1. /\ j \in 1 .. (Len(front) + Len(back)) /\ ~(j <= Len(front))
            /\ Len(front) = i - 1
        BY <1>1, <1>3, <2>2
      <4> QED BY <1>4, <4>1
    <3> QED BY <1>1, <2>2, <3>1, <3>2
  <2> QED BY <2>1, <2>2
<1>6. Len(front) + Len(back) = Len(s) - 1
  BY <1>1, <1>3
<1> QED BY <1>2, <1>4, <1>5, <1>6

LEMMA WithoutSecondStray ==
  ASSUME NEW s \in Seq(Chars), NEW a, NEW b, NEW c, NEW p, Shape(s, a, b, p, c)
  PROVE  /\ WithoutStraySign(s, p + 1) \in Seq(Chars)
         /\ Shape(WithoutStraySign(s, p + 1), a, b, p, 0)
<1> DEFINE t == WithoutStraySign(s, p + 1)
<1>1. /\ a \in {0, 1} /\ b \in {0, 1} /\ c \in {0, 1} /\ Len(s) \in Nat
      /\ p \in 2 .. Len(s) /\ p \in (a + b + 2) .. (Len(s) - c) /\ s[p] = "."
      /\ (Len(s) - p) - c <= 2
      /\ \A j \in (a + b + 1) .. Len(s) : j < p \/ j > p + c => s[j] \in Digits
  BY DEF Shape
<1>2. CASE c = 1
  <2>1. p + 1 \in 2 .. Len(s) /\ (p + 1) - 1 = p /\ s[p + 1] \in Signs
    BY <1>1, <1>2 DEF Shape
  <2>2. t = RemoveAt(s, p + 1)
    BY <1>1, <2>1 DEF WithoutStraySign, StraySign
  <2>3. /\ t \in Seq(Chars) /\ Len(t) = Len(s) - 1
        /\ \A j \in 1 .. (Len(s) - 1) : t[j] = IF j < p + 1 THEN s[j] ELSE s[j + 1]
    <3> DEFINE i == p + 1
    <3>1. i \in 1 .. Len(s) /\ t = RemoveAt(s, i)
      BY <1>1, <2>1, <2>2
    <3> HIDE DEF i, t
    <3>2. /\ t \in Seq(Chars) /\ Len(t) = Len(s) - 1
          /\ \A j \in 1 .. (Len(s) - 1) : t[j] = IF j < i THEN s[j] ELSE s[j + 1]
      BY <3>1, Removed
    <3> QED BY <3>2 DEF i
  <2> HIDE DEF t
  <2>4. t[1] = s[1] /\ t[2] = s[2] /\ t[p] = s[p]
    BY <1>1, <1>2, <2>3
  <2>5. ASSUME NEW j \in (a + b + 1) .. Len(t), j < p \/ j > p + 0
        PROVE  t[j] \in Digits
    <3>1. CASE j < p
      BY <1>1, <2>3, <3>1
    <3>2. CASE j > p
      <4>1. j + 1 \in (a + b + 1) .. Len(s) /\ j + 1 > p + c /\ t[j] = s[j + 1]
        BY <1>1, <1>2, <2>3, <3>2
      <4> QED BY <1>1, <4>1
    <3> QED BY <1>1, <2>5, <3>1, <3>2
  <2>6. p \in (a + b + 2) .. (Len(t) - 0) /\ (Len(t) - p) - 0 <= 2
    BY <1>1, <1>2, <2>3
  <2>7. /\ b <= a /\ (a = 1 <=> t[1] \in Signs) /\ (b = 1 => t[2] \in Signs) /\ t[p] = "."
    BY <2>4 DEF Shape
  <2>8. Shape(t, a, b, p, 0)
    BY <1>1, <2>5, <2>6, <2>7 DEF Shape
  <2> QED BY <2>3, <2>8 DEF t
<1>3. CASE c = 0
  <2>1. p + 1 \in 2 .. Len(s) => s[p + 1] \in Digits
    BY <1>1, <1>3
  <2>2. t = s
    BY <2>1, CharsDiffer DEF WithoutStraySign, StraySign
  <2> HIDE DEF t
  <2>3. Shape(t, a, b, p, 0)
    BY <1>3, <2>2
  <2> QED BY <2>2, <2>3 DEF t
<1> QED BY <1>1, <1>2, <1>3

LEMMA WithoutFirstStray ==
  ASSUME NEW s \in Seq(Chars), NEW a, NEW b, NEW p, Shape(s, a, b, p, 0)
  PROVE  /\ WithoutStraySign(s, 2) \in Seq(Chars)
         /\ \E q : Shape(WithoutStraySign(s, 2), a, 0, q, 0)
<1> DEFINE t == WithoutStraySign(s, 2)
<1>1. /\ a \in {0, 1} /\ b \in {0, 1} /\ b <= a /\ Len(s) \in Nat
      /\ p \in 2 .. Len(s) /\ p \in (a + b + 2) .. Len(s) /\ s[p] = "."
      /\ Len(s) - p <= 2
      /\ \A j \in (a + b + 1) .. Len(s) : j < p \/ j > p => s[j] \in Digits
  BY DEF Shape
<1>2. CASE b = 1
  <2>1. a = 1 /\ 2 \in 2 .. Len(s) /\ s[1] \in Signs /\ s[2] \in Signs /\ p \in 4 .. Len(s)
    BY <1>1, <1>2 DEF Shape
  <2>2. t = RemoveAt(s, 2)
    BY <2>1 DEF WithoutStraySign, StraySign
  <2>3. /\ t \in Seq(Chars) /\ Len(t) = Len(s) - 1
        /\ \A j \in 1 .. (Len(s) - 1) : t[j] = IF j < 2 THEN s[j] ELSE s[j + 1]
    BY <2>1, <2>2, Removed
  <2> HIDE DEF t
  <2> DEFINE q == p - 1
  <2>4. q \in 3 .. Len(t) /\ t[q] = "." /\ Len(t) - q <= 2 /\ t[1] = s[1]
    BY <1>1, <2>1, <2>3
  <2>5. ASSUME NEW j \in 2 .. Len(t), j < q \/ j > q
        PROVE  t[j] \in Digits
    <3>1. j + 1 \in 3 .. Len(s) /\ (j + 1 < p \/ j + 1 > p) /\ t[j] = s[j + 1]
      BY <1>1, <2>1, <2>3, <2>5
    <3> QED BY <1>1, <1>2, <2>1, <3>1
  <2> HIDE DEF q
  <2>6. Shape(t, a, 0, q, 0)
    BY <2>1, <2>3, <2>4, <2>5 DEF Shape
  <2> QED BY <2>3, <2>6 DEF t
<1>3. CASE b = 0
  <2>1. s[2] \notin Signs
    <3>1. CASE p = 2
      BY <1>1, <3>1, CharsDiffer
    <3>2. CASE p # 2
      <4>1. s[2] \in Digits
        BY <1>1, <1>3, <3>2
      <4> QED BY <4>1, CharsDiffer
    <3> QED BY <3>1, <3>2
  <2>2. t = s
    BY <2>1 DEF WithoutStraySign, StraySign
  <2> HIDE DEF t
  <2>3. Shape(t, a, 0, p, 0)
    BY <1>3, <2>2
  <2> QED BY <2>2, <2>3 DEF t
<1> QED BY <1>1, <1>2, <1>3

LEMMA ShapeWellFormed ==
  ASSUME NEW s \in Seq(Chars), NEW a, NEW p, Shape(s, a, 0, p, 0)
  PROVE  WellFormed(s)
<1> DEFINE body == Unsigned(s)
           k == p - a
           whole == SubSeq(body, 1, k - 1)
<1>1. /\ a \in {0, 1} /\ Len(s) \in Nat /\ p \in (a + 2) .. Len(s) /\ s[p] = "."
      /\ Len(s) - p <= 2 /\ (a = 1 <=> s[1] \in Signs)
      /\ \A j \in (a + 1) .. Len(s) : j < p \/ j > p => s[j] \in Digits
  BY DEF Shape
<1>2. a = Cut(s)
  <2>1. s # <<>>
    BY <1>1
  <2> QED BY <1>1, <2>1 DEF Cut
<1>3. /\ body \in Seq(Chars) /\ Len(body) = Len(s) - a /\ DOMAIN body = 1 .. Len(body)
      /\ \A j \in 1 .. Len(body) : body[j] = s[j + a]
  <2>1. body \in Seq(Chars)
    BY UnsignedIsRest
  <2> QED BY <1>2, <2>1, UnsignedIsRest
<1> HIDE DEF body
<1>4. /\ k \in 2 .. Len(body) /\ body[k] = "." /\ Len(body) - k <= 2
      /\ \A j \in 1 .. Len(body) : j < k \/ j > k => body[j] \in Digits
  <2>1. k \in 2 .. Len(body) /\ Len(body) - k <= 2 /\ k + a = p
    BY <1>1, <1>3
  <2>2. ASSUME NEW j \in 1 .. Len(body), j < k \/ j > k PROVE body[j] \in Digits
    <3>1. j + a \in (a + 1) .. Len(s) /\ (j + a < p \/ j + a > p)
      BY <1>1, <1>3, <2>1, <2>2
    <3> QED BY <1>1, <1>3, <3>1
  <2>3. body[k] = "."
    <3>1. k \in 1 .. Len(body)
      BY <1>1, <2>1
    <3> HIDE DEF k
    <3> QED BY <1>1, <1>3, <2>1, <3>1
  <2> QED BY <2>1, <2>2, <2>3
<1> HIDE DEF k
<1>5. k \in DOMAIN body /\ k \in 1 .. Len(body) /\ Len(body) \in Nat
  BY <1>1, <1>3, <1>4
<1>6. whole \in Seq(Chars) /\ Len(whole) = k - 1 /\ \A j \in 1 .. (k - 1) : whole[j] = body[j]
  BY <1>3, <1>5, PartsOfBody
<1> HIDE DEF whole
<1>7. IsDigits(whole)
  <2>1. whole # <<>> /\ DOMAIN whole = 1 .. (k - 1)
    BY <1>4, <1>5, <1>6
  <2>2. \A j \in 1 .. (k - 1) : body[j] \in Digits
    BY <1>4, <1>5
  <2> QED BY <1>6, <2>1, <2>2 DEF IsDigits
<1>8. \A j \in (k + 1) .. Len(body) : body[j] \in Digits
  BY <1>4, <1>5
<1> QED BY <1>4, <1>5, <1>7, <1>8 DEF WellFormed, body, whole

(* Decimals that are taken are digits, but for a sign in front. *)
LEMMA DecimalsTaken ==
  ASSUME NEW s \in Seq(Chars), Len(s) <= 2, IsDigits(Unsigned(PadFraction(s)))
  PROVE  \A j \in (Cut(s) + 1) .. Len(s) : s[j] \in Digits
<1> DEFINE padded == PadFraction(s)
<1>1. Len(s) \in Nat /\ Len(s) <= 2 /\ IsDigits(Unsigned(padded))
  OBVIOUS
<1>2. CASE Len(s) = 0
  <2>1. Cut(s) = 0
    BY <1>2 DEF Cut
  <2> QED BY <1>2, <2>1
<1>3. CASE Len(s) # 0
  <2>1. /\ padded \in Seq(Chars) /\ padded # <<>> /\ Len(padded) \in Nat /\ Len(padded) >= Len(s)
        /\ \A j \in 1 .. Len(s) : padded[j] = s[j]
    <3>1. CASE Len(s) = 1
      <4>1. padded = Append(s, "0") /\ "0" \in Chars
        BY <3>1, CharsDiffer, MoneyAssumption DEF PadFraction
      <4> QED BY <3>1, <4>1
    <3>2. CASE Len(s) = 2
      <4>1. padded = s
        BY <3>2 DEF PadFraction
      <4> HIDE DEF padded
      <4> QED BY <3>2, <4>1
    <3>3. Len(s) = 1 \/ Len(s) = 2
      <4> DEFINE n == Len(s)
      <4>1. n \in Nat /\ n <= 2 /\ n # 0
        BY <1>1, <1>3
      <4> HIDE DEF n
      <4>2. n = 1 \/ n = 2
        BY <4>1
      <4> QED BY <4>2 DEF n
    <3> QED BY <3>1, <3>2, <3>3
  <2> HIDE DEF padded
  <2>2. Cut(padded) = Cut(s)
    <3>1. s # <<>> /\ padded[1] = s[1]
      BY <1>1, <1>3, <2>1
    <3> QED BY <2>1, <3>1 DEF Cut
  <2>3. \A j \in (Cut(padded) + 1) .. Len(padded) : padded[j] \in Digits
    BY <1>1, <2>1, UnsignedDigits
  <2>4. Cut(s) \in {0, 1}
    BY DEF Cut
  <2> QED BY <1>1, <2>1, <2>2, <2>3, <2>4
<1> QED BY <1>2, <1>3

(* An amount with a point that is taken has the shape above. *)
LEMMA TakenHasShape ==
  ASSUME NEW s \in Seq(Chars), Points(s) # {}, ParseToMinorUnits(s).ok
  PROVE  \E p \in Points(s) : \E a, b, c : Shape(s, a, b, p, c)
<1> DEFINE body == Unsigned(s)
           a == Cut(s)
           sign == IF s[1] = "-" THEN -1 ELSE 1
<1>1. /\ a \in {0, 1} /\ body \in Seq(Chars) /\ Len(body) = Len(s) - a /\ Len(s) \in Nat
      /\ DOMAIN body = 1 .. Len(body)
      /\ \A j \in 1 .. Len(body) : body[j] = s[j + a]
  <2>1. body \in Seq(Chars)
    BY UnsignedIsRest
  <2> QED BY <2>1, UnsignedIsRest
<1>2. s # <<>>
  BY DEF Points
<1>3. \A e : ~Error(e).ok
  BY DEF Error
<1>4. ParsePointed(sign, body).ok
  BY <1>2 DEF ParseToMinorUnits
<1> HIDE DEF sign, body
<1>5. PICK k \in Points(body) : Points(body) = {k} /\ k > 1
  BY <1>3, <1>4 DEF ParsePointed
<1> DEFINE whole == SubSeq(body, 1, k - 1)
           decimals == SubSeq(body, k + 1, Len(body))
           b == Cut(whole)
           c == Cut(decimals)
           p == k + a
<1>6. ParseDecimal(sign, whole, decimals).ok
  <2>1. (CHOOSE j \in Points(body) : TRUE) = k
    BY <1>5
  <2>2. \E j \in Points(body) : Points(body) = {j} /\ j > 1
    BY <1>5
  <2> QED BY <1>4, <2>1, <2>2 DEF ParsePointed
<1>7. k \in 2 .. Len(body) /\ body[k] = "."
  BY <1>1, <1>5 DEF Points
<1>8. /\ whole \in Seq(Chars) /\ Len(whole) = k - 1 /\ \A j \in 1 .. (k - 1) : whole[j] = body[j]
      /\ decimals \in Seq(Chars) /\ Len(decimals) = Len(body) - k
      /\ \A j \in 1 .. (Len(body) - k) : decimals[j] = body[j + k]
  <2>1. k \in 1 .. Len(body)
    BY <1>7
  <2> QED BY <1>1, <2>1, PartsOfBody
<1> HIDE DEF whole, decimals
<1>9. IsDigits(Unsigned(whole)) /\ ~(Len(decimals) > 2) /\ IsDigits(Unsigned(PadFraction(decimals)))
  <2>1. ParseInt(whole).ok /\ ~(Len(decimals) > 2) /\ ParseInt(PadFraction(decimals)).ok
    BY <1>3, <1>6 DEF ParseDecimal
  <2> QED BY <1>3, <2>1 DEF ParseInt
<1>10. b \in {0, 1} /\ b < k - 1 /\ \A j \in (b + 1) .. (k - 1) : body[j] \in Digits
  <2>1. b < Len(whole) /\ \A j \in (b + 1) .. Len(whole) : whole[j] \in Digits
    BY <1>8, <1>9, UnsignedDigits
  <2>2. b \in {0, 1}
    BY DEF Cut
  <2> HIDE DEF b
  <2>3. k \in Nat /\ k - 1 \in Nat
    BY <1>1, <1>7
  <2>4. ASSUME NEW j \in (b + 1) .. (k - 1) PROVE body[j] \in Digits
    <3>1. j \in 1 .. (k - 1) /\ j \in (b + 1) .. Len(whole)
      BY <1>8, <2>2, <2>3
    <3> QED BY <1>8, <2>1, <3>1
  <2>5. b < k - 1
    BY <1>8, <2>1
  <2> QED BY <2>2, <2>4, <2>5
<1>11. /\ c \in {0, 1} /\ c <= Len(body) - k /\ (Len(body) - k) - c <= 2
       /\ \A j \in (k + c + 1) .. Len(body) : body[j] \in Digits
       /\ c = 1 => body[k + 1] \in Signs
  <2>1. Len(decimals) \in Nat /\ Len(decimals) <= 2 /\ Len(body) \in Nat
    BY <1>1, <1>8, <1>9
  <2>2. \A j \in (c + 1) .. Len(decimals) : decimals[j] \in Digits
    BY <1>8, <1>9, <2>1, DecimalsTaken
  <2>3. c \in {0, 1} /\ (c = 1 => decimals # <<>> /\ decimals[1] \in Signs)
    BY DEF Cut
  <2>4. c = 1 => Len(decimals) # 0
    BY <1>8, <2>3, EmptySeq
  <2> HIDE DEF c
  <2>5. \A j \in (k + c + 1) .. Len(body) : body[j] \in Digits
    <3> SUFFICES ASSUME NEW j \in (k + c + 1) .. Len(body) PROVE body[j] \in Digits
      OBVIOUS
    <3>1. /\ j - k \in (c + 1) .. Len(decimals) /\ j - k \in 1 .. (Len(body) - k)
          /\ (j - k) + k = j
      BY <1>7, <1>8, <2>1, <2>3
    <3> QED BY <1>8, <2>2, <3>1
  <2>6. c <= Len(body) - k /\ (Len(body) - k) - c <= 2
    BY <1>7, <1>8, <2>1, <2>3, <2>4
  <2>7. c = 1 => body[k + 1] \in Signs
    <3> SUFFICES ASSUME c = 1 PROVE body[k + 1] \in Signs
      OBVIOUS
    <3>1. 1 \in 1 .. (Len(body) - k) /\ 1 + k = k + 1
      BY <1>7, <2>1, <2>6
    <3>2. decimals[1] = body[k + 1]
      BY <1>8, <3>1
    <3> QED BY <2>3, <3>2
  <2> QED BY <2>3, <2>5, <2>6, <2>7
<1>12. (a = 1 <=> s[1] \in Signs) /\ (b = 1 => body[1] \in Signs)
  <2>1. a = 1 <=> s[1] \in Signs
    BY <1>2 DEF Cut
  <2>2. whole[1] = body[1]
    BY <1>7, <1>8
  <2> QED BY <2>1, <2>2 DEF Cut
<1> HIDE DEF a, b, c
<1>13. b <= a /\ (b = 1 => s[2] \in Signs)
  <2>1. body[1] = s[1 + a]
    BY <1>1, <1>7
  <2>2. CASE a = 0
    BY <1>10, <1>12, <2>1, <2>2
  <2>3. CASE a = 1
    BY <1>10, <1>12, <2>1, <2>3
  <2> QED BY <1>1, <2>2, <2>3
<1>14. /\ p \in (a + b + 2) .. (Len(s) - c) /\ s[p] = "." /\ (Len(s) - p) - c <= 2
       /\ (c = 1 => s[p + 1] \in Signs)
  <2>1. s[p] = "."
    <3>1. body[k] = s[k + a]
      BY <1>1, <1>7
    <3> QED BY <1>7, <3>1
  <2>2. c = 1 => s[p + 1] \in Signs
    <3> SUFFICES ASSUME c = 1 PROVE s[p + 1] \in Signs
      OBVIOUS
    <3>1. k + 1 \in 1 .. Len(body) /\ (k + 1) + a = p + 1
      BY <1>1, <1>7, <1>11
    <3>2. body[k + 1] = s[(k + 1) + a]
      BY <1>1, <3>1
    <3> QED BY <1>11, <3>1, <3>2
  <2>3. p \in (a + b + 2) .. (Len(s) - c) /\ (Len(s) - p) - c <= 2
    BY <1>1, <1>7, <1>10, <1>11
  <2> QED BY <2>1, <2>2, <2>3
<1>15. ASSUME NEW j \in (a + b + 1) .. Len(s), j < p \/ j > p + c
       PROVE  s[j] \in Digits
  <2>1. j - a \in 1 .. Len(body) /\ (j - a) + a = j
    BY <1>1, <1>10
  <2>2. body[j - a] = s[j]
    BY <1>1, <2>1
  <2>3. CASE j < p
    <3>1. j - a \in (b + 1) .. (k - 1)
      BY <1>1, <1>7, <1>10, <2>3
    <3> QED BY <1>10, <2>2, <3>1
  <2>4. CASE j > p + c
    <3>1. j - a \in (k + c + 1) .. Len(body)
      BY <1>1, <1>7, <1>11, <2>4
    <3> QED BY <1>11, <2>2, <3>1
  <2> QED BY <1>15, <2>3, <2>4
<1> HIDE DEF p
<1>16. Shape(s, a, b, p, c)
  BY <1>1, <1>10, <1>11, <1>12, <1>13, <1>14, <1>15 DEF Shape
<1>17. p \in Points(s)
  <2>1. p \in 1 .. Len(s)
    BY <1>1, <1>10, <1>11, <1>14
  <2>2. DOMAIN s = 1 .. Len(s) /\ s[p] = "."
    BY <1>14
  <2> QED BY <2>1, <2>2 DEF Points
<1> QED BY <1>16, <1>17

LEMMA SlipsRead ==
  ASSUME raw \in Seq(Chars)
  PROVE  OnlyStraySignsSlipThrough
<1> SUFFICES ASSUME ParseToMinorUnits(raw).ok
             PROVE  IF Points(raw) = {} THEN WellFormed(raw)
                    ELSE \E p \in Points(raw) :
                           WellFormed(WithoutStraySign(WithoutStraySign(raw, p + 1), 2))
  BY DEF OnlyStraySignsSlipThrough
<1>1. CASE Points(raw) = {}
  <2>1. ParseInt(raw).ok
    BY <1>1 DEF ParseToMinorUnits, Error
  <2>2. IsDigits(Unsigned(raw))
    BY <2>1 DEF ParseInt, Error
  <2> QED BY <1>1, <2>2 DEF WellFormed
<1>2. CASE Points(raw) # {}
  <2>1. PICK p \in Points(raw) : \E a, b, c : Shape(raw, a, b, p, c)
    BY <1>2, TakenHasShape
  <2>2. PICK a, b, c : Shape(raw, a, b, p, c)
    BY <2>1
  <2> DEFINE r == WithoutStraySign(raw, p + 1)
             t == WithoutStraySign(r, 2)
  <2>3. r \in Seq(Chars) /\ Shape(r, a, b, p, 0)
    BY <2>2, WithoutSecondStray
  <2> HIDE DEF r
  <2>4. t \in Seq(Chars) /\ \E q : Shape(t, a, 0, q, 0)
    BY <2>3, WithoutFirstStray
  <2> HIDE DEF t
  <2>5. WellFormed(t)
    BY <2>4, ShapeWellFormed
  <2> QED BY <1>2, <2>5 DEF r, t
<1> QED BY <1>1, <1>2

AmountsInv == raw \in Seq(Chars)

LEMMA AmountsTyped == MoneySpec => []AmountsInv
<1>1. MoneyInit => AmountsInv
  BY EmptySeq DEF MoneyInit, AmountsInv
<1>2. AmountsInv /\ [MoneyNext]_raw => AmountsInv'
  BY DEF MoneyNext, Type, AmountsInv
<1> QED BY <1>1, <1>2, PTL DEF MoneySpec

(* Every amount in one of the supported formats is parsed to its value or,   *)
(* if that is beyond int64, refused, however long it is and whatever the     *)
(* width of integers: no sum wraps around before it is checked.              *)
THEOREM SupportedAmountsParsedHolds == MoneySpec => []SupportedAmountsParsed
<1>1. AmountsInv => SupportedAmountsParsed
  BY SupportedRead DEF AmountsInv
<1> QED BY <1>1, AmountsTyped, PTL

(* All that ParseToMinorUnits takes beyond the supported formats are amounts *)
(* with a point and a stray sign, whatever is typed.                         *)
THEOREM OnlyStraySignsSlipThroughHolds == MoneySpec => []OnlyStraySignsSlipThrough
<1>1. AmountsInv => OnlyStraySignsSlipThrough
  BY SlipsRead DEF AmountsInv
<1> QED BY <1>1, AmountsTyped, PTL
=============================================================================
