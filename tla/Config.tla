--------------------------------- MODULE Config ---------------------------------
(***************************************************************************)
(* The settings of a hive, in a build with retries and core affinity: the  *)
(* global defaults, what the methods of Builder do to them, and their      *)
(* conversion when a hive is built and when it becomes a Husk.  The name   *)
(* and the stack size of the threads are treated like the affinity.        *)
(***************************************************************************)
EXTENDS Cells

CONSTANTS DefaultThreads, DefaultRetries, DefaultFactor

ASSUME ConfigAssumption == {DefaultThreads, DefaultRetries, DefaultFactor} \subseteq Nat

Empty == [f \in {"num_threads", "max_retries", "retry_factor", "affinity"} |-> Unsync(None)]

With(config, f, opt) == [config EXCEPT ![f] = Set(@, opt)]

WithRetryConstDefaults(config) ==
  With(With(config, "max_retries", Some(DefaultRetries)), "retry_factor", Some(DefaultFactor))

WithConstDefaults(config) ==
  WithRetryConstDefaults(With(config, "num_threads", Some(DefaultThreads)))

\* A setting of zero is kept as no setting; the durations fit 64 bits of nanoseconds.
NonZero(n) == IF n = 0 THEN None ELSE Some(n)

\* Mutant: a limit of zero changes nothing.
MaxRetriesUnlessZero(config, limit) ==
  IF limit = 0 THEN config ELSE With(config, "max_retries", Some(limit))

WithMaxRetries(config, limit) == With(config, "max_retries", NonZero(limit))
WithRetryFactor(config, duration) == With(config, "retry_factor", NonZero(duration))
WithNoRetries(config) == WithRetryFactor(WithMaxRetries(config, 0), 0)

WithDefaultNumThreads(config, defaults) ==
  With(config, "num_threads", Get(defaults["num_threads"]))

WithDefaultRetries(config, defaults) ==
  With(With(config, "max_retries", Get(defaults["max_retries"])),
       "retry_factor", Get(defaults["retry_factor"]))

ConfigIntoSync(config) ==
  [f \in DOMAIN config |->
     IF f = "num_threads" THEN IntoSyncDefault(config[f], 0) ELSE IntoSync(config[f])]

ConfigIntoUnsync(config) == [f \in DOMAIN config |-> IntoUnsync(config[f])]

\* What the settings come to: the threads of new; the retries of can_retry, which are
\* none without a limit; the factor of queue_retry, to which none is not the same as a
\* zero; the cores of get_core_affinity.
ThreadsOf(config) == GetOrDefault(config["num_threads"], 0)
RetriesOf(config) == GetOrDefault(config["max_retries"], 0)
FactorOf(config) == Get(config["retry_factor"])
AffinityOf(config) == UNION {{l[k] : k \in DOMAIN l} : l \in Get(config["affinity"])}

Effective(config) ==
  [threads |-> ThreadsOf(config), retries |-> RetriesOf(config),
   factor |-> FactorOf(config), affinity |-> AffinityOf(config)]
=================================================================================
