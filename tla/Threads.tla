-------------------------------- MODULE Threads --------------------------------
(***************************************************************************)
(* The threads of a hive and its settings, over its life and that of the   *)
(* hives built from its husk: a Builder is configured while other threads  *)
(* change the global defaults; the hive is built; clients enlarge the pool *)
(* at the same time (grow, use_all_cores, with and without affinity); a    *)
(* thread that panics is replaced; cores come and go, and refresh looks.   *)
(***************************************************************************)
EXTENDS Config, Cores

CONSTANTS Clients,      \* the threads that hold clones of the hive
          CoreIds,      \* the CPU cores there may be
          FirstCores,   \* those there are in the beginning
          Affinities,   \* lists of core indices clients give, without repetition
          Numbers,      \* numbers of threads and retries, and factors, clients give,
          NewDefaults,  \* and those the global defaults are set to
          MaxThreads,   \* bounds: on the size of the pool,
          MaxSettings,  \* on the changes of settings and defaults,
          MaxChanges,   \* on the changes of the machine,
          MaxFailures   \* and on the threads that cannot be started

ASSUME ThreadsAssumption ==
  /\ Numbers \cup NewDefaults \subseteq Nat /\ MaxThreads \in Nat
  /\ CoreIds \subseteq Nat /\ IsFiniteSet(CoreIds)
  /\ FirstCores \in (SUBSET CoreIds) \ {{}}
  /\ Affinities \subseteq {a \in Seq(Nat) : IsInjective(a)}

VARIABLES defaults,  \* DEFAULTS
          stage,     \* what there is: a Builder (or Husk), a Hive, ...
          config,    \* ... and its settings
          call,      \* what each client is in the middle of
          todo,      \* the thread indices it has yet to brood
          thread,    \* the state of the thread of each index
          core,      \* the core a starting thread was given
          pinned,    \* the core a thread runs on
          cores,     \* CORES
          machine,   \* the available cores
          asked,     \* history: the settings asked for, as they were last,
          brooded,   \* how often each index was brooded,
          settings, changes, failures  \* the bounded events so far

poolVars == <<thread, core, pinned, brooded, failures>>
hiveVars == <<stage, config, call, todo, asked>>
machineVars == <<cores, machine, changes>>
vars == <<defaults, hiveVars, poolVars, machineVars, settings>>

Indices == 0..(MaxThreads - 1)
Range0(from, to) == {i \in Indices : from <= i /\ i < to}
Larger(m, n) == IF m < n THEN n ELSE m

NewPool ==
  /\ thread = [i \in Indices |-> "none"] /\ brooded = [i \in Indices |-> 0]
  /\ core = [i \in Indices |-> None] /\ pinned = [i \in Indices |-> None]

\* Builder::new, which promises that without a number there are no threads, and
\* Builder::default.
Unconfigured == [threads |-> 0]
Defaults ==
  [threads |-> DefaultThreads, retries |-> DefaultRetries, factor |-> Some(DefaultFactor)]

Init ==
  /\ defaults = WithConstDefaults(Empty)
  /\ stage = "builder"
  /\ \/ config = Empty /\ asked = Unconfigured
     \/ config = defaults /\ asked = Defaults
  /\ call = [c \in Clients |-> "idle"] /\ todo = [c \in Clients |-> {}]
  /\ NewPool
  /\ cores = <<>> /\ machine = FirstCores
  /\ settings = 0 /\ changes = 0 /\ failures = 0

(***************************************************************************)
(* Settings.                                                               *)
(***************************************************************************)
ChangeDefaults(new) ==
  /\ settings < MaxSettings /\ settings' = settings + 1
  /\ defaults' = new
  /\ UNCHANGED <<hiveVars, poolVars, machineVars>>

SetNumThreadsDefault(n) == ChangeDefaults(With(defaults, "num_threads", Some(n)))

\* set_retries_default_disabled is the first with a limit of 0: unlike a Builder, the
\* defaults keep a zero.
SetRetryDefaults(n) ==
  \/ ChangeDefaults(With(defaults, "max_retries", Some(n)))
  \/ ChangeDefaults(With(defaults, "retry_factor", Some(n)))

ResetDefaults == ChangeDefaults(WithConstDefaults(defaults))

SetDefaults ==
  \/ \E n \in NewDefaults \cup {Cardinality(machine)} : SetNumThreadsDefault(n)
  \/ \E n \in NewDefaults : SetRetryDefaults(n)
  \/ ResetDefaults

Configure(new, wanted) ==
  /\ stage = "builder" /\ settings < MaxSettings
  /\ config' = new
  /\ asked' = [f \in DOMAIN asked \cup DOMAIN wanted |->
                IF f \in DOMAIN wanted THEN wanted[f] ELSE asked[f]]
  /\ settings' = settings + 1
  /\ UNCHANGED <<defaults, stage, call, todo, poolVars, machineVars>>

NumThreads(n) == Configure(With(config, "num_threads", Some(n)), [threads |-> n])

BuilderMaxRetries(limit) == Configure(WithMaxRetries(config, limit), [retries |-> limit])

\* A factor of zero is to disable the backoff.
BuilderRetryFactor(d) == Configure(WithRetryFactor(config, d), [factor |-> NonZero(d)])

DefaultNumThreads ==
  Configure(WithDefaultNumThreads(config, defaults), [threads |-> ThreadsOf(defaults)])

DefaultRetrySettings ==
  Configure(WithDefaultRetries(config, defaults),
            [retries |-> RetriesOf(defaults), factor |-> FactorOf(defaults)])

NoRetries == Configure(WithNoRetries(config), [retries |-> 0, factor |-> None])

ThreadAffinity(affinity) ==
  Configure(With(config, "affinity", Some(affinity)), [affinity |-> ToSet(affinity)])

SetUp ==
  \/ \E n \in Numbers : NumThreads(n) \/ BuilderMaxRetries(n) \/ BuilderRetryFactor(n)
  \/ NumThreads(Cardinality(machine))
  \/ DefaultNumThreads \/ DefaultRetrySettings \/ NoRetries
  \/ \E a \in Affinities \cup {AllCores(machine)} : ThreadAffinity(a)

(***************************************************************************)
(* Building, enlarging and dismantling the pool.                           *)
(***************************************************************************)
Brood(c, from, to, op) ==
  /\ call' = [call EXCEPT ![c] = op]
  /\ todo' = [todo EXCEPT ![c] = Range0(from, to)]

Build(c) ==
  /\ stage = "builder"
  /\ asked.threads <= MaxThreads
  /\ stage' = "hive"
  /\ config' = ConfigIntoSync(config)
  /\ Brood(c, 0, ThreadsOf(config), "new")
  /\ UNCHANGED <<defaults, asked, poolVars, machineVars, settings>>

\* A client has a clone of the hive only once it is built.
Calls(c) ==
  stage = "hive" /\ call[c] = "idle" /\ \A d \in Clients : call[d] \notin {"new", "failing"}

AddThreads(n) == config' = [config EXCEPT !["num_threads"] = AddTo(@, n)]

\* Mutant: the number of threads is set to one that may be smaller.
EnsureThreadsLowers(n) == config' = [config EXCEPT !["num_threads"] = UpdateWith(@, Some(n))]

EnsureThreads(n) == config' = [config EXCEPT !["num_threads"] = SetMax(@, n)]

\* To grow by 0 has no effect.
Grow(c, n) ==
  LET start == ThreadsOf(config) IN
  /\ start + n <= MaxThreads
  /\ AddThreads(n)
  /\ Brood(c, start, start + n, "brood")
  /\ asked' = [asked EXCEPT !.threads = @ + n]
  /\ UNCHANGED <<defaults, stage, poolVars, machineVars, settings>>

UseAllCores(c, n) ==
  /\ n <= MaxThreads
  /\ EnsureThreads(n)
  /\ Brood(c, ThreadsOf(config), n, "brood")
  /\ asked' = [asked EXCEPT !.threads = Larger(@, n)]
  /\ UNCHANGED <<defaults, stage, poolVars, machineVars, settings>>

\* The first half of grow_with_affinity and use_all_cores_with_affinity: without
\* effect if the hive was built without affinity.
AddCoreAffinity(c, affinity, then) ==
  /\ LET old == Get(config["affinity"])
     IN  \E new \in IF old = None THEN {None} ELSE Unions(ValueOf(old), affinity) :
           config' = [config EXCEPT !["affinity"] =
                        UpdateWith(@, IF new = ValueOf(old) THEN None ELSE Some(new))]
  /\ call' = [call EXCEPT ![c] = then]
  /\ asked' = [f \in DOMAIN asked |->
                IF f = "affinity" THEN asked[f] \cup ToSet(affinity) ELSE asked[f]]
  /\ UNCHANGED <<defaults, stage, todo, poolVars, machineVars, settings>>

Enlarge(c) ==
  \/ /\ Calls(c)
     /\ \/ \E n \in Numbers : Grow(c, n)
        \/ UseAllCores(c, Cardinality(machine))
        \/ \E a \in Affinities : AddCoreAffinity(c, a, "grow")
        \/ AddCoreAffinity(c, AllCores(machine), "all")
  \/ call[c] = "grow" /\ \E n \in Numbers : Grow(c, n)
  \/ call[c] = "all" /\ UseAllCores(c, Cardinality(machine))

\* The thread of this index starts, or cannot be started, and nobody tries again.
Spawn(i) ==
  \/ thread' = [thread EXCEPT ![i] = "started"] /\ UNCHANGED failures
  \/ /\ failures < MaxFailures /\ failures' = failures + 1
     /\ thread' = [thread EXCEPT ![i] = "failed"]

\* Only new looks at the errors: grow, use_all_cores and the sentinel pass them over.
BroodNext(c) ==
  /\ \E i \in todo[c] :
       /\ \A j \in todo[c] : i <= j
       /\ Spawn(i)
       /\ brooded' = [brooded EXCEPT ![i] = @ + 1]
       /\ todo' = [todo EXCEPT ![c] = @ \ {i}]
       /\ call' = IF call[c] = "new" /\ thread'[i] = "failed"
                    THEN [call EXCEPT ![c] = "failing"] ELSE call
  /\ UNCHANGED <<defaults, stage, config, asked, core, pinned, machineVars, settings>>

\* The end of a call.  A hive some of whose first threads could not be started is
\* dropped at once.
Brooded(c) ==
  /\ call[c] \in {"new", "failing", "brood"} /\ todo[c] = {}
  /\ stage' = IF call[c] = "failing" THEN "error" ELSE stage
  /\ call' = [call EXCEPT ![c] = "idle"]
  /\ UNCHANGED <<defaults, config, todo, asked, poolVars, machineVars, settings>>

\* try_into_husk by the last client: the channel is closed and it waits for the threads.
Close(c) ==
  /\ Calls(c) /\ \A d \in Clients : call[d] = "idle"
  /\ stage' = "closed"
  /\ UNCHANGED <<defaults, config, call, todo, asked, poolVars, machineVars, settings>>

\* The Husk, and the Builder made from it.
AsBuilder ==
  /\ stage = "closed" /\ \A i \in Indices : thread[i] \in {"none", "failed"}
  /\ stage' = "builder"
  /\ config' = ConfigIntoUnsync(config)
  /\ thread' = [i \in Indices |-> "none"] /\ brooded' = [i \in Indices |-> 0]
  /\ UNCHANGED <<defaults, call, todo, asked, core, pinned, failures, machineVars, settings>>

(***************************************************************************)
(* The threads.                                                            *)
(***************************************************************************)
GetCoreAffinity(i) ==
  LET affinity == Get(config["affinity"]) IN
  /\ thread[i] = "started"
  /\ cores' \in IF affinity = None THEN {cores} ELSE Established(cores, machine)
  /\ core' = [core EXCEPT ![i] = UNION {CoreFor(a, cores', i) : a \in affinity}]
  /\ thread' = [thread EXCEPT ![i] = "given"]
  /\ UNCHANGED <<defaults, hiveVars, pinned, brooded, failures, machine, changes, settings>>

\* The core may have gone since.
InitThread(i) ==
  /\ thread[i] = "given"
  /\ pinned' = [pinned EXCEPT ![i] = UNION {TryPinCurrent(k, machine) : k \in core[i]}]
  /\ core' = [core EXCEPT ![i] = None]
  /\ thread' = [thread EXCEPT ![i] = "works"]
  /\ UNCHANGED <<defaults, hiveVars, brooded, failures, machineVars, settings>>

\* The sentinel starts another thread with the same index.
Panic(i) ==
  /\ stage = "hive" /\ thread[i] = "works"
  /\ Spawn(i)
  /\ pinned' = [pinned EXCEPT ![i] = None]
  /\ UNCHANGED <<defaults, hiveVars, core, brooded, machineVars, settings>>

\* The channel is closed.
Leave(i) ==
  /\ stage = "closed" /\ thread[i] = "works"
  /\ thread' = [thread EXCEPT ![i] = "none"]
  /\ pinned' = [pinned EXCEPT ![i] = None]
  /\ UNCHANGED <<defaults, hiveVars, core, brooded, failures, machineVars, settings>>

(***************************************************************************)
(* The machine.                                                            *)
(***************************************************************************)
ChangeMachine ==
  /\ changes < MaxChanges /\ changes' = changes + 1
  /\ machine' \in (SUBSET CoreIds) \ {{}, machine}
  /\ UNCHANGED <<defaults, hiveVars, poolVars, cores, settings>>

Refresh ==
  /\ \E list \in Established(cores, machine) : cores' \in Refreshed(list, machine)
  /\ UNCHANGED <<defaults, hiveVars, poolVars, machine, changes, settings>>

Next ==
  \/ SetDefaults \/ SetUp \/ AsBuilder \/ ChangeMachine \/ Refresh
  \/ \E c \in Clients : Build(c) \/ Enlarge(c) \/ BroodNext(c) \/ Brooded(c) \/ Close(c)
  \/ \E i \in Indices : GetCoreAffinity(i) \/ InitThread(i) \/ Panic(i) \/ Leave(i)

Spec == Init /\ [][Next]_vars

(***************************************************************************)
(* Properties.                                                             *)
(***************************************************************************)

\* Calls that enlarge the pool at the same time never brood the same thread index, and
\* when no call is under way every index up to the number of threads asked for, and no
\* other, has been brooded (add_threads and ensure_threads reserve what grow and
\* use_all_cores brood).
EveryIndexOnce ==
  /\ \A i \in Indices : brooded[i] <= 1
  /\ stage = "hive" /\ (\A c \in Clients : call[c] = "idle")
       => \A i \in Indices : brooded[i] = 1 <=> i < asked.threads

\* Whatever was set, in whatever order, and however often the hive was enlarged, made a
\* Husk and rebuilt, while other threads change the defaults: every setting that was
\* asked for is as it was asked for last (as_builder promises the same configuration),
\* the cores being those of the Builder and those added to them.
SettingsAsAsked == \A f \in DOMAIN asked : Effective(config)[f] = asked[f]

\* What the docs of max_retries and retry_factor say (builder.rs:469-470, 517-518): if
\* they are not specified, the default is used.
UnspecifiedIsDefault ==
  stage = "hive" =>
    \A f \in {"retries", "factor"} \ DOMAIN asked : Effective(config)[f] = Effective(defaults)[f]

\* What the doc of use_all_cores_with_affinity says (hive.rs:776-777): an attempt is made
\* to pin each thread to a different core, which takes that all cores are in the affinity.
CoresAreAdded ==
  [][\A c \in Clients :
       AddCoreAffinity(c, AllCores(machine), "all")
         => ToSet(AllCores(machine)) \subseteq AffinityOf(config')]_vars

\* No two threads are pinned to the same core, though each looks for its own when it
\* starts, the affinity grows and refresh updates the list of cores (the doc of CORES:
\* an index always means the same core).
DistinctCores ==
  \A i, j \in Indices : i # j /\ pinned[i] # None => pinned[i] # pinned[j]
================================================================================
