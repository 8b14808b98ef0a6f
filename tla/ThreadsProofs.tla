----------------------------- MODULE ThreadsProofs -----------------------------
(***************************************************************************)
(* For any number of clients, threads and cores, and any defaults:         *)
(* SettingsAsAsked, EveryIndexOnce and DistinctCores of Threads.  The      *)
(* first two are parts of the inductive invariant IInv, since what a       *)
(* client broods is what the number of threads was, and becomes, when it   *)
(* enlarges the pool; the third rests on PinInv: every thread has its      *)
(* place in the list of cores, and keeps it.                               *)
(***************************************************************************)
EXTENDS Threads, FiniteSetTheorems, TLAPS

Fields == {"num_threads", "max_retries", "retry_factor", "affinity"}
NumberFields == {"num_threads", "max_retries", "retry_factor"}
Options == {None} \cup {Some(n) : n \in Nat}
NumberCells == [sync : BOOLEAN, opt : Options]
OptValue(opt) == IF opt = None THEN 0 ELSE ValueOf(opt)

\* A list of core indices names none twice.
Lists == {a \in Seq(Nat) : IsInjective(a)}
AffinityOptions == {None} \cup {Some(a) : a \in Lists}
AffinityCells == [sync : BOOLEAN, opt : AffinityOptions]
Members(opt) == UNION {{l[k] : k \in DOMAIN l} : l \in opt}
HasAffinity(c) == DOMAIN c = Fields /\ c["affinity"] \in AffinityCells

IsConfig(c) == HasAffinity(c) /\ \A f \in NumberFields : c[f] \in NumberCells

\* The settings there are, and those of a configuration.
Settings == {"threads", "retries", "factor", "affinity"}
Four(t, r, f, a) == [threads |-> t, retries |-> r, factor |-> f, affinity |-> a]

\* The values are in their sets; no type is needed for the threads.
Typed ==
  /\ IsConfig(config) /\ IsConfig(defaults)
  /\ "threads" \in DOMAIN asked /\ DOMAIN asked \subseteq Settings
  /\ machine \in SUBSET CoreIds
  /\ stage \in {"builder", "hive", "error", "closed"}
  /\ call \in [Clients -> {"idle", "new", "failing", "brood", "grow", "all"}]
  /\ todo \in [Clients -> SUBSET Indices]
  /\ brooded \in [Indices -> {0, 1}]

\* A hive has a number of threads that can be changed, and so has it its affinity if it
\* was given one.
Adjustable ==
  /\ stage # "builder" => CanMutate(config["num_threads"]) /\ config["affinity"].sync
  /\ "affinity" \in DOMAIN asked => config["affinity"].opt # None

\* Who has indices to brood is in a call, and calls are made of hives.
AtWork ==
  /\ \A c \in Clients : todo[c] # {} => call[c] \in {"new", "failing", "brood"}
  /\ stage \in {"builder", "closed"} => \A c \in Clients : call[c] = "idle"

\* Every index below the number of threads was brooded, or one client has it to brood.
Reserved ==
  /\ stage = "builder" => \A i \in Indices : brooded[i] = 0
  /\ stage # "builder" =>
       \A i \in Indices :
         /\ i >= ThreadsOf(config) => brooded[i] = 0
         /\ i < ThreadsOf(config) => brooded[i] = 1 \/ \E c \in Clients : i \in todo[c]
         /\ \A c \in Clients : i \in todo[c] =>
              /\ i < ThreadsOf(config) /\ brooded[i] = 0
              /\ \A d \in Clients : i \in todo[d] => c = d

IInv == Typed /\ SettingsAsAsked /\ Adjustable /\ AtWork /\ Reserved

-----------------------------------------------------------------------------
(***************************************************************************)
(* Lists of cores.                                                         *)
(***************************************************************************)

\* An option that is set has the value it was set to.
LEMMA ValueOfSome == ASSUME NEW v PROVE ValueOf(Some(v)) = v /\ Some(v) # None
  BY DEF ValueOf, Some, None

LEMMA MembersOf ==
  /\ Members(None) = {}
  /\ \A a : Members(Some(a)) = ToSet(a)
  BY DEF Members, None, Some, ToSet

\* The positions that an affinity has are the same in a later one.
Continues(later, affinity) ==
  \A k \in DOMAIN affinity : k \in DOMAIN later /\ later[k] = affinity[k]

\* The orders in which the elements of a set may be listed.
LEMMA SeqsOf ==
  ASSUME NEW S, IsFiniteSet(S), NEW q \in SetToSeqs(S)
  PROVE  /\ q \in Seq(S)
         /\ Len(q) \in Nat /\ DOMAIN q = 1..Len(q)
         /\ \A j, k \in DOMAIN q : q[j] = q[k] => j = k
         /\ \A k \in DOMAIN q : q[k] \in S
         /\ ToSet(q) = S
  <1>1. Cardinality(S) \in Nat
    BY FS_CardinalityType
  <1>2. /\ q \in [1..Cardinality(S) -> S]
        /\ \A i, j \in 1..Cardinality(S) : i # j => q[i] # q[j]
    BY DEF SetToSeqs
  <1>3. q \in Seq(S)
    BY <1>1, <1>2
  <1>4. q \in Injection(1..Cardinality(S), S)
    BY <1>2 DEF Injection, IsInjective
  <1>5. Cardinality(1..Cardinality(S)) = Cardinality(S)
    BY <1>1, FS_Interval
  <1>6. q \in Surjection(1..Cardinality(S), S)
    BY <1>4, <1>5, FS_Injection
  <1>7. ToSet(q) = S
    BY <1>2, <1>6 DEF ToSet, Surjection
  <1> QED BY <1>2, <1>3, <1>7

\* Two lists after each other.
LEMMA Joined ==
  ASSUME NEW S, NEW s \in Seq(S), NEW t \in Seq(S)
  PROVE  /\ s \o t \in Seq(S)
         /\ \A k \in DOMAIN s : k \in DOMAIN (s \o t) /\ (s \o t)[k] = s[k]
         /\ \A k \in DOMAIN (s \o t) :
              \/ k \in DOMAIN s /\ (s \o t)[k] = s[k]
              \/ k \notin DOMAIN s /\ k - Len(s) \in DOMAIN t /\ (s \o t)[k] = t[k - Len(s)]
         /\ \A j, k \in DOMAIN (s \o t) : j - Len(s) = k - Len(s) => j = k
  OBVIOUS

\* A union has no index twice and begins with the first of the two.
LEMMA UnionsContinue ==
  ASSUME NEW a \in Lists, NEW b \in Lists, NEW u \in Unions(a, b)
  PROVE  u \in Lists /\ Continues(u, a) /\ ToSet(u) = ToSet(a) \cup ToSet(b)
  <1>1. PICK q \in SetToSeqs(ToSet(b) \ ToSet(a)) : u = a \o q
    BY DEF Unions
  <1>2. /\ a \in Seq(Nat) /\ b \in Seq(Nat) /\ IsInjective(a)
        /\ Len(b) \in Nat /\ DOMAIN b = 1..Len(b)
    BY DEF Lists
  <1>3. IsFiniteSet(ToSet(b) \ ToSet(a)) /\ ToSet(b) \ ToSet(a) \subseteq Nat
    <2>1. ToSet(b) = {b[k] : k \in 1..Len(b)}
      BY <1>2 DEF ToSet
    <2>2. IsFiniteSet(1..Len(b))
      BY <1>2, FS_Interval
    <2>3. b \in Surjection(1..Len(b), ToSet(b))
      BY <1>2, <2>1 DEF Surjection
    <2>4. IsFiniteSet(ToSet(b))
      BY <2>2, <2>3, FS_Surjection
    <2> QED BY <1>2, <2>1, <2>4, FS_Subset
  <1>4. /\ q \in Seq(Nat)
        /\ \A j, k \in DOMAIN q : q[j] = q[k] => j = k
        /\ \A k \in DOMAIN q : q[k] \notin ToSet(a)
    <2>1. /\ q \in Seq(ToSet(b) \ ToSet(a))
          /\ \A j, k \in DOMAIN q : q[j] = q[k] => j = k
          /\ \A k \in DOMAIN q : q[k] \in ToSet(b) \ ToSet(a)
      BY <1>3, SeqsOf
    <2> QED BY <1>3, <2>1
  <1>5. /\ u \in Seq(Nat)
        /\ \A k \in DOMAIN a : k \in DOMAIN u /\ u[k] = a[k] /\ a[k] \in ToSet(a)
        /\ \A k \in DOMAIN u :
             \/ k \in DOMAIN a /\ u[k] = a[k]
             \/ k \notin DOMAIN a /\ k - Len(a) \in DOMAIN q /\ u[k] = q[k - Len(a)]
        /\ \A j, k \in DOMAIN u : j - Len(a) = k - Len(a) => j = k
    BY <1>1, <1>2, <1>4, Joined DEF ToSet
  <1>6. ASSUME NEW j \in DOMAIN u, NEW k \in DOMAIN u, u[j] = u[k] PROVE j = k
    <2>1. CASE j \in DOMAIN a /\ k \in DOMAIN a
      BY <1>2, <1>5, <1>6, <2>1 DEF IsInjective
    <2>2. CASE j \notin DOMAIN a /\ k \notin DOMAIN a
      BY <1>4, <1>5, <1>6, <2>2
    <2>3. CASE j \in DOMAIN a /\ k \notin DOMAIN a
      BY <1>4, <1>5, <1>6, <2>3
    <2>4. CASE j \notin DOMAIN a /\ k \in DOMAIN a
      BY <1>4, <1>5, <1>6, <2>4
    <2> QED BY <2>1, <2>2, <2>3, <2>4
  <1>7. ToSet(u) = ToSet(a) \cup ToSet(b)
    <2>1. ToSet(u) = ToSet(a) \cup ToSet(q)
      <3>1. \A k \in DOMAIN q : k + Len(a) \in DOMAIN u /\ u[k + Len(a)] = q[k]
        BY <1>1, <1>2, <1>4
      <3>2. ToSet(a) \cup ToSet(q) \subseteq ToSet(u)
        BY <1>5, <3>1 DEF ToSet
      <3> QED BY <1>5, <3>2 DEF ToSet
    <2>2. ToSet(q) = ToSet(b) \ ToSet(a)
      BY <1>3, SeqsOf
    <2> QED BY <2>1, <2>2
  <1> QED BY <1>5, <1>6, <1>7 DEF Lists, IsInjective, Continues

LEMMA MachineSize == ASSUME Typed PROVE Cardinality(machine) \in Nat
  <1>1. machine \subseteq CoreIds /\ IsFiniteSet(CoreIds)
    BY ThreadsAssumption DEF Typed
  <1>2. IsFiniteSet(machine)
    BY <1>1, FS_Subset
  <1> QED BY <1>2, FS_CardinalityType

LEMMA AllCoresListed == ASSUME Typed PROVE AllCores(machine) \in Lists
  <1>1. Cardinality(machine) \in Nat
    BY MachineSize
  <1>2. \A k \in 1..Cardinality(machine) : k - 1 \in Nat
    BY <1>1
  <1>3. AllCores(machine) \in Seq(Nat)
    BY <1>1, <1>2 DEF AllCores
  <1> QED BY <1>1, <1>3 DEF AllCores, Lists, IsInjective

-----------------------------------------------------------------------------
(***************************************************************************)
(* Cells and configurations.                                               *)
(***************************************************************************)

\* The number an option stands for, with zero for none.
LEMMA OptValues ==
  /\ OptValue(None) = 0
  /\ \A n \in Nat : OptValue(Some(n)) = n /\ OptValue(NonZero(n)) = n
  /\ \A n \in Nat : Some(n) \in Options /\ NonZero(n) \in Options
  /\ \A o \in Options : OptValue(o) \in Nat
  BY ValueOfSome DEF OptValue, NonZero, Options

\* What the settings of a configuration come to.
LEMMA EffectiveOf ==
  ASSUME NEW c, IsConfig(c)
  PROVE  /\ Effective(c) = Four(OptValue(c["num_threads"].opt), OptValue(c["max_retries"].opt),
                               c["retry_factor"].opt, Members(c["affinity"].opt))
         /\ ThreadsOf(c) = OptValue(c["num_threads"].opt)
         /\ RetriesOf(c) = OptValue(c["max_retries"].opt)
         /\ FactorOf(c) = c["retry_factor"].opt
         /\ AffinityOf(c) = Members(c["affinity"].opt)
         /\ \A f \in NumberFields : c[f].opt \in Options
         /\ c["affinity"].opt \in AffinityOptions
         /\ ThreadsOf(c) \in Nat
  <1>1. /\ ThreadsOf(c) = OptValue(c["num_threads"].opt)
        /\ RetriesOf(c) = OptValue(c["max_retries"].opt)
        /\ FactorOf(c) = c["retry_factor"].opt
        /\ AffinityOf(c) = Members(c["affinity"].opt)
    BY DEF ThreadsOf, RetriesOf, FactorOf, AffinityOf, GetOrDefault, Get, OptValue, Members
  <1>2. \A f \in NumberFields : c[f].opt \in Options
    BY DEF IsConfig, NumberCells
  <1>3. OptValue(c["num_threads"].opt) \in Nat
    BY <1>2, OptValues DEF NumberFields
  <1>4. c["affinity"].opt \in AffinityOptions
    BY DEF IsConfig, HasAffinity, AffinityCells
  <1> QED BY <1>1, <1>2, <1>3, <1>4 DEF Effective, Four

LEMMA FourFields ==
  ASSUME NEW t, NEW r, NEW f, NEW a
  PROVE  /\ DOMAIN Four(t, r, f, a) = Settings
         /\ Four(t, r, f, a)["threads"] = t /\ Four(t, r, f, a)["retries"] = r
         /\ Four(t, r, f, a)["factor"] = f /\ Four(t, r, f, a)["affinity"] = a
  BY DEF Four, Settings

\* Setting one field of a configuration leaves the others alone.
LEMMA WithField ==
  ASSUME NEW c, IsConfig(c), NEW f \in Fields, NEW opt,
         f \in NumberFields => opt \in Options, f = "affinity" => opt \in AffinityOptions
  PROVE  /\ IsConfig(With(c, f, opt))
         /\ \A g \in Fields : With(c, f, opt)[g].opt = IF g = f THEN opt ELSE c[g].opt
  <1>1. /\ DOMAIN With(c, f, opt) = Fields
        /\ \A g \in Fields : With(c, f, opt)[g] = IF g = f THEN Set(c[g], opt) ELSE c[g]
    BY DEF With, IsConfig, HasAffinity
  <1>2. \A cell \in NumberCells \cup AffinityCells : Set(cell, opt).opt = opt
    BY DEF Set, NumberCells, AffinityCells
  <1>3. \A g \in Fields : c[g] \in NumberCells \cup AffinityCells
    BY DEF IsConfig, HasAffinity, Fields, NumberFields
  <1>4. \A g \in NumberFields : With(c, f, opt)[g] \in NumberCells
    <2>1. ASSUME NEW g \in NumberFields PROVE With(c, f, opt)[g] \in NumberCells
      <3>1. g \in Fields /\ c[g] \in NumberCells
        BY DEF Fields, NumberFields, IsConfig
      <3>2. g = f => Set(c[g], opt) \in NumberCells
        BY <3>1 DEF Set, NumberCells
      <3> QED BY <1>1, <3>1, <3>2
    <2> QED BY <2>1
  <1>5. With(c, f, opt)["affinity"] \in AffinityCells
    <2>1. "affinity" \in Fields /\ c["affinity"] \in AffinityCells
      BY DEF Fields, IsConfig, HasAffinity
    <2>2. f = "affinity" => Set(c["affinity"], opt) \in AffinityCells
      BY <2>1 DEF Set, AffinityCells
    <2> QED BY <1>1, <2>1, <2>2
  <1> QED BY <1>1, <1>2, <1>3, <1>4, <1>5 DEF IsConfig, HasAffinity

\* What a configuration comes to when one of its fields is set.
LEMMA EffectiveWith ==
  ASSUME NEW c, IsConfig(c), NEW opt \in Options
  PROVE  /\ IsConfig(With(c, "num_threads", opt))
         /\ IsConfig(With(c, "max_retries", opt))
         /\ IsConfig(With(c, "retry_factor", opt))
         /\ Effective(With(c, "num_threads", opt))
              = Four(OptValue(opt), RetriesOf(c), FactorOf(c), AffinityOf(c))
         /\ Effective(With(c, "max_retries", opt))
              = Four(ThreadsOf(c), OptValue(opt), FactorOf(c), AffinityOf(c))
         /\ Effective(With(c, "retry_factor", opt))
              = Four(ThreadsOf(c), RetriesOf(c), opt, AffinityOf(c))
  <1>1. ASSUME NEW f \in NumberFields
        PROVE  /\ IsConfig(With(c, f, opt))
               /\ \A g \in Fields : With(c, f, opt)[g].opt = IF g = f THEN opt ELSE c[g].opt
    <2>1. f \in Fields /\ f # "affinity"
      BY DEF Fields, NumberFields
    <2> QED BY <2>1, WithField
  <1>2. ASSUME NEW f \in NumberFields
        PROVE  Effective(With(c, f, opt))
                 = Four(OptValue(With(c, f, opt)["num_threads"].opt),
                        OptValue(With(c, f, opt)["max_retries"].opt),
                        With(c, f, opt)["retry_factor"].opt,
                        Members(With(c, f, opt)["affinity"].opt))
    BY <1>1, EffectiveOf
  <1>3. /\ ThreadsOf(c) = OptValue(c["num_threads"].opt)
        /\ RetriesOf(c) = OptValue(c["max_retries"].opt)
        /\ FactorOf(c) = c["retry_factor"].opt
        /\ AffinityOf(c) = Members(c["affinity"].opt)
    BY EffectiveOf
  <1> QED BY <1>1, <1>2, <1>3 DEF NumberFields, Fields

LEMMA EffectiveAffinity ==
  ASSUME NEW c, IsConfig(c), NEW opt \in AffinityOptions
  PROVE  /\ IsConfig(With(c, "affinity", opt))
         /\ With(c, "affinity", opt)["affinity"].opt = opt
         /\ Effective(With(c, "affinity", opt))
              = Four(ThreadsOf(c), RetriesOf(c), FactorOf(c), Members(opt))
  <1>1. "affinity" \in Fields /\ "affinity" \notin NumberFields
    BY DEF Fields, NumberFields
  <1>2. /\ IsConfig(With(c, "affinity", opt))
        /\ \A g \in Fields : With(c, "affinity", opt)[g].opt
                               = IF g = "affinity" THEN opt ELSE c[g].opt
    BY <1>1, WithField
  <1> QED BY <1>2, EffectiveOf DEF Fields

\* The constants the defaults are reset to.
LEMMA ConstDefaults ==
  ASSUME NEW c, IsConfig(c)
  PROVE  /\ IsConfig(WithConstDefaults(c))
         /\ Effective(WithConstDefaults(c))
              = Four(DefaultThreads, DefaultRetries, Some(DefaultFactor), AffinityOf(c))
         /\ WithConstDefaults(c)["affinity"].opt = c["affinity"].opt
  <1> DEFINE one == With(c, "num_threads", Some(DefaultThreads))
  <1> DEFINE two == With(one, "max_retries", Some(DefaultRetries))
  <1> DEFINE three == With(two, "retry_factor", Some(DefaultFactor))
  <1>1. /\ DefaultThreads \in Nat /\ DefaultRetries \in Nat /\ DefaultFactor \in Nat
        /\ \A n \in Nat : Some(n) \in Options /\ OptValue(Some(n)) = n
    BY ConfigAssumption, OptValues
  <1>2. ASSUME NEW d, IsConfig(d), NEW f \in NumberFields, NEW opt \in Options
        PROVE  With(d, f, opt)["affinity"].opt = d["affinity"].opt
    BY <1>2, WithField DEF Fields, NumberFields
  <1>3. /\ IsConfig(one) /\ one["affinity"].opt = c["affinity"].opt
        /\ Effective(one) = Four(DefaultThreads, RetriesOf(c), FactorOf(c), AffinityOf(c))
    BY <1>1, <1>2, EffectiveWith DEF NumberFields
  <1> HIDE DEF one
  <1>4. /\ IsConfig(two) /\ two["affinity"].opt = one["affinity"].opt
        /\ Effective(two) = Four(ThreadsOf(one), DefaultRetries, FactorOf(one), AffinityOf(one))
    BY <1>1, <1>2, <1>3, EffectiveWith DEF NumberFields
  <1> HIDE DEF two
  <1>5. /\ IsConfig(three) /\ three["affinity"].opt = two["affinity"].opt
        /\ Effective(three)
             = Four(ThreadsOf(two), RetriesOf(two), Some(DefaultFactor), AffinityOf(two))
    BY <1>1, <1>2, <1>4, EffectiveWith DEF NumberFields
  <1>6. /\ \A d : /\ ThreadsOf(d) = Effective(d)["threads"]
                  /\ RetriesOf(d) = Effective(d)["retries"]
                  /\ AffinityOf(d) = Effective(d)["affinity"]
    BY DEF Effective
  <1>7. ThreadsOf(one) = DefaultThreads /\ AffinityOf(one) = AffinityOf(c)
    BY <1>3, <1>6, FourFields
  <1>8. /\ ThreadsOf(two) = DefaultThreads /\ RetriesOf(two) = DefaultRetries
        /\ AffinityOf(two) = AffinityOf(c)
    BY <1>4, <1>6, <1>7, FourFields
  <1>9. WithConstDefaults(c) = three
    BY DEF WithConstDefaults, WithRetryConstDefaults, one, two
  <1> HIDE DEF three
  <1> QED BY <1>3, <1>4, <1>5, <1>8, <1>9

LEMMA EmptyConfig ==
  /\ IsConfig(Empty)
  /\ ThreadsOf(Empty) = 0 /\ AffinityOf(Empty) = {} /\ Empty["affinity"].opt = None
  <1>1. Empty["affinity"].opt = None /\ Empty["num_threads"].opt = None
    BY DEF Empty, Unsync
  <1>2. IsConfig(Empty)
    BY DEF IsConfig, HasAffinity, Empty, Unsync, Fields, NumberFields, NumberCells, Options,
           AffinityCells, AffinityOptions
  <1> QED BY <1>1, <1>2, EffectiveOf, OptValues, MembersOf

\* Building a hive keeps the settings, and gives it a number of threads.
LEMMA IntoSyncKeeps ==
  ASSUME NEW c, IsConfig(c)
  PROVE  /\ IsConfig(ConfigIntoSync(c))
         /\ Effective(ConfigIntoSync(c)) = Effective(c)
         /\ ThreadsOf(ConfigIntoSync(c)) = ThreadsOf(c)
         /\ CanMutate(ConfigIntoSync(c)["num_threads"])
         /\ ConfigIntoSync(c)["affinity"].sync
         /\ ConfigIntoSync(c)["affinity"].opt = c["affinity"].opt
  <1> DEFINE s == ConfigIntoSync(c)
  <1> DEFINE n == OptValue(c["num_threads"].opt)
  <1>1. /\ n \in Nat
        /\ GetOrDefault(c["num_threads"], 0) = n
        /\ c["max_retries"].opt \in Options /\ c["retry_factor"].opt \in Options
        /\ c["affinity"].opt \in AffinityOptions
    BY EffectiveOf DEF NumberFields, ThreadsOf
  <1>2. /\ DOMAIN s = Fields
        /\ s["num_threads"] = Sync(Some(n))
        /\ s["max_retries"] = Sync(c["max_retries"].opt)
        /\ s["retry_factor"] = Sync(c["retry_factor"].opt)
        /\ s["affinity"] = Sync(c["affinity"].opt)
    BY <1>1 DEF ConfigIntoSync, IntoSyncDefault, IntoSync, IsConfig, HasAffinity, Fields
  <1>3. /\ \A o \in Options : Sync(o) \in NumberCells
        /\ \A o \in AffinityOptions : Sync(o) \in AffinityCells
        /\ \A o : Sync(o).opt = o /\ Sync(o).sync
    BY DEF Sync, NumberCells, AffinityCells
  <1>4. Some(n) \in Options /\ OptValue(Some(n)) = n /\ Some(n) # None
    BY <1>1, OptValues, ValueOfSome
  <1>5. IsConfig(s)
    BY <1>1, <1>2, <1>3, <1>4 DEF IsConfig, HasAffinity, NumberFields
  <1>6. Effective(s) = Effective(c) /\ ThreadsOf(s) = ThreadsOf(c)
    BY <1>1, <1>2, <1>3, <1>4, <1>5, EffectiveOf
  <1>7. CanMutate(s["num_threads"])
    BY <1>2, <1>3, <1>4 DEF CanMutate
  <1> QED BY <1>2, <1>3, <1>5, <1>6, <1>7

\* So does a Husk.
LEMMA IntoUnsyncKeeps ==
  ASSUME NEW c, IsConfig(c)
  PROVE  /\ IsConfig(ConfigIntoUnsync(c))
         /\ Effective(ConfigIntoUnsync(c)) = Effective(c)
         /\ ConfigIntoUnsync(c)["affinity"].opt = c["affinity"].opt
  <1> DEFINE u == ConfigIntoUnsync(c)
  <1>1. /\ DOMAIN u = Fields
        /\ \A f \in Fields : u[f] = Unsync(c[f].opt)
    BY DEF ConfigIntoUnsync, IntoUnsync, IsConfig, HasAffinity
  <1>2. /\ \A f \in NumberFields : f \in Fields /\ c[f].opt \in Options
        /\ "affinity" \in Fields /\ c["affinity"].opt \in AffinityOptions
    BY EffectiveOf DEF Fields, NumberFields
  <1>3. /\ \A o \in Options : Unsync(o) \in NumberCells
        /\ \A o \in AffinityOptions : Unsync(o) \in AffinityCells
        /\ \A o : Unsync(o).opt = o
    BY DEF Unsync, NumberCells, AffinityCells
  <1>4. IsConfig(u) /\ \A f \in Fields : u[f].opt = c[f].opt
    BY <1>1, <1>2, <1>3 DEF IsConfig, HasAffinity
  <1>5. Effective(u) = Effective(c)
    BY <1>4, EffectiveOf DEF Fields
  <1> QED BY <1>2, <1>4, <1>5

-----------------------------------------------------------------------------
(***************************************************************************)
(* The number of threads of a hive.                                        *)
(***************************************************************************)

\* To update a cell that is set and shared is to set it to what the function says.
LEMMA UpdateCell ==
  ASSUME NEW cell \in NumberCells, CanMutate(cell), NEW n \in Nat
  PROVE  /\ OptValue(cell.opt) \in Nat
         /\ AddTo(cell, n) = Sync(Some(OptValue(cell.opt) + n))
         /\ SetMax(cell, n) = Sync(Some(Larger(OptValue(cell.opt), n)))
  <1>1. cell.opt \in Options /\ cell.opt # None
    BY DEF NumberCells, CanMutate
  <1>2. PICK v \in Nat : cell.opt = Some(v)
    BY <1>1 DEF Options
  <1>3. ValueOf(cell.opt) = v /\ OptValue(cell.opt) = v
    BY <1>2, ValueOfSome, OptValues
  <1>4. Some(v + n) # None /\ ValueOf(Some(v + n)) = v + n
    BY ValueOfSome
  <1>5. AddTo(cell, n) = Sync(Some(v + n))
    BY <1>3, <1>4 DEF AddTo, UpdateWith, SetWith
  <1>6. Some(n) # None /\ ValueOf(Some(n)) = n
    BY ValueOfSome
  <1>7. SetMax(cell, n) = Sync(Some(Larger(v, n)))
    <2>1. CASE v < n
      BY <1>3, <1>6, <2>1 DEF SetMax, UpdateWith, SetWith, Larger
    <2>2. CASE ~(v < n)
      BY <1>3, <2>2 DEF SetMax, UpdateWith, SetWith, Larger, None
    <2> QED BY <2>1, <2>2
  <1> QED BY <1>3, <1>5, <1>7

LEMMA NewNumber ==
  ASSUME NEW c, IsConfig(c), NEW n \in Nat, NEW d,
         d = [c EXCEPT !["num_threads"] = Sync(Some(n))]
  PROVE  /\ IsConfig(d)
         /\ Effective(d) = Four(n, RetriesOf(c), FactorOf(c), AffinityOf(c))
         /\ ThreadsOf(d) = n
         /\ CanMutate(d["num_threads"]) /\ d["affinity"] = c["affinity"]
  <1>1. /\ DOMAIN d = Fields
        /\ d["num_threads"] = Sync(Some(n))
        /\ d["max_retries"] = c["max_retries"] /\ d["retry_factor"] = c["retry_factor"]
        /\ d["affinity"] = c["affinity"]
    BY DEF IsConfig, HasAffinity, Fields
  <1>2. Some(n) \in Options /\ OptValue(Some(n)) = n /\ Some(n) # None
    BY OptValues, ValueOfSome
  <1>3. Sync(Some(n)) \in NumberCells /\ Sync(Some(n)).opt = Some(n) /\ Sync(Some(n)).sync
    BY <1>2 DEF Sync, NumberCells
  <1>4. IsConfig(d)
    BY <1>1, <1>3 DEF IsConfig, HasAffinity, NumberFields
  <1>5. Effective(d) = Four(n, RetriesOf(c), FactorOf(c), AffinityOf(c)) /\ ThreadsOf(d) = n
    BY <1>1, <1>2, <1>3, <1>4, EffectiveOf
  <1> QED BY <1>1, <1>2, <1>3, <1>4, <1>5 DEF CanMutate

-----------------------------------------------------------------------------
(***************************************************************************)
(* The initial states, and the actions that concern neither the settings   *)
(* nor what there is to brood.                                             *)
(***************************************************************************)

\* The settings asked for, one by one.
LEMMA AskedAreKept ==
  ASSUME IInv
  PROVE  /\ asked.threads = ThreadsOf(config) /\ asked.threads \in Nat
         /\ "affinity" \in DOMAIN asked => asked.affinity = AffinityOf(config)
  <1>1. /\ Effective(config).threads = ThreadsOf(config)
        /\ Effective(config).affinity = AffinityOf(config)
    BY DEF Effective
  <1>2. IsConfig(config) /\ "threads" \in DOMAIN asked
        /\ \A f \in DOMAIN asked : Effective(config)[f] = asked[f]
    BY DEF IInv, Typed, SettingsAsAsked
  <1> QED BY <1>1, <1>2, EffectiveOf

LEMMA InitEstablishesIInv == Init => IInv
<1> SUFFICES ASSUME Init PROVE IInv
  OBVIOUS
<1>1. IsConfig(defaults) /\ IsConfig(config)
  BY EmptyConfig, ConstDefaults DEF Init
<1>2. Typed
  BY <1>1, ThreadsAssumption
  DEF Init, NewPool, Typed, Unconfigured, Defaults, Settings
<1>3. SettingsAsAsked
  <2>1. CASE config = Empty /\ asked = Unconfigured
    BY <2>1, EmptyConfig DEF SettingsAsAsked, Unconfigured, Effective
  <2>2. CASE config = defaults /\ asked = Defaults
    <3>1. Effective(config)
            = Four(DefaultThreads, DefaultRetries, Some(DefaultFactor), AffinityOf(Empty))
      BY <2>2, EmptyConfig, ConstDefaults DEF Init
    <3> QED BY <2>2, <3>1 DEF SettingsAsAsked, Defaults, Four
  <2> QED BY <2>1, <2>2 DEF Init
<1>4. Adjustable /\ AtWork /\ Reserved
  BY DEF Init, NewPool, Adjustable, AtWork, Reserved, Unconfigured, Defaults
<1> QED BY <1>2, <1>3, <1>4 DEF IInv

\* What the invariant speaks of, but for the machine.
held == <<defaults, config, stage, call, todo, asked, brooded>>

LEMMA HeldPreservesIInv ==
  ASSUME IInv, UNCHANGED held, machine' \in SUBSET CoreIds PROVE IInv'
  BY DEF IInv, held, Typed, SettingsAsAsked, Adjustable, AtWork, Reserved

LEMMA AsidePreservesIInv ==
  ASSUME IInv,
         \/ ChangeMachine \/ Refresh
         \/ \E i \in Indices : GetCoreAffinity(i) \/ InitThread(i) \/ Panic(i) \/ Leave(i)
         \/ UNCHANGED vars
  PROVE  IInv'
<1>1. UNCHANGED held /\ machine' \in SUBSET CoreIds
  BY DEF IInv, Typed, held, ChangeMachine, Refresh, GetCoreAffinity, InitThread, Panic,
         Leave, vars, hiveVars, poolVars, machineVars
<1> QED BY <1>1, HeldPreservesIInv

-----------------------------------------------------------------------------
(***************************************************************************)
(* The settings.                                                           *)
(***************************************************************************)
LEMMA SetDefaultsPreservesIInv == ASSUME IInv, SetDefaults PROVE IInv'
<1>1. ASSUME NEW new, IsConfig(new), ChangeDefaults(new) PROVE IInv'
  BY <1>1 DEF ChangeDefaults, hiveVars, poolVars, machineVars, IInv, Typed,
              SettingsAsAsked, Adjustable, AtWork, Reserved
<1>2. IsConfig(defaults) /\ Cardinality(machine) \in Nat
  BY MachineSize DEF IInv, Typed
<1>3. \A n \in Nat : /\ IsConfig(With(defaults, "num_threads", Some(n)))
                     /\ IsConfig(With(defaults, "max_retries", Some(n)))
                     /\ IsConfig(With(defaults, "retry_factor", Some(n)))
  BY <1>2, EffectiveWith, OptValues
<1>4. IsConfig(WithConstDefaults(defaults))
  BY <1>2, ConstDefaults
<1> QED BY <1>1, <1>2, <1>3, <1>4, ThreadsAssumption
        DEF SetDefaults, SetNumThreadsDefault, SetRetryDefaults, ResetDefaults

\* What is wanted is what the new configuration comes to; the other settings are kept.
Meets(new, wanted) ==
  /\ IsConfig(new) /\ DOMAIN wanted \subseteq Settings
  /\ \A f \in Settings :
       Effective(new)[f] = IF f \in DOMAIN wanted THEN wanted[f] ELSE Effective(config)[f]
  /\ "affinity" \in DOMAIN wanted \cup DOMAIN asked => new["affinity"].opt # None

LEMMA ConfigurePreservesIInv ==
  ASSUME IInv, NEW new, NEW wanted, Configure(new, wanted), Meets(new, wanted)
  PROVE  IInv'
<1>1. /\ config' = new /\ stage = "builder"
      /\ UNCHANGED <<defaults, stage, call, todo, brooded, machine>>
      /\ DOMAIN asked' = DOMAIN asked \cup DOMAIN wanted
      /\ \A f \in DOMAIN asked' :
           asked'[f] = IF f \in DOMAIN wanted THEN wanted[f] ELSE asked[f]
  BY DEF Configure, poolVars, machineVars
<1>2. Typed'
  BY <1>1 DEF IInv, Typed, Meets
<1>3. SettingsAsAsked'
  <2>1. ASSUME NEW f \in DOMAIN asked' PROVE Effective(new)[f] = asked'[f]
    <3>1. f \in Settings
      BY <1>1 DEF IInv, Typed, Meets
    <3>2. f \notin DOMAIN wanted => Effective(config)[f] = asked[f]
      BY <1>1 DEF IInv, SettingsAsAsked
    <3> QED BY <1>1, <3>1, <3>2 DEF Meets
  <2> QED BY <1>1, <2>1 DEF SettingsAsAsked
<1>4. Adjustable' /\ AtWork'
  BY <1>1 DEF IInv, Adjustable, AtWork, Meets
<1>5. Reserved'
  BY <1>1 DEF IInv, Reserved
<1> QED BY <1>2, <1>3, <1>4, <1>5 DEF IInv

LEMMA SetUpPreservesIInv == ASSUME IInv, SetUp PROVE IInv'
<1>1. /\ IsConfig(config) /\ IsConfig(defaults) /\ Cardinality(machine) \in Nat
      /\ "affinity" \in DOMAIN asked => config["affinity"].opt # None
      /\ Effective(config)
           = Four(ThreadsOf(config), RetriesOf(config), FactorOf(config), AffinityOf(config))
  BY MachineSize DEF IInv, Typed, Adjustable, Effective, Four
<1>2. \A n \in Nat : /\ Some(n) \in Options /\ OptValue(Some(n)) = n
                     /\ NonZero(n) \in Options /\ OptValue(NonZero(n)) = n
  BY OptValues
<1>3. \A f \in NumberFields : \A opt \in Options :
        With(config, f, opt)["affinity"].opt = config["affinity"].opt
  BY <1>1, WithField DEF Fields, NumberFields
\* One number is set.
<1>4. ASSUME NEW opt \in Options
      PROVE  /\ Meets(With(config, "num_threads", opt), [threads |-> OptValue(opt)])
             /\ Meets(With(config, "max_retries", opt), [retries |-> OptValue(opt)])
             /\ Meets(With(config, "retry_factor", opt), [factor |-> opt])
  <2>1. /\ With(config, "num_threads", opt)["affinity"].opt = config["affinity"].opt
        /\ With(config, "max_retries", opt)["affinity"].opt = config["affinity"].opt
        /\ With(config, "retry_factor", opt)["affinity"].opt = config["affinity"].opt
    BY <1>3 DEF NumberFields
  <2>2. /\ IsConfig(With(config, "num_threads", opt))
        /\ Effective(With(config, "num_threads", opt))
             = Four(OptValue(opt), RetriesOf(config), FactorOf(config), AffinityOf(config))
    BY <1>1, EffectiveWith
  <2>3. /\ IsConfig(With(config, "max_retries", opt))
        /\ Effective(With(config, "max_retries", opt))
             = Four(ThreadsOf(config), OptValue(opt), FactorOf(config), AffinityOf(config))
    BY <1>1, EffectiveWith
  <2>4. /\ IsConfig(With(config, "retry_factor", opt))
        /\ Effective(With(config, "retry_factor", opt))
             = Four(ThreadsOf(config), RetriesOf(config), opt, AffinityOf(config))
    BY <1>1, EffectiveWith
  <2>5. Meets(With(config, "num_threads", opt), [threads |-> OptValue(opt)])
    BY <1>1, <2>1, <2>2 DEF Meets, Settings, Four
  <2>6. Meets(With(config, "max_retries", opt), [retries |-> OptValue(opt)])
    BY <1>1, <2>1, <2>3 DEF Meets, Settings, Four
  <2>7. Meets(With(config, "retry_factor", opt), [factor |-> opt])
    BY <1>1, <2>1, <2>4 DEF Meets, Settings, Four
  <2> QED BY <2>5, <2>6, <2>7
\* Both of the numbers about retries are.
<1>5. ASSUME NEW max \in Options, NEW factor \in Options
      PROVE  Meets(With(With(config, "max_retries", max), "retry_factor", factor),
                   [retries |-> OptValue(max), factor |-> factor])
  <2> DEFINE once == With(config, "max_retries", max)
  <2>1. /\ IsConfig(once) /\ once["affinity"].opt = config["affinity"].opt
        /\ Effective(once)
             = Four(ThreadsOf(config), OptValue(max), FactorOf(config), AffinityOf(config))
    BY <1>1, <1>3, EffectiveWith DEF NumberFields
  <2> HIDE DEF once
  <2>2. /\ ThreadsOf(once) = ThreadsOf(config) /\ RetriesOf(once) = OptValue(max)
        /\ AffinityOf(once) = AffinityOf(config)
    <3>1. /\ ThreadsOf(once) = Effective(once).threads /\ RetriesOf(once) = Effective(once).retries
          /\ AffinityOf(once) = Effective(once).affinity
      BY DEF Effective
    <3> QED BY <2>1, <3>1, FourFields
  <2>3. /\ IsConfig(With(once, "retry_factor", factor))
        /\ Effective(With(once, "retry_factor", factor))
             = Four(ThreadsOf(config), OptValue(max), factor, AffinityOf(config))
    BY <2>1, <2>2, EffectiveWith
  <2>4. With(once, "retry_factor", factor)["affinity"].opt = config["affinity"].opt
    BY <2>1, WithField DEF Fields, NumberFields
  <2>5. Meets(With(once, "retry_factor", factor), [retries |-> OptValue(max), factor |-> factor])
    BY <1>1, <2>3, <2>4 DEF Meets, Settings, Four
  <2> QED BY <2>5 DEF once
<1>6. ASSUME NEW n \in Nat, NumThreads(n) \/ BuilderMaxRetries(n) \/ BuilderRetryFactor(n)
      PROVE  IInv'
  <2>1. /\ Meets(With(config, "num_threads", Some(n)), [threads |-> n])
        /\ Meets(WithMaxRetries(config, n), [retries |-> n])
        /\ Meets(WithRetryFactor(config, n), [factor |-> NonZero(n)])
    BY <1>2, <1>4 DEF WithMaxRetries, WithRetryFactor
  <2> QED BY <1>6, <2>1, ConfigurePreservesIInv
          DEF NumThreads, BuilderMaxRetries, BuilderRetryFactor
<1>7. /\ Get(defaults["num_threads"]) \in Options
      /\ Get(defaults["max_retries"]) \in Options /\ Get(defaults["retry_factor"]) \in Options
      /\ OptValue(Get(defaults["num_threads"])) = ThreadsOf(defaults)
      /\ OptValue(Get(defaults["max_retries"])) = RetriesOf(defaults)
      /\ Get(defaults["retry_factor"]) = FactorOf(defaults)
  BY <1>1, EffectiveOf DEF Get, NumberFields
<1>8. ASSUME DefaultNumThreads PROVE IInv'
  <2>1. Meets(WithDefaultNumThreads(config, defaults), [threads |-> ThreadsOf(defaults)])
    BY <1>4, <1>7 DEF WithDefaultNumThreads
  <2> QED BY <1>8, <2>1, ConfigurePreservesIInv DEF DefaultNumThreads
<1>9. ASSUME DefaultRetrySettings PROVE IInv'
  <2>1. Meets(WithDefaultRetries(config, defaults),
              [retries |-> RetriesOf(defaults), factor |-> FactorOf(defaults)])
    BY <1>5, <1>7 DEF WithDefaultRetries
  <2> QED BY <1>9, <2>1, ConfigurePreservesIInv DEF DefaultRetrySettings
<1>10. ASSUME NoRetries PROVE IInv'
  <2>1. NonZero(0) \in Options /\ OptValue(NonZero(0)) = 0 /\ NonZero(0) = None
    BY <1>2 DEF NonZero
  <2>2. Meets(WithNoRetries(config), [retries |-> 0, factor |-> None])
    BY <1>5, <2>1 DEF WithNoRetries, WithMaxRetries, WithRetryFactor
  <2> QED BY <1>10, <2>2, ConfigurePreservesIInv DEF NoRetries
<1>11. ASSUME NEW a \in Affinities \cup {AllCores(machine)}, ThreadAffinity(a) PROVE IInv'
  <2> DEFINE new == With(config, "affinity", Some(a))
  <2>1. Some(a) \in AffinityOptions
    BY AllCoresListed, ThreadsAssumption DEF IInv, Lists, AffinityOptions
  <2>2. /\ IsConfig(new) /\ new["affinity"].opt = Some(a)
        /\ Effective(new)
             = Four(ThreadsOf(config), RetriesOf(config), FactorOf(config), ToSet(a))
    BY <1>1, <2>1, EffectiveAffinity, MembersOf
  <2>3. Meets(new, [affinity |-> ToSet(a)])
    BY <1>1, <2>2, ValueOfSome DEF Meets, Settings, Four
  <2> QED BY <1>11, <2>3, ConfigurePreservesIInv DEF ThreadAffinity
<1>12. Numbers \subseteq Nat
  BY ThreadsAssumption
<1> QED BY <1>1, <1>6, <1>8, <1>9, <1>10, <1>11, <1>12 DEF SetUp

-----------------------------------------------------------------------------
(***************************************************************************)
(* Building, enlarging and dismantling the pool.                           *)
(***************************************************************************)
LEMMA BuildPreservesIInv == ASSUME IInv, NEW c \in Clients, Build(c) PROVE IInv'
<1> DEFINE n == ThreadsOf(config)
<1>1. /\ IsConfig(config') /\ Effective(config') = Effective(config) /\ ThreadsOf(config') = n
      /\ CanMutate(config'["num_threads"]) /\ config'["affinity"].sync
      /\ config'["affinity"].opt = config["affinity"].opt
  BY IntoSyncKeeps DEF Build, IInv, Typed
<1>2. n \in Nat
  BY EffectiveOf DEF IInv, Typed
<1>3. /\ stage' = "hive"
      /\ UNCHANGED <<asked, brooded, defaults, machine>>
      /\ call' = [call EXCEPT ![c] = "new"]
      /\ todo' = [todo EXCEPT ![c] = Range0(0, n)]
  BY DEF Build, Brood, poolVars, machineVars
<1>4. /\ \A d \in Clients : todo[d] = {}
      /\ \A i \in Indices : brooded[i] = 0
  BY DEF Build, IInv, AtWork, Reserved
<1> HIDE DEF n
<1>5. \A i \in Indices : i \in Range0(0, n) <=> i < n
  BY <1>2 DEF Range0, Indices
<1>6. \A d \in Clients : todo'[d] = IF d = c THEN Range0(0, n) ELSE {}
  BY <1>3, <1>4 DEF IInv, Typed
<1>7. Typed'
  BY <1>1, <1>3 DEF IInv, Typed, Range0
<1>8. SettingsAsAsked' /\ Adjustable'
  BY <1>1, <1>3 DEF IInv, SettingsAsAsked, Adjustable
<1>9. AtWork'
  BY <1>3, <1>6 DEF IInv, Typed, AtWork
<1>10. Reserved'
  BY <1>1, <1>2, <1>3, <1>4, <1>5, <1>6 DEF Reserved, Indices
<1> QED BY <1>7, <1>8, <1>9, <1>10 DEF IInv

\* What it takes for the indices below n to be reserved, n being the number of threads.
LEMMA ReservedBelow ==
  ASSUME NEW n \in Nat, ThreadsOf(config)' = n, stage' # "builder", brooded' = brooded,
         \A i \in Indices :
           /\ i >= n => brooded[i] = 0
           /\ i < n => brooded[i] = 1 \/ \E d \in Clients : i \in todo'[d]
           /\ \A d \in Clients : i \in todo'[d] =>
                /\ i < n /\ brooded[i] = 0
                /\ \A e \in Clients : i \in todo'[e] => d = e
  PROVE  Reserved'
  BY DEF Reserved

\* A client that enlarges the pool broods the indices from the number of threads the
\* hive had to the number it has now.
LEMMA EnlargedPreservesIInv ==
  ASSUME IInv, NEW c \in Clients, NEW n \in Nat,
         stage # "builder", stage # "closed", todo[c] = {},
         ThreadsOf(config) <= n,
         config' = [config EXCEPT !["num_threads"] = Sync(Some(n))],
         Brood(c, ThreadsOf(config), n, "brood"),
         asked' = [asked EXCEPT !.threads = n],
         UNCHANGED <<defaults, stage, brooded, machine>>
  PROVE  IInv'
<1> DEFINE m == ThreadsOf(config)
<1>1. m \in Nat /\ IsConfig(config)
  BY EffectiveOf DEF IInv, Typed
<1>2. /\ IsConfig(config') /\ CanMutate(config'["num_threads"]) /\ ThreadsOf(config') = n
      /\ config'["affinity"] = config["affinity"]
      /\ Effective(config') = Four(n, RetriesOf(config), FactorOf(config), AffinityOf(config))
  BY <1>1, NewNumber
<1>3. /\ DOMAIN asked' = DOMAIN asked
      /\ \A f \in DOMAIN asked : asked'[f] = IF f = "threads" THEN n ELSE asked[f]
      /\ DOMAIN asked \subseteq Settings
  BY DEF IInv, Typed
<1>4. /\ call' = [call EXCEPT ![c] = "brood"]
      /\ todo' = [todo EXCEPT ![c] = Range0(m, n)]
  BY DEF Brood
<1>5. \A i \in Indices : i \in Range0(m, n) <=> m <= i /\ i < n
  BY DEF Range0
<1>6. \A d \in Clients : todo'[d] = IF d = c THEN Range0(m, n) ELSE todo[d]
  BY <1>4 DEF IInv, Typed
<1>7. Typed'
  BY <1>2, <1>3, <1>4 DEF IInv, Typed, Range0
<1>8. SettingsAsAsked'
  <2>1. \A f \in Settings :
          Effective(config')[f] = IF f = "threads" THEN n ELSE Effective(config)[f]
    BY <1>2 DEF Settings, Four, Effective
  <2> QED BY <1>3, <2>1 DEF IInv, SettingsAsAsked
<1>9. Adjustable'
  BY <1>2, <1>3 DEF IInv, Adjustable
<1>10. AtWork'
  BY <1>4, <1>6 DEF IInv, Typed, AtWork
<1>11. Reserved'
  <2>1. \A i \in Indices :
          /\ i >= m => brooded[i] = 0
          /\ i < m => brooded[i] = 1 \/ \E d \in Clients : i \in todo[d]
          /\ \A d \in Clients : i \in todo[d] =>
               /\ i < m /\ brooded[i] = 0
               /\ \A e \in Clients : i \in todo[e] => d = e
    BY DEF IInv, Reserved
  <2> HIDE DEF m
  <2>2. ASSUME NEW i \in Indices
        PROVE  /\ i >= n => brooded[i] = 0
               /\ i < n => brooded[i] = 1 \/ \E d \in Clients : i \in todo'[d]
               /\ \A d \in Clients : i \in todo'[d] =>
                    /\ i < n /\ brooded[i] = 0
                    /\ \A e \in Clients : i \in todo'[e] => d = e
    <3>1. i \in Nat /\ m <= n
      BY DEF Indices, m
    <3>2. CASE i < m
      BY <1>1, <1>5, <1>6, <2>1, <3>1, <3>2
    <3>3. CASE ~(i < m)
      BY <1>1, <1>5, <1>6, <2>1, <3>1, <3>3
    <3> QED BY <3>2, <3>3
  <2>3. stage' # "builder" /\ brooded' = brooded /\ ThreadsOf(config)' = n
    BY <1>2
  <2> QED BY <2>2, <2>3, ReservedBelow
<1> QED BY <1>7, <1>8, <1>9, <1>10, <1>11 DEF IInv

\* Cores are added to the affinity of a hive that has one; that of another stays unset.
LEMMA AffinityGrows ==
  ASSUME IInv, NEW c, NEW a \in Lists, NEW then, AddCoreAffinity(c, a, then),
         stage # "builder"
  PROVE  /\ IsConfig(config')
         /\ \A f \in NumberFields : config'[f] = config[f]
         /\ config'["affinity"].sync
         /\ config["affinity"].opt # None =>
              /\ config'["affinity"].opt # None
              /\ AffinityOf(config') = AffinityOf(config) \cup ToSet(a)
<1> DEFINE cell == config["affinity"]
<1>1. /\ IsConfig(config) /\ DOMAIN config = Fields /\ cell \in AffinityCells /\ cell.sync
  BY DEF IInv, Typed, IsConfig, HasAffinity, Adjustable
<1>2. PICK new \in IF cell.opt = None THEN {None} ELSE Unions(ValueOf(cell.opt), a) :
        config' = [config EXCEPT !["affinity"] =
                     UpdateWith(@, IF new = ValueOf(cell.opt) THEN None ELSE Some(new))]
  BY DEF AddCoreAffinity, Get
<1>3. /\ DOMAIN config' = Fields
      /\ \A f \in NumberFields : config'[f] = config[f]
      /\ config'["affinity"] = UpdateWith(cell, IF new = ValueOf(cell.opt) THEN None ELSE Some(new))
  BY <1>1, <1>2 DEF Fields, NumberFields
<1>4. CASE cell.opt = None
  <2>1. config'["affinity"] = cell
    BY <1>3, <1>4 DEF UpdateWith, CanMutate
  <2> QED BY <1>1, <1>3, <1>4, <2>1 DEF IsConfig, HasAffinity
<1>5. CASE cell.opt # None
  <2>1. PICK old \in Lists : cell.opt = Some(old)
    BY <1>1, <1>5 DEF AffinityCells, AffinityOptions
  <2>2. ValueOf(cell.opt) = old /\ CanMutate(cell)
    BY <1>1, <1>5, <2>1, ValueOfSome DEF CanMutate
  <2>3. new \in Lists /\ ToSet(new) = ToSet(old) \cup ToSet(a)
    BY <1>2, <1>5, <2>2, UnionsContinue
  <2>4. config'["affinity"] = Sync(Some(new))
    BY <1>3, <2>2, ValueOfSome DEF UpdateWith, SetWith
  <2>5. /\ Sync(Some(new)) \in AffinityCells /\ Sync(Some(new)).opt = Some(new)
        /\ Sync(Some(new)).sync
    BY <2>3 DEF Sync, AffinityCells, AffinityOptions
  <2>6. IsConfig(config')
    BY <1>1, <1>3, <2>4, <2>5 DEF IsConfig, HasAffinity
  <2>7. AffinityOf(config') = ToSet(new) /\ AffinityOf(config) = ToSet(old)
    BY <1>1, <2>1, <2>4, <2>5, <2>6, EffectiveOf, MembersOf
  <2> QED BY <1>3, <1>5, <2>3, <2>4, <2>5, <2>6, <2>7, ValueOfSome
<1> QED BY <1>4, <1>5

LEMMA AddCoreAffinityPreservesIInv ==
  ASSUME IInv, NEW c \in Clients, NEW a \in Lists, NEW then \in {"grow", "all"},
         AddCoreAffinity(c, a, then), stage = "hive", todo[c] = {}
  PROVE  IInv'
<1>1. /\ IsConfig(config)  /\ IsConfig(config')
      /\ \A f \in NumberFields : config'[f] = config[f]
      /\ config'["affinity"].sync
      /\ config["affinity"].opt # None =>
           /\ config'["affinity"].opt # None
           /\ AffinityOf(config') = AffinityOf(config) \cup ToSet(a)
  BY AffinityGrows DEF IInv, Typed
<1>2. /\ Effective(config') = Four(ThreadsOf(config), RetriesOf(config), FactorOf(config),
                                   AffinityOf(config'))
      /\ ThreadsOf(config') = ThreadsOf(config)
      /\ config'["num_threads"] = config["num_threads"]
  BY <1>1, EffectiveOf DEF NumberFields
<1>3. /\ UNCHANGED <<defaults, stage, todo, brooded, machine>>
      /\ call' = [call EXCEPT ![c] = then]
      /\ DOMAIN asked' = DOMAIN asked
      /\ \A f \in DOMAIN asked :
           asked'[f] = IF f = "affinity" THEN asked[f] \cup ToSet(a) ELSE asked[f]
  BY DEF AddCoreAffinity, poolVars, machineVars
<1>4. Typed'
  BY <1>1, <1>3 DEF IInv, Typed
<1>5. SettingsAsAsked'
  <2>1. \A f \in Settings :
          Effective(config')[f] = IF f = "affinity" THEN AffinityOf(config')
                                                     ELSE Effective(config)[f]
    BY <1>2 DEF Settings, Four, Effective
  <2>2. "affinity" \in DOMAIN asked =>
          AffinityOf(config') = asked["affinity"] \cup ToSet(a)
    BY <1>1, AskedAreKept DEF IInv, Adjustable
  <2>3. DOMAIN asked \subseteq Settings
        /\ \A f \in DOMAIN asked : Effective(config)[f] = asked[f]
    BY DEF IInv, Typed, SettingsAsAsked
  <2> QED BY <1>3, <2>1, <2>2, <2>3 DEF SettingsAsAsked
<1>6. Adjustable'
  BY <1>1, <1>2, <1>3 DEF IInv, Adjustable
<1>7. AtWork'
  BY <1>3 DEF IInv, Typed, AtWork
<1>8. Reserved'
  BY <1>2, <1>3 DEF IInv, Reserved
<1> QED BY <1>4, <1>5, <1>6, <1>7, <1>8 DEF IInv

LEMMA EnlargePreservesIInv == ASSUME IInv, NEW c \in Clients, Enlarge(c) PROVE IInv'
<1>1. /\ asked.threads = ThreadsOf(config) /\ asked.threads \in Nat
      /\ ThreadsOf(config) = OptValue(config["num_threads"].opt)
      /\ config["num_threads"] \in NumberCells
      /\ Cardinality(machine) \in Nat /\ Numbers \subseteq Nat
  BY AskedAreKept, EffectiveOf, MachineSize, ThreadsAssumption
  DEF IInv, Typed, IsConfig, NumberFields
<1>2. ASSUME call[c] \in {"idle", "grow", "all"} PROVE todo[c] = {}
  BY <1>2 DEF IInv, AtWork
<1>3. /\ stage = "hive" => stage # "builder" /\ stage # "closed"
      /\ call[c] \in {"grow", "all"} => stage # "builder" /\ stage # "closed"
  BY DEF IInv, AtWork
<1>4. stage # "builder" => CanMutate(config["num_threads"])
  BY DEF IInv, Adjustable
<1>5. ASSUME NEW n \in Nat, Grow(c, n), stage # "builder", stage # "closed", todo[c] = {}
      PROVE  IInv'
  <2>1. config' = [config EXCEPT !["num_threads"] = Sync(Some(ThreadsOf(config) + n))]
    BY <1>1, <1>4, <1>5, UpdateCell DEF Grow, AddThreads
  <2>2. Brood(c, ThreadsOf(config), ThreadsOf(config) + n, "brood")
    BY <1>5 DEF Grow
  <2>3. asked' = [asked EXCEPT !.threads = ThreadsOf(config) + n]
    BY <1>1, <1>5 DEF Grow
  <2>4. ThreadsOf(config) + n \in Nat /\ ThreadsOf(config) <= ThreadsOf(config) + n
    BY <1>1
  <2>5. UNCHANGED <<defaults, stage, brooded, machine>>
    BY <1>5 DEF Grow, poolVars, machineVars
  <2> QED BY <1>5, <2>1, <2>2, <2>3, <2>4, <2>5, EnlargedPreservesIInv
<1>6. ASSUME NEW n \in Nat, UseAllCores(c, n), stage # "builder", stage # "closed",
             todo[c] = {}
      PROVE  IInv'
  <2> DEFINE m == Larger(ThreadsOf(config), n)
  <2>1. config' = [config EXCEPT !["num_threads"] = Sync(Some(m))]
    BY <1>1, <1>4, <1>6, UpdateCell DEF UseAllCores, EnsureThreads
  <2>2. m \in Nat /\ ThreadsOf(config) <= m
    BY <1>1 DEF Larger
  <2>3. Brood(c, ThreadsOf(config), m, "brood")
    <3>1. Range0(ThreadsOf(config), m) = Range0(ThreadsOf(config), n)
      BY <1>1 DEF Range0, Larger, Indices
    <3> QED BY <1>6, <3>1 DEF UseAllCores, Brood
  <2>4. asked' = [asked EXCEPT !.threads = m]
    BY <1>1, <1>6 DEF UseAllCores
  <2>5. UNCHANGED <<defaults, stage, brooded, machine>>
    BY <1>6 DEF UseAllCores, poolVars, machineVars
  <2> QED BY <1>6, <2>1, <2>2, <2>3, <2>4, <2>5, EnlargedPreservesIInv
<1>7. AllCores(machine) \in Lists /\ \A a \in Affinities : a \in Lists
  BY AllCoresListed, ThreadsAssumption DEF IInv, Lists
<1>8. ASSUME Calls(c) PROVE stage = "hive" /\ stage # "builder" /\ stage # "closed" /\ todo[c] = {}
  BY <1>2, <1>8 DEF Calls
<1>9. CASE Calls(c) /\ (\/ \E n \in Numbers : Grow(c, n)
                        \/ UseAllCores(c, Cardinality(machine)))
  BY <1>1, <1>5, <1>6, <1>8, <1>9
<1>10. CASE Calls(c) /\ (\/ \E a \in Affinities : AddCoreAffinity(c, a, "grow")
                         \/ AddCoreAffinity(c, AllCores(machine), "all"))
  BY <1>7, <1>8, <1>10, AddCoreAffinityPreservesIInv
<1>11. CASE \/ call[c] = "grow" /\ \E n \in Numbers : Grow(c, n)
            \/ call[c] = "all" /\ UseAllCores(c, Cardinality(machine))
  BY <1>1, <1>2, <1>3, <1>5, <1>6, <1>11
<1> QED BY <1>9, <1>10, <1>11 DEF Enlarge

LEMMA BroodNextPreservesIInv == ASSUME IInv, NEW c \in Clients, BroodNext(c) PROVE IInv'
<1>1. PICK i \in todo[c] : /\ brooded' = [brooded EXCEPT ![i] = @ + 1]
                           /\ todo' = [todo EXCEPT ![c] = @ \ {i}]
                           /\ call' \in {call, [call EXCEPT ![c] = "failing"]}
  BY DEF BroodNext
<1>2. /\ UNCHANGED <<defaults, stage, config, asked, machine>>
      /\ i \in Indices /\ stage # "builder" /\ stage # "closed"
      /\ brooded[i] = 0 /\ \A d \in Clients : i \in todo[d] => d = c
  BY DEF BroodNext, machineVars, IInv, Typed, AtWork, Reserved
<1>3. /\ \A j \in Indices : brooded'[j] = IF j = i THEN 1 ELSE brooded[j]
      /\ \A d \in Clients : todo'[d] = todo[d] \ {i}
  BY <1>1, <1>2 DEF IInv, Typed
<1>4. \A d \in Clients : call'[d] \in {call[d], "failing"}
  BY <1>1 DEF IInv, Typed
<1>5. Typed'
  BY <1>1, <1>2 DEF IInv, Typed
<1>6. AtWork'
  BY <1>2, <1>3, <1>4 DEF IInv, AtWork
<1>7. Reserved'
  <2>1. i < ThreadsOf(config)
    BY <1>2 DEF IInv, Reserved
  <2>2. ThreadsOf(config) \in Nat /\ i \in Nat
    BY <1>2, EffectiveOf DEF IInv, Typed, Indices
  <2> QED BY <1>2, <1>3, <2>1, <2>2 DEF IInv, Reserved, Indices
<1> QED BY <1>2, <1>5, <1>6, <1>7 DEF IInv, SettingsAsAsked, Adjustable

LEMMA BroodedPreservesIInv == ASSUME IInv, NEW c \in Clients, Brooded(c) PROVE IInv'
<1>1. /\ UNCHANGED <<defaults, config, todo, asked, machine, brooded>>
      /\ call' = [call EXCEPT ![c] = "idle"]
      /\ todo[c] = {}
      /\ stage' \in {stage, "error"}
      /\ stage \notin {"builder", "closed"}
  BY DEF Brooded, poolVars, machineVars, IInv, AtWork
<1>2. Typed'
  BY <1>1 DEF IInv, Typed
<1>3. AtWork'
  BY <1>1 DEF IInv, Typed, AtWork
<1>4. Reserved'
  BY <1>1 DEF IInv, Reserved
<1> QED BY <1>1, <1>2, <1>3, <1>4 DEF IInv, SettingsAsAsked, Adjustable

LEMMA ClosePreservesIInv == ASSUME IInv, NEW c \in Clients, Close(c) PROVE IInv'
<1>1. /\ UNCHANGED <<defaults, config, call, todo, asked, machine, brooded>>
      /\ stage = "hive" /\ stage' = "closed"
      /\ \A d \in Clients : call[d] = "idle"
  BY DEF Close, Calls, poolVars, machineVars
<1> QED BY <1>1 DEF IInv, Typed, SettingsAsAsked, Adjustable, AtWork, Reserved

LEMMA AsBuilderPreservesIInv == ASSUME IInv, AsBuilder PROVE IInv'
<1>1. /\ UNCHANGED <<defaults, call, todo, asked, machine>>
      /\ stage = "closed" /\ stage' = "builder"
      /\ config' = ConfigIntoUnsync(config)
      /\ brooded' = [i \in Indices |-> 0]
  BY DEF AsBuilder, machineVars
<1>2. /\ IsConfig(config') /\ Effective(config') = Effective(config)
      /\ config'["affinity"].opt = config["affinity"].opt
  BY <1>1, IntoUnsyncKeeps DEF IInv, Typed
<1>3. Typed'
  BY <1>1, <1>2 DEF IInv, Typed
<1>4. SettingsAsAsked' /\ Adjustable'
  BY <1>1, <1>2 DEF IInv, SettingsAsAsked, Adjustable
<1>5. AtWork' /\ Reserved'
  BY <1>1 DEF IInv, AtWork, Reserved
<1> QED BY <1>3, <1>4, <1>5 DEF IInv

-----------------------------------------------------------------------------
(***************************************************************************)
(* The theorems.                                                           *)
(***************************************************************************)

\* Every step keeps the invariant.
LEMMA NextPreservesIInv == IInv /\ [Next]_vars => IInv'
<1> SUFFICES ASSUME IInv, [Next]_vars PROVE IInv'
  OBVIOUS
<1>1. CASE SetDefaults
  BY <1>1, SetDefaultsPreservesIInv
<1>2. CASE SetUp
  BY <1>2, SetUpPreservesIInv
<1>3. CASE AsBuilder
  BY <1>3, AsBuilderPreservesIInv
<1>4. ASSUME NEW c \in Clients, Build(c) \/ Enlarge(c) \/ BroodNext(c) \/ Brooded(c) \/ Close(c)
      PROVE  IInv'
  BY <1>4, BuildPreservesIInv, EnlargePreservesIInv, BroodNextPreservesIInv,
     BroodedPreservesIInv, ClosePreservesIInv
<1>5. CASE \/ ChangeMachine \/ Refresh
           \/ \E i \in Indices : GetCoreAffinity(i) \/ InitThread(i) \/ Panic(i) \/ Leave(i)
           \/ UNCHANGED vars
  BY <1>5, AsidePreservesIInv
<1> QED BY <1>1, <1>2, <1>3, <1>4, <1>5 DEF Next

\* However many clients enlarge the pool at the same time, no thread index is brooded
\* twice, and when no call is under way exactly those below the number of threads asked
\* for have been brooded (grow, use_all_cores, add_threads, ensure_threads).
THEOREM IndicesOnce == Spec => []EveryIndexOnce
<1>1. IInv => EveryIndexOnce
  <2> SUFFICES ASSUME IInv PROVE EveryIndexOnce
    OBVIOUS
  <2>1. \A i \in Indices : brooded[i] \in {0, 1} /\ i \in Nat
    BY DEF IInv, Typed, Indices
  <2>2. ASSUME stage = "hive", \A c \in Clients : call[c] = "idle", NEW i \in Indices
        PROVE  brooded[i] = 1 <=> i < asked.threads
    <3>1. \A c \in Clients : todo[c] = {}
      BY <2>2 DEF IInv, AtWork
    <3>2. asked.threads = ThreadsOf(config) /\ asked.threads \in Nat
      BY AskedAreKept
    <3> QED BY <2>1, <2>2, <3>1, <3>2 DEF IInv, Reserved
  <2> QED BY <2>1, <2>2 DEF EveryIndexOnce
<1> QED BY <1>1, InitEstablishesIInv, NextPreservesIInv, PTL DEF Spec

\* Whatever is set, by whom and in whatever order, and however often the hive is
\* enlarged, made a Husk and rebuilt, its settings are those asked for last.
THEOREM SettingsKept == Spec => []SettingsAsAsked
<1>1. IInv => SettingsAsAsked
  BY DEF IInv
<1> QED BY <1>1, InitEstablishesIInv, NextPreservesIInv, PTL DEF Spec

-----------------------------------------------------------------------------
(***************************************************************************)
(* The cores.  An index of CORES means the same core for ever, and while   *)
(* there is a hive its affinity only grows at the end, so that the place   *)
(* of a thread, the core it was given or is pinned to, stays its place,    *)
(* and two threads have different places.                                  *)
(***************************************************************************)
CoreRecords == [id : Nat, available : BOOLEAN]
CoreLists == {l \in Seq(CoreRecords) : \A j, k \in DOMAIN l : l[j].id = l[k].id => j = k}

\* The indices that a list of cores has mean the same cores in a later one.
Outlasts(later, list) ==
  \A k \in DOMAIN list : k \in DOMAIN later /\ later[k].id = list[k].id
\* The affinity and the list put the thread of index i on this core.
PlaceOf(choice, list, i, id) ==
  \E a \in choice : /\ i + 1 \in DOMAIN a /\ a[i + 1] + 1 \in DOMAIN list
                    /\ list[a[i + 1] + 1].id = id

PinTyped ==
  /\ HasAffinity(config) /\ cores \in CoreLists
  /\ thread \in [Indices -> {"none", "started", "failed", "given", "works"}]
  /\ core \in [Indices -> SUBSET CoreRecords] /\ pinned \in [Indices -> SUBSET Nat]

\* Only a thread that was given a core has one, only one that works is pinned.
AtRest ==
  \A i \in Indices :
    /\ brooded[i] = 0 => thread[i] = "none"
    /\ thread[i] # "given" => core[i] = None
    /\ thread[i] # "works" => pinned[i] = None

Placed ==
  \A i \in Indices :
    /\ \A k \in core[i] : PlaceOf(config["affinity"].opt, cores, i, k.id)
    /\ \A id \in pinned[i] : PlaceOf(config["affinity"].opt, cores, i, id)

PinInv == PinTyped /\ AtRest /\ Placed

\* The list is established once, and refresh only adds to it.
LEMMA CoresOf ==
  ASSUME NEW ids \in SUBSET CoreIds, NEW q \in SetToSeqs(ids)
  PROVE  /\ AsCores(q) \in CoreLists
         /\ DOMAIN AsCores(q) = DOMAIN q
         /\ \A k \in DOMAIN q : AsCores(q)[k].id = q[k] /\ q[k] \in ids
  <1>1. IsFiniteSet(ids) /\ ids \subseteq Nat
    BY ThreadsAssumption, FS_Subset
  <1>2. /\ q \in Seq(ids) /\ Len(q) \in Nat /\ DOMAIN q = 1..Len(q)
        /\ \A j, k \in DOMAIN q : q[j] = q[k] => j = k
        /\ \A k \in DOMAIN q : q[k] \in ids
    BY <1>1, SeqsOf
  <1>3. /\ DOMAIN AsCores(q) = 1..Len(q)
        /\ \A k \in 1..Len(q) : AsCores(q)[k] = Core(q[k]) /\ Core(q[k]) \in CoreRecords
                                /\ Core(q[k]).id = q[k]
    BY <1>1, <1>2 DEF AsCores, Core, CoreRecords
  <1>4. AsCores(q) \in Seq(CoreRecords)
    <2>1. AsCores(q) = [k \in 1..Len(q) |-> Core(q[k])]
      BY <1>2 DEF AsCores
    <2> QED BY <1>2, <1>3, <2>1
  <1> QED BY <1>2, <1>3, <1>4 DEF CoreLists

LEMMA EstablishedOutlasts ==
  ASSUME NEW list \in CoreLists, NEW ids \in SUBSET CoreIds, NEW l \in Established(list, ids)
  PROVE  l \in CoreLists /\ Outlasts(l, list)
  <1>1. CASE list = <<>>
    <2>1. PICK q \in SetToSeqs(ids) : l = AsCores(q)
      BY <1>1 DEF Established, Ascending
    <2> QED BY <1>1, <2>1, CoresOf DEF Outlasts
  <1>2. CASE list # <<>>
    BY <1>2 DEF Established, Outlasts
  <1> QED BY <1>1, <1>2

LEMMA RefreshedOutlasts ==
  ASSUME NEW list \in CoreLists, NEW ids \in SUBSET CoreIds, NEW l \in Refreshed(list, ids)
  PROVE  l \in CoreLists /\ Outlasts(l, list)
  <1> DEFINE kept == [k \in DOMAIN list |-> [list[k] EXCEPT !.available = list[k].id \in ids]]
  <1>1. PICK q \in SetToSeqs(ids \ Ids(list)) : l = kept \o AsCores(q)
    BY DEF Refreshed
  <1>2. /\ list \in Seq(CoreRecords) /\ DOMAIN list = 1..Len(list) /\ Len(list) \in Nat
        /\ \A j, k \in DOMAIN list : list[j].id = list[k].id => j = k
    BY DEF CoreLists
  <1>3. \A k \in DOMAIN list : /\ kept[k] \in CoreRecords
                              /\ kept[k].id = list[k].id /\ list[k].id \in Ids(list)
    <2>1. ASSUME NEW k \in DOMAIN list
          PROVE  list[k] \in CoreRecords /\ list[k].id \in Ids(list)
      BY <1>2 DEF Ids
    <2>2. \A r \in CoreRecords : \A b \in BOOLEAN :
            [r EXCEPT !.available = b] \in CoreRecords /\ [r EXCEPT !.available = b].id = r.id
      BY DEF CoreRecords
    <2>3. ASSUME NEW k \in DOMAIN list
          PROVE  kept[k] \in CoreRecords /\ kept[k].id = list[k].id
      <3> DEFINE there == list[k].id \in ids
      <3>1. there \in BOOLEAN /\ kept[k] = [list[k] EXCEPT !.available = there]
        OBVIOUS
      <3> HIDE DEF there, kept
      <3> QED BY <2>1, <2>2, <3>1
    <2> QED BY <2>1, <2>3
  <1>4. kept \in Seq(CoreRecords) /\ DOMAIN kept = DOMAIN list
    <2>1. kept \in [1..Len(list) -> CoreRecords]
      BY <1>2, <1>3
    <2> QED BY <1>2, <2>1
  <1>5. ids \ Ids(list) \in SUBSET CoreIds
    OBVIOUS
  <1> HIDE DEF kept
  <1>6. /\ AsCores(q) \in Seq(CoreRecords) /\ DOMAIN AsCores(q) = DOMAIN q
        /\ \A j, k \in DOMAIN AsCores(q) : AsCores(q)[j].id = AsCores(q)[k].id => j = k
        /\ \A k \in DOMAIN AsCores(q) : AsCores(q)[k].id \notin Ids(list)
    BY <1>5, CoresOf DEF CoreLists
  <1>7. /\ l \in Seq(CoreRecords)
        /\ \A k \in DOMAIN kept : k \in DOMAIN l /\ l[k] = kept[k]
        /\ \A k \in DOMAIN l :
             \/ k \in DOMAIN kept /\ l[k] = kept[k]
             \/ /\ k \notin DOMAIN kept /\ k - Len(kept) \in DOMAIN AsCores(q)
                /\ l[k] = AsCores(q)[k - Len(kept)]
        /\ \A j, k \in DOMAIN l : j - Len(kept) = k - Len(kept) => j = k
    BY <1>1, <1>4, <1>6, Joined
  <1>8. ASSUME NEW j \in DOMAIN l, NEW k \in DOMAIN l, l[j].id = l[k].id PROVE j = k
    <2>1. CASE j \in DOMAIN kept /\ k \in DOMAIN kept
      BY <1>2, <1>3, <1>4, <1>7, <1>8, <2>1
    <2>2. CASE j \notin DOMAIN kept /\ k \notin DOMAIN kept
      BY <1>6, <1>7, <1>8, <2>2
    <2>3. \A n \in DOMAIN l : n \in DOMAIN kept <=> l[n].id \in Ids(list)
      <3>1. ASSUME NEW n \in DOMAIN kept PROVE l[n].id \in Ids(list)
        BY <1>3, <1>4, <1>7, <3>1
      <3>2. ASSUME NEW n \in DOMAIN l, n \notin DOMAIN kept PROVE l[n].id \notin Ids(list)
        BY <1>6, <1>7, <3>2
      <3> QED BY <3>1, <3>2
    <2> QED BY <1>8, <2>1, <2>2, <2>3
  <1> QED BY <1>3, <1>4, <1>7, <1>8 DEF CoreLists, Outlasts

LEMMA OutlastsTwice ==
  ASSUME NEW k, NEW l, NEW m, Outlasts(m, l), Outlasts(l, k) PROVE Outlasts(m, k)
  BY DEF Outlasts

-----------------------------------------------------------------------------
(***************************************************************************)
(* Places are kept.                                                        *)
(***************************************************************************)

\* A place stays a place when the list of cores and the affinity only grow.
LEMMA PlaceStays ==
  ASSUME NEW choice, NEW longer, NEW list, NEW later, Outlasts(later, list),
         \A a \in choice : \E b \in longer : Continues(b, a),
         NEW i, NEW id, PlaceOf(choice, list, i, id)
  PROVE  PlaceOf(longer, later, i, id)
  <1>1. PICK a \in choice : /\ i + 1 \in DOMAIN a /\ a[i + 1] + 1 \in DOMAIN list
                            /\ list[a[i + 1] + 1].id = id
    BY DEF PlaceOf
  <1>2. PICK b \in longer : Continues(b, a)
    BY <1>1
  <1>3. i + 1 \in DOMAIN b /\ b[i + 1] = a[i + 1]
    BY <1>1, <1>2 DEF Continues
  <1>4. a[i + 1] + 1 \in DOMAIN later /\ later[a[i + 1] + 1].id = id
    BY <1>1 DEF Outlasts
  <1> QED BY <1>3, <1>4 DEF PlaceOf

\* Two threads have different places.
LEMMA PlacesDiffer ==
  ASSUME NEW choice \in AffinityOptions, NEW list \in CoreLists,
         NEW i \in Nat, NEW j \in Nat, NEW id,
         PlaceOf(choice, list, i, id), PlaceOf(choice, list, j, id)
  PROVE  i = j
  <1>1. PICK a \in choice : /\ i + 1 \in DOMAIN a /\ a[i + 1] + 1 \in DOMAIN list
                            /\ list[a[i + 1] + 1].id = id
    BY DEF PlaceOf
  <1>2. PICK b \in choice : /\ j + 1 \in DOMAIN b /\ b[j + 1] + 1 \in DOMAIN list
                            /\ list[b[j + 1] + 1].id = id
    BY DEF PlaceOf
  <1>3. a = b /\ a \in Lists
    BY DEF AffinityOptions, Some, None
  <1>4. a[i + 1] + 1 = b[j + 1] + 1
    BY <1>1, <1>2 DEF CoreLists
  <1>5. a[i + 1] \in Nat /\ a[j + 1] \in Nat
    BY <1>1, <1>2, <1>3 DEF Lists
  <1>6. a[i + 1] = a[j + 1]
    BY <1>3, <1>4, <1>5
  <1>7. i + 1 = j + 1
    BY <1>1, <1>2, <1>3, <1>6 DEF Lists, IsInjective
  <1> QED BY <1>7

LEMMA PinnedApart == PinInv => DistinctCores
  <1> SUFFICES ASSUME PinInv, NEW i \in Indices, NEW j \in Indices, pinned[i] # None,
                      pinned[i] = pinned[j]
               PROVE  i = j
    BY DEF DistinctCores
  <1>1. PICK id : id \in pinned[i] /\ id \in pinned[j]
    BY DEF None
  <1>2. /\ PlaceOf(config["affinity"].opt, cores, i, id)
        /\ PlaceOf(config["affinity"].opt, cores, j, id)
    BY <1>1 DEF PinInv, Placed
  <1>3. config["affinity"].opt \in AffinityOptions /\ cores \in CoreLists
    BY DEF PinInv, PinTyped, HasAffinity, AffinityCells
  <1>4. i \in Nat /\ j \in Nat
    BY DEF Indices
  <1> QED BY <1>2, <1>3, <1>4, PlacesDiffer

\* What keeps the threads as they are, and at most continues the affinity and the list.
LEMMA OnlyGrowing ==
  ASSUME PinInv, HasAffinity(config'), cores' \in CoreLists, Outlasts(cores', cores),
         \A a \in config["affinity"].opt : \E b \in config'["affinity"].opt : Continues(b, a),
         UNCHANGED <<thread, core, pinned, brooded>>
  PROVE  PinInv'
  <1>1. \A i, id : PlaceOf(config["affinity"].opt, cores, i, id)
                     => PlaceOf(config["affinity"].opt, cores, i, id)'
    BY PlaceStays
  <1> QED BY <1>1 DEF PinInv, PinTyped, AtRest, Placed

\* What changes the configuration when there are no threads.
LEMMA NobodyPlaced ==
  ASSUME PinInv, HasAffinity(config'), cores' = cores,
         \A i \in Indices : core[i] = None /\ pinned[i] = None,
         \A i \in Indices : brooded'[i] = 0 => thread'[i] = "none",
         thread' \in [Indices -> {"none", "started", "failed", "given", "works"}],
         UNCHANGED <<core, pinned>>
  PROVE  PinInv'
  BY DEF PinInv, PinTyped, AtRest, Placed, None

\* A thread with this index starts, fails to, is given a core, is pinned or leaves.
LEMMA ThreadMoves ==
  ASSUME PinInv, UNCHANGED config, cores' \in CoreLists, Outlasts(cores', cores),
         NEW i \in Indices, NEW s \in {"none", "started", "failed", "given", "works"},
         thread' = [thread EXCEPT ![i] = s],
         \A j \in Indices : brooded'[j] = 0 => brooded[j] = 0 /\ (j = i => s = "none"),
         core' \in [Indices -> SUBSET CoreRecords], pinned' \in [Indices -> SUBSET Nat],
         \A j \in Indices \ {i} : core'[j] = core[j] /\ pinned'[j] = pinned[j],
         s # "given" => core'[i] = None, s # "works" => pinned'[i] = None,
         \A k \in core'[i] : PlaceOf(config["affinity"].opt, cores', i, k.id),
         \A id \in pinned'[i] : PlaceOf(config["affinity"].opt, cores', i, id)
  PROVE  PinInv'
  <1>1. ASSUME NEW a \in config["affinity"].opt PROVE Continues(a, a)
    BY DEF Continues
  <1>2. \A j, id : PlaceOf(config["affinity"].opt, cores, j, id)
                     => PlaceOf(config["affinity"].opt, cores, j, id)'
    BY <1>1, PlaceStays
  <1>3. \A j \in Indices : thread'[j] = IF j = i THEN s ELSE thread[j]
    BY DEF PinInv, PinTyped
  <1>4. PinTyped'
    BY DEF PinInv, PinTyped
  <1>5. AtRest'
    BY <1>3 DEF PinInv, AtRest
  <1>6. Placed'
    <2>1. ASSUME NEW j \in Indices
          PROVE  /\ \A k \in core'[j] : PlaceOf(config["affinity"].opt, cores, j, k.id)'
                 /\ \A id \in pinned'[j] : PlaceOf(config["affinity"].opt, cores, j, id)'
      BY <1>2 DEF PinInv, Placed
    <2> QED BY <2>1 DEF Placed
  <1> QED BY <1>4, <1>5, <1>6 DEF PinInv

-----------------------------------------------------------------------------
(***************************************************************************)
(* The actions keep the places.                                            *)
(***************************************************************************)
LEMMA AffinityKept ==
  ASSUME NEW c, HasAffinity(c)
  PROVE  /\ c["affinity"].opt \in AffinityOptions
         /\ \A f \in Fields : \A opt : (f = "affinity" => opt \in AffinityOptions)
                                       => HasAffinity(With(c, f, opt))
         /\ HasAffinity(ConfigIntoSync(c))
         /\ HasAffinity(ConfigIntoUnsync(c))
  <1>1. "affinity" \in Fields /\ c["affinity"].opt \in AffinityOptions
    BY DEF HasAffinity, AffinityCells, Fields
  <1>2. ASSUME NEW f \in Fields, NEW opt, f = "affinity" => opt \in AffinityOptions
        PROVE  HasAffinity(With(c, f, opt))
    <2>1. /\ DOMAIN With(c, f, opt) = Fields
          /\ With(c, f, opt)["affinity"]
               = IF f = "affinity" THEN Set(c["affinity"], opt) ELSE c["affinity"]
      BY <1>1 DEF With, HasAffinity
    <2>2. f = "affinity" => Set(c["affinity"], opt) \in AffinityCells
      BY <1>2 DEF Set, HasAffinity, AffinityCells
    <2> QED BY <2>1, <2>2 DEF HasAffinity
  <1>3. HasAffinity(ConfigIntoSync(c))
    BY <1>1 DEF ConfigIntoSync, IntoSync, Sync, HasAffinity, AffinityCells
  <1>4. HasAffinity(ConfigIntoUnsync(c))
    BY <1>1 DEF ConfigIntoUnsync, IntoUnsync, Unsync, HasAffinity, AffinityCells
  <1> QED BY <1>1, <1>2, <1>3, <1>4

\* As long as there is only a Builder there is no thread.
LEMMA BuilderHasNoThread ==
  ASSUME IInv, PinInv, stage = "builder", NEW i \in Indices
  PROVE  brooded[i] = 0 /\ thread[i] = "none" /\ core[i] = None /\ pinned[i] = None
  BY DEF IInv, Reserved, PinInv, AtRest

\* What changes nothing that the places depend on.
LEMMA NothingPlaced ==
  ASSUME PinInv, config'["affinity"] = config["affinity"], DOMAIN config' = DOMAIN config,
         UNCHANGED <<thread, core, pinned, brooded, cores>>
  PROVE  PinInv'
  BY DEF PinInv, PinTyped, AtRest, Placed, HasAffinity

LEMMA SetUpKeepsPlaces == ASSUME IInv, PinInv, SetUp PROVE PinInv'
<1>1. HasAffinity(config) /\ {"num_threads", "max_retries", "retry_factor"} \subseteq Fields
      /\ "affinity" \in Fields
  BY DEF PinInv, PinTyped, Fields
<1>2. ASSUME NEW c, HasAffinity(c), NEW f \in NumberFields, NEW opt
      PROVE  HasAffinity(With(c, f, opt))
  <2>1. f \in Fields /\ f # "affinity"
    BY DEF NumberFields, Fields
  <2> QED BY <1>2, <2>1, AffinityKept
<1>3. ASSUME NEW new, NEW wanted, Configure(new, wanted), HasAffinity(new) PROVE PinInv'
  <2>1. \A i \in Indices : brooded[i] = 0 /\ thread[i] = "none" /\ core[i] = None
                           /\ pinned[i] = None
    BY <1>3, BuilderHasNoThread DEF Configure
  <2>2. config' = new /\ UNCHANGED <<brooded, thread, core, pinned, cores>>
    BY <1>3 DEF Configure, poolVars, machineVars
  <2>3. thread' \in [Indices -> {"none", "started", "failed", "given", "works"}]
    BY <2>2 DEF PinInv, PinTyped
  <2> QED BY <1>3, <2>1, <2>2, <2>3, NobodyPlaced
<1>4. ASSUME NEW n PROVE /\ NumThreads(n) => PinInv'
                         /\ BuilderMaxRetries(n) => PinInv'
                         /\ BuilderRetryFactor(n) => PinInv'
  BY <1>1, <1>2, <1>3
  DEF NumThreads, BuilderMaxRetries, BuilderRetryFactor, WithMaxRetries, WithRetryFactor,
      NumberFields
<1>5. ASSUME DefaultNumThreads PROVE PinInv'
  BY <1>1, <1>2, <1>3, <1>5 DEF DefaultNumThreads, WithDefaultNumThreads, NumberFields
<1>6. ASSUME DefaultRetrySettings PROVE PinInv'
  <2>1. HasAffinity(WithDefaultRetries(config, defaults))
    BY <1>1, <1>2 DEF WithDefaultRetries, NumberFields
  <2> QED BY <1>3, <1>6, <2>1 DEF DefaultRetrySettings
<1>7. ASSUME NoRetries PROVE PinInv'
  <2>1. HasAffinity(WithNoRetries(config))
    BY <1>1, <1>2 DEF WithNoRetries, WithMaxRetries, WithRetryFactor, NumberFields
  <2> QED BY <1>3, <1>7, <2>1 DEF NoRetries
<1>8. ASSUME NEW a \in Affinities \cup {AllCores(machine)}, ThreadAffinity(a) PROVE PinInv'
  <2>1. a \in Lists
    BY AllCoresListed, ThreadsAssumption DEF IInv, Lists
  <2>2. HasAffinity(With(config, "affinity", Some(a)))
    BY <1>1, <2>1, AffinityKept DEF AffinityOptions
  <2> QED BY <1>3, <1>8, <2>2 DEF ThreadAffinity
<1> QED BY <1>4, <1>5, <1>6, <1>7, <1>8 DEF SetUp

LEMMA BuildKeepsPlaces == ASSUME IInv, PinInv, NEW c \in Clients, Build(c) PROVE PinInv'
<1>1. /\ config' = ConfigIntoSync(config)
      /\ UNCHANGED <<thread, core, pinned, brooded, cores>> /\ stage = "builder"
  BY DEF Build, poolVars, machineVars
<1>2. /\ HasAffinity(config')
      /\ thread' \in [Indices -> {"none", "started", "failed", "given", "works"}]
  BY <1>1, AffinityKept DEF PinInv, PinTyped
<1>3. \A i \in Indices : brooded[i] = 0 /\ thread[i] = "none" /\ core[i] = None
                         /\ pinned[i] = None
  BY <1>1, BuilderHasNoThread
<1> QED BY <1>1, <1>2, <1>3, NobodyPlaced

\* grow_with_affinity and use_all_cores_with_affinity leave every index where it is.
LEMMA AddCoreAffinityKeepsPlaces ==
  ASSUME PinInv, NEW c \in Clients, NEW a \in Lists, NEW then, AddCoreAffinity(c, a, then)
  PROVE  PinInv'
<1> DEFINE cell == config["affinity"]
<1>1. cell \in AffinityCells /\ DOMAIN config = Fields /\ "affinity" \in Fields
  BY DEF PinInv, PinTyped, HasAffinity, Fields
<1>2. PICK new \in IF cell.opt = None THEN {None} ELSE Unions(ValueOf(cell.opt), a) :
        config' = [config EXCEPT !["affinity"] =
                     UpdateWith(@, IF new = ValueOf(cell.opt) THEN None ELSE Some(new))]
  BY DEF AddCoreAffinity, Get
<1>3. /\ DOMAIN config' = Fields
      /\ config'["affinity"] = UpdateWith(cell, IF new = ValueOf(cell.opt) THEN None ELSE Some(new))
  BY <1>1, <1>2
<1>4. UNCHANGED <<thread, core, pinned, brooded, cores>>
  BY DEF AddCoreAffinity, poolVars, machineVars
<1>5. CASE ~CanMutate(cell)
  BY <1>1, <1>3, <1>4, <1>5, NothingPlaced DEF UpdateWith
<1>6. CASE CanMutate(cell)
  <2>1. PICK old \in Lists : cell.opt = Some(old)
    BY <1>1, <1>6 DEF CanMutate, AffinityCells, AffinityOptions
  <2>2. ValueOf(cell.opt) = old /\ cell.opt # None
    BY <2>1, ValueOfSome
  <2>3. new \in Lists /\ Continues(new, old)
    BY <1>2, <2>2, UnionsContinue
  <2>4. config'["affinity"] = Sync(Some(new))
    BY <1>3, <1>6, <2>2, ValueOfSome DEF UpdateWith, SetWith
  <2>5. HasAffinity(config') /\ config'["affinity"].opt = Some(new)
    <3>1. Sync(Some(new)) \in AffinityCells /\ Sync(Some(new)).opt = Some(new)
      BY <2>3 DEF Sync, AffinityCells, AffinityOptions
    <3> QED BY <1>3, <2>4, <3>1 DEF HasAffinity
  <2>6. \A b \in cell.opt : \E d \in config'["affinity"].opt : Continues(d, b)
    BY <2>1, <2>3, <2>5 DEF Some
  <2>7. cores' \in CoreLists /\ Outlasts(cores', cores)
    BY <1>4 DEF PinInv, PinTyped, Outlasts
  <2> QED BY <1>4, <2>5, <2>6, <2>7, OnlyGrowing
<1> QED BY <1>5, <1>6

LEMMA EnlargeKeepsPlaces == ASSUME IInv, PinInv, NEW c \in Clients, Enlarge(c) PROVE PinInv'
<1>1. "affinity" # "num_threads"
  OBVIOUS
<1>2. ASSUME NEW n, Grow(c, n) PROVE PinInv'
  <2>1. config' = [config EXCEPT !["num_threads"] = AddTo(@, n)]
        /\ UNCHANGED <<thread, core, pinned, brooded, cores>>
    BY <1>2 DEF Grow, AddThreads, poolVars, machineVars
  <2>2. config'["affinity"] = config["affinity"] /\ DOMAIN config' = DOMAIN config
    BY <2>1
  <2> QED BY <2>1, <2>2, NothingPlaced
<1>3. ASSUME NEW n, UseAllCores(c, n) PROVE PinInv'
  <2>1. config' = [config EXCEPT !["num_threads"] = SetMax(@, n)]
        /\ UNCHANGED <<thread, core, pinned, brooded, cores>>
    BY <1>3 DEF UseAllCores, EnsureThreads, poolVars, machineVars
  <2>2. config'["affinity"] = config["affinity"] /\ DOMAIN config' = DOMAIN config
    BY <2>1
  <2> QED BY <2>1, <2>2, NothingPlaced
<1>4. \A a \in Affinities : a \in Lists
  BY ThreadsAssumption DEF Lists
<1>5. AllCores(machine) \in Lists
  BY AllCoresListed DEF IInv
<1> QED BY <1>2, <1>3, <1>4, <1>5, AddCoreAffinityKeepsPlaces DEF Enlarge

LEMMA AsBuilderKeepsPlaces == ASSUME PinInv, AsBuilder PROVE PinInv'
<1>1. /\ \A i \in Indices : thread[i] \in {"none", "failed"}
      /\ config' = ConfigIntoUnsync(config)
      /\ thread' = [i \in Indices |-> "none"]
      /\ UNCHANGED <<core, pinned, cores>>
  BY DEF AsBuilder, machineVars
<1>2. \A i \in Indices : core[i] = None /\ pinned[i] = None
  BY <1>1 DEF PinInv, AtRest
<1>3. HasAffinity(config')
  BY <1>1, AffinityKept DEF PinInv, PinTyped
<1> QED BY <1>1, <1>2, <1>3, NobodyPlaced

LEMMA BroodNextKeepsPlaces ==
  ASSUME IInv, PinInv, NEW c \in Clients, BroodNext(c) PROVE PinInv'
<1>1. PICK i \in todo[c] : Spawn(i) /\ brooded' = [brooded EXCEPT ![i] = @ + 1]
  BY DEF BroodNext
<1>2. /\ UNCHANGED <<config, cores, core, pinned>>
      /\ i \in Indices /\ brooded[i] = 0 /\ brooded \in [Indices -> {0, 1}]
  BY DEF BroodNext, machineVars, IInv, Typed, AtWork, Reserved
<1>3. PICK s \in {"started", "failed"} : thread' = [thread EXCEPT ![i] = s]
  BY <1>1 DEF Spawn
<1>4. core[i] = None /\ pinned[i] = None
  BY <1>2 DEF PinInv, AtRest
<1>5. \A j \in Indices : brooded'[j] = IF j = i THEN 1 ELSE brooded[j]
  BY <1>1, <1>2
<1>6. cores' \in CoreLists /\ Outlasts(cores', cores)
  BY <1>2 DEF PinInv, PinTyped, Outlasts
<1>7. core' \in [Indices -> SUBSET CoreRecords] /\ pinned' \in [Indices -> SUBSET Nat]
  BY <1>2 DEF PinInv, PinTyped
<1>8. /\ s \in {"none", "started", "failed", "given", "works"} /\ s # "given" /\ s # "works"
      /\ core'[i] = {} /\ pinned'[i] = {}
  BY <1>2, <1>3, <1>4 DEF None
<1>9. /\ \A j \in Indices : brooded'[j] = 0 => brooded[j] = 0 /\ (j = i => s = "none")
      /\ \A j \in Indices \ {i} : core'[j] = core[j] /\ pinned'[j] = pinned[j]
  BY <1>2, <1>5
<1> QED BY <1>2, <1>3, <1>6, <1>7, <1>8, <1>9, ThreadMoves DEF None

LEMMA GetCoreAffinityKeepsPlaces ==
  ASSUME IInv, PinInv, NEW i \in Indices, GetCoreAffinity(i) PROVE PinInv'
<1> DEFINE choice == config["affinity"].opt
<1>1. /\ thread[i] = "started" /\ thread' = [thread EXCEPT ![i] = "given"]
      /\ cores' \in IF choice = None THEN {cores} ELSE Established(cores, machine)
      /\ core' = [core EXCEPT ![i] = UNION {CoreFor(a, cores', i) : a \in choice}]
      /\ UNCHANGED <<config, pinned, brooded>>
  BY DEF GetCoreAffinity, Get, hiveVars
<1>2. cores' \in CoreLists /\ Outlasts(cores', cores)
  BY <1>1, EstablishedOutlasts DEF PinInv, PinTyped, Outlasts, IInv, Typed
<1>3. brooded[i] # 0 /\ pinned[i] = None
  BY <1>1 DEF PinInv, AtRest
<1>4. ASSUME NEW k \in core'[i]
      PROVE  k \in CoreRecords /\ PlaceOf(choice, cores', i, k.id)
  <2>1. PICK a \in choice : k \in CoreFor(a, cores', i)
    BY <1>1, <1>4 DEF PinInv, PinTyped
  <2>2. i + 1 \in DOMAIN a /\ a[i + 1] + 1 \in DOMAIN cores' /\ k = cores'[a[i + 1] + 1]
    BY <2>1 DEF CoreFor
  <2>3. k \in CoreRecords
    BY <1>2, <2>2 DEF CoreLists
  <2> QED BY <2>2, <2>3 DEF PlaceOf
<1>5. core' \in [Indices -> SUBSET CoreRecords] /\ pinned' \in [Indices -> SUBSET Nat]
  BY <1>1, <1>4 DEF PinInv, PinTyped
<1>6. \A j \in Indices \ {i} : core'[j] = core[j] /\ pinned'[j] = pinned[j]
  BY <1>1 DEF PinInv, PinTyped
<1> QED BY <1>1, <1>2, <1>3, <1>4, <1>5, <1>6, ThreadMoves DEF None

LEMMA InitThreadKeepsPlaces ==
  ASSUME IInv, PinInv, NEW i \in Indices, InitThread(i) PROVE PinInv'
<1> DEFINE choice == config["affinity"].opt
<1>1. /\ thread[i] = "given" /\ thread' = [thread EXCEPT ![i] = "works"]
      /\ pinned' = [pinned EXCEPT ![i] = UNION {TryPinCurrent(k, machine) : k \in core[i]}]
      /\ core' = [core EXCEPT ![i] = None]
      /\ UNCHANGED <<config, brooded, cores>>
  BY DEF InitThread, hiveVars, machineVars
<1>2. cores' \in CoreLists /\ Outlasts(cores', cores)
  BY <1>1 DEF PinInv, PinTyped, Outlasts
<1>3. brooded[i] # 0 /\ core'[i] = None
  BY <1>1 DEF PinInv, PinTyped, AtRest
<1>4. ASSUME NEW id \in pinned'[i]
      PROVE  id \in Nat /\ PlaceOf(choice, cores', i, id)
  <2>1. PICK k \in core[i] : id = k.id
    BY <1>1, <1>4 DEF PinInv, PinTyped, TryPinCurrent
  <2>2. PlaceOf(choice, cores, i, k.id) /\ k.id \in Nat
    BY <2>1 DEF PinInv, PinTyped, Placed, CoreRecords
  <2> QED BY <1>1, <2>1, <2>2
<1>5. core' \in [Indices -> SUBSET CoreRecords] /\ pinned' \in [Indices -> SUBSET Nat]
  BY <1>1, <1>4 DEF PinInv, PinTyped, None
<1>6. \A j \in Indices \ {i} : core'[j] = core[j] /\ pinned'[j] = pinned[j]
  BY <1>1 DEF PinInv, PinTyped
<1> QED BY <1>1, <1>2, <1>3, <1>4, <1>5, <1>6, ThreadMoves DEF None

\* A thread that panicked or leaves is no longer pinned; the one that replaces it starts
\* with no core.
LEMMA GoneKeepsPlaces ==
  ASSUME PinInv, NEW i \in Indices, Panic(i) \/ Leave(i) PROVE PinInv'
<1>1. PICK s \in {"none", "started", "failed"} : thread' = [thread EXCEPT ![i] = s]
  BY DEF Panic, Leave, Spawn
<1>2. /\ thread[i] = "works" /\ pinned' = [pinned EXCEPT ![i] = None]
      /\ UNCHANGED <<config, brooded, cores, core>>
  BY DEF Panic, Leave, hiveVars, machineVars
<1>3. cores' \in CoreLists /\ Outlasts(cores', cores)
  BY <1>2 DEF PinInv, PinTyped, Outlasts
<1>4. brooded[i] # 0 /\ core'[i] = None /\ pinned'[i] = None
  BY <1>2 DEF PinInv, PinTyped, AtRest
<1>5. core' \in [Indices -> SUBSET CoreRecords] /\ pinned' \in [Indices -> SUBSET Nat]
  BY <1>2 DEF PinInv, PinTyped, None
<1>6. \A j \in Indices \ {i} : core'[j] = core[j] /\ pinned'[j] = pinned[j]
  BY <1>2 DEF PinInv, PinTyped
<1>7. /\ s \in {"none", "started", "failed", "given", "works"} /\ s # "given" /\ s # "works"
      /\ core'[i] = {} /\ pinned'[i] = {}
  BY <1>1, <1>4 DEF None
<1>8. \A j \in Indices : brooded'[j] = 0 => brooded[j] = 0 /\ (j = i => s = "none")
  BY <1>2, <1>4
<1>9. (\A k \in core'[i] : PlaceOf(config["affinity"].opt, cores', i, k.id))
      /\ \A id \in pinned'[i] : PlaceOf(config["affinity"].opt, cores', i, id)
  BY <1>7
<1>10. config' = config /\ core'[i] = None /\ pinned'[i] = None
  BY <1>2, <1>7 DEF None
<1> QED BY <1>1, <1>3, <1>5, <1>6, <1>7, <1>8, <1>9, <1>10, ThreadMoves

LEMMA RefreshKeepsPlaces == ASSUME IInv, PinInv, Refresh PROVE PinInv'
<1>1. PICK list \in Established(cores, machine) : cores' \in Refreshed(list, machine)
  BY DEF Refresh
<1>2. cores \in CoreLists /\ machine \in SUBSET CoreIds
  BY DEF IInv, Typed, PinInv, PinTyped
<1>3. list \in CoreLists /\ Outlasts(list, cores)
  BY <1>2, EstablishedOutlasts
<1>4. cores' \in CoreLists /\ Outlasts(cores', list)
  BY <1>1, <1>2, <1>3, RefreshedOutlasts
<1>5. Outlasts(cores', cores)
  BY <1>3, <1>4, OutlastsTwice
<1>6. UNCHANGED <<config, thread, core, pinned, brooded>>
  BY DEF Refresh, hiveVars, poolVars
<1>7. \A a \in config["affinity"].opt : \E b \in config'["affinity"].opt : Continues(b, a)
  BY <1>6 DEF Continues
<1>8. HasAffinity(config')
  BY <1>6 DEF PinInv, PinTyped
<1> QED BY <1>4, <1>5, <1>6, <1>7, <1>8, OnlyGrowing

LEMMA InitPlaces == Init => PinInv
<1> SUFFICES ASSUME Init PROVE PinInv
  OBVIOUS
<1>1. HasAffinity(Empty)
  BY DEF HasAffinity, Empty, Unsync, Fields, AffinityCells, AffinityOptions
<1>2. HasAffinity(config)
  <2>1. \A c, opt : HasAffinity(c) => /\ HasAffinity(With(c, "num_threads", opt))
                                      /\ HasAffinity(With(c, "max_retries", opt))
                                      /\ HasAffinity(With(c, "retry_factor", opt))
    BY AffinityKept DEF Fields
  <2> QED BY <1>1, <2>1 DEF Init, WithConstDefaults, WithRetryConstDefaults
<1>3. <<>> \in CoreLists
  BY DEF CoreLists
<1> QED BY <1>2, <1>3 DEF Init, NewPool, PinInv, PinTyped, AtRest, Placed, None

LEMMA NextKeepsPlaces == IInv /\ PinInv /\ [Next]_vars => PinInv'
<1> SUFFICES ASSUME IInv, PinInv, [Next]_vars PROVE PinInv'
  OBVIOUS
<1>1. CASE SetDefaults \/ ChangeMachine \/ UNCHANGED vars
           \/ \E c \in Clients : Brooded(c) \/ Close(c)
  <2>1. UNCHANGED <<config, thread, core, pinned, brooded, cores>>
    BY <1>1 DEF SetDefaults, SetNumThreadsDefault, SetRetryDefaults, ResetDefaults,
                ChangeDefaults, ChangeMachine, Brooded, Close, vars, hiveVars, poolVars,
                machineVars
  <2> QED BY <2>1, NothingPlaced
<1>2. CASE SetUp \/ AsBuilder \/ Refresh
  BY <1>2, SetUpKeepsPlaces, AsBuilderKeepsPlaces, RefreshKeepsPlaces
<1>3. ASSUME NEW c \in Clients, Build(c) \/ Enlarge(c) \/ BroodNext(c) PROVE PinInv'
  BY <1>3, BuildKeepsPlaces, EnlargeKeepsPlaces, BroodNextKeepsPlaces
<1>4. ASSUME NEW i \in Indices, GetCoreAffinity(i) \/ InitThread(i) \/ Panic(i) \/ Leave(i)
      PROVE  PinInv'
  BY <1>4, GetCoreAffinityKeepsPlaces, InitThreadKeepsPlaces, GoneKeepsPlaces
<1> QED BY <1>1, <1>2, <1>3, <1>4 DEF Next

\* However cores come and go, whenever the list is refreshed and the affinity enlarged,
\* and whichever threads panic and are replaced: no two threads are pinned to the same
\* core, if no list of affinity has an index twice.
THEOREM CoresApart == Spec => []DistinctCores
<1>1. Init => IInv /\ PinInv
  BY InitEstablishesIInv, InitPlaces
<1>2. (IInv /\ PinInv) /\ [Next]_vars => (IInv /\ PinInv)'
  BY NextPreservesIInv, NextKeepsPlaces
<1>3. IInv /\ PinInv => DistinctCores
  BY PinnedApart
<1> QED BY <1>1, <1>2, <1>3, PTL DEF Spec
===============================================================================
