-------------------------- MODULE RoleConfigProofs --------------------------
(***************************************************************************)
(* The properties of module RoleConfig, for every set of role groups, every *)
(* memory limit and every base of the units.                               *)
(***************************************************************************)
EXTENDS RoleConfig, SequenceTheorems, TLAPS

-----------------------------------------------------------------------------
(* The heap follows the memory limit.                                        *)

\* Rounding down to a multiple of a unit u.
LEMMA RoundDown ==
    ASSUME NEW a \in Nat, NEW d \in Nat \ {0}
    PROVE  /\ a \div d \in Nat
           /\ d * (a \div d) <= a
           /\ a < d * (a \div d) + d
OBVIOUS

\* The unit divides Base times into what its case accepts.
LEMMA UnitFits ==
    ASSUME NEW v \in Nat, ~HeapSizePanics(v)
    PROVE  HeapUnit(v) \in Nat \ {0} /\ Base * HeapUnit(v) <= v
<1>1. Ki \in Nat \ {0}
  BY BaseIsABase DEF Ki
<1>2. Mi \in Nat \ {0}
  BY BaseIsABase, <1>1 DEF Mi
<1>3. Gi \in Nat \ {0}
  BY BaseIsABase, <1>2 DEF Gi
<1>4. Ti \in Nat /\ Mi = Base * Ki /\ Gi = Base * Mi /\ Ti = Base * Gi
  BY BaseIsABase, <1>3 DEF Mi, Gi, Ti
<1> QED
  BY <1>1, <1>2, <1>3, <1>4 DEF HeapUnit, HeapSizePanics

\* getHeapSize keeps within 8/10 of the limit and loses less than 1/Base of it.
LEMMA Tracks ==
    ASSUME NEW v \in Nat, ~HeapSizePanics(v)
    PROVE  HeapFits(getHeapSize(v), v)
<1> DEFINE u == HeapUnit(v)
           n == HeapAmount(v)
           h == getHeapSize(v)
<1>1. u \in Nat \ {0} /\ Base * u <= v /\ Base \in Nat
  BY UnitFits, BaseIsABase
<1>2. n \in Nat /\ (10 * u) * n <= 8 * v /\ 8 * v < (10 * u) * n + 10 * u
  <2>1. 8 * v \in Nat /\ 10 * u \in Nat \ {0}
    BY <1>1
  <2>2. n = (8 * v) \div (10 * u)
    BY DEF HeapAmount
  <2> HIDE DEF u, n
  <2> QED
    BY <2>1, <2>2, RoundDown
<1>3. h = n * u
  BY DEF getHeapSize
<1> HIDE DEF u, n, h
<1>4. (10 * u) * n = 10 * h /\ h \in Nat
  BY <1>1, <1>2, <1>3
<1>5. 10 * h <= 8 * v /\ 8 * v < 10 * h + 10 * u
  BY <1>2, <1>4
<1>6. Base * (8 * v) < Base * (10 * h + 10 * u)
  BY <1>1, <1>4, <1>5, BaseIsABase
<1>7. Base * (8 * v) = 8 * (Base * v)
  BY <1>1
<1>8. Base * (10 * h + 10 * u) = 10 * (Base * h) + 10 * (Base * u)
  BY <1>1, <1>4
<1>9. /\ Base * v \in Nat /\ Base * h \in Nat /\ Base * u \in Nat
  BY <1>1, <1>4
<1>10. 8 * (Base * v) < 10 * (Base * h) + 10 * v
  BY <1>1, <1>6, <1>7, <1>8, <1>9
<1> QED
  BY <1>5, <1>10 DEF HeapFits, h

-----------------------------------------------------------------------------
(* Names.                                                                    *)

\* Short tuples are sequences.
LEMMA Tuples ==
    ASSUME NEW S, NEW a \in S, NEW b \in S
    PROVE  /\ <<a, b>> \in Seq(S) /\ Len(<<a, b>>) = 2
           /\ <<a>> \in Seq(S) /\ Len(<<a>>) = 1
OBVIOUS

\* A prefix and a suffix that all names share can be cancelled.
LEMMA FullNames ==
    ASSUME NEW g \in Seq(Parts), NEW h \in Seq(Parts)
    PROVE  /\ GetFullName(g) = GetFullName(h) => g = h
           /\ CreateServiceMetricsName(g) = CreateServiceMetricsName(h) => g = h
           /\ CreateServiceMetricsName(g) # GetFullName(<<>>)
           /\ CreateServiceMetricsName(g) = GetFullName(h) => h = g \o <<"metrics">>
<1> DEFINE p == <<Cluster, Role>>
           m == <<"metrics">>
<1>1. p \in Seq(Parts) /\ m \in Seq(Parts) /\ <<>> \in Seq(Parts)
  <2>1. p \in Seq(Parts) /\ m \in Seq(Parts)
    BY NamesHaveParts, Tuples
  <2> QED
    BY <2>1, EmptySeq
<1>2. Len(p) = 2 /\ Len(m) = 1 /\ Len(<<>>) = 0
  OBVIOUS
<1>3. \A s \in Seq(Parts) : GetFullName(s) = p \o s
  BY DEF GetFullName
<1>4. \A s \in Seq(Parts) : CreateServiceMetricsName(s) = (p \o s) \o m
  BY DEF GetFullName, CreateServiceMetricsName
<1> HIDE DEF p, m
<1>5. \A s \in Seq(Parts) : p \o s \in Seq(Parts) /\ Len(p \o s) = Len(p) + Len(s)
  BY <1>1, ConcatProperties
<1>6. GetFullName(g) = GetFullName(h) => g = h
  BY <1>1, <1>3, ConcatSimplifications
<1>7. CreateServiceMetricsName(g) = CreateServiceMetricsName(h) => p \o g = p \o h
  <2>1. CreateServiceMetricsName(g) = (p \o g) \o m /\ CreateServiceMetricsName(h) = (p \o h) \o m
    BY <1>4
  <2>2. p \o g \in Seq(Parts) /\ p \o h \in Seq(Parts)
    BY <1>5
  <2> QED
    BY <1>1, <2>1, <2>2, ConcatSimplifications, Zenon
<1>8. p \o g = p \o h => g = h
  BY <1>1, ConcatSimplifications
<1>9. Len((p \o g) \o m) = Len(p \o g) + Len(m)
  BY <1>1, <1>5, ConcatProperties
<1>10. Len(CreateServiceMetricsName(g)) # Len(GetFullName(<<>>))
  <2>1. CreateServiceMetricsName(g) = (p \o g) \o m /\ GetFullName(<<>>) = p \o <<>>
    BY <1>1, <1>3, <1>4, Zenon
  <2>2. Len(p \o g) = Len(p) + Len(g) /\ Len(p \o <<>>) = Len(p) + Len(<<>>)
    BY <1>1, <1>5, Zenon
  <2>3. Len(g) \in Nat
    BY LenProperties
  <2> QED
    BY <1>2, <1>9, <2>1, <2>2, <2>3
<1>11. CreateServiceMetricsName(g) = GetFullName(h) => h = g \o m
  <2>1. CreateServiceMetricsName(g) = (p \o g) \o m /\ GetFullName(h) = p \o h
    BY <1>3, <1>4
  <2>2. (p \o g) \o m = p \o (g \o m)
    BY <1>1, ConcatAssociative, SMTT(20)
  <2>3. g \o m \in Seq(Parts)
    BY <1>1, ConcatProperties
  <2> QED
    BY <1>1, <2>1, <2>2, <2>3, ConcatSimplifications, Zenon
<1> QED
  BY <1>6, <1>7, <1>8, <1>10, <1>11, Zenon DEF m

-----------------------------------------------------------------------------
(* The pass.                                                                 *)

Kinds == {"configmap", "service", "metrics", "statefulset"}

\* The inductive invariant: during a pass its copy of the role's config is the
\* role's, and what is registered is an object of a role group with the merge of
\* the two configs.
PassInv ==
    /\ config \in MaybeConfig
    /\ DOMAIN groups \subseteq GroupNames
    /\ \A g \in DOMAIN groups : groups[g] \in MaybeConfig
    /\ todo \subseteq DOMAIN groups
    /\ todo # {} => own = config
    /\ \A e \in registered : \E k \in Kinds, g \in DOMAIN groups :
          e = [kind |-> k, group |-> g, config |-> MergeObject(config, groups[g])]

\* What the API server stores is a config.
LEMMA SubmittedConfigs == Submitted \subseteq MaybeConfig
<1>1. ASSUME NEW l \in Limits \cup {Unset}, NEW q \in Queries \cup Zero
      PROVE  Stored(l, q) \in Config
  <2>1. (IF q = Unset THEN CrdDefault ELSE q) \in Queries \cup {CrdDefault, ""}
    BY DEF Zero
  <2> QED
    BY <2>1 DEF Stored, Config
<1> QED
  BY <1>1 DEF Submitted, MaybeConfig

\* A merge of configs is one.
LEMMA MergedConfig ==
    ASSUME NEW l \in MaybeConfig, NEW r \in MaybeConfig
    PROVE  MergeObject(l, r) \in MaybeConfig
BY DEF MergeObject, MaybeConfig, Config, Zero

\* Edits, the start of a pass and each iteration keep the invariant.
LEMMA PassStep ==
    ASSUME PassInv, [Next]_vars
    PROVE  PassInv'
<1>1. CASE EditRole
  BY <1>1, SubmittedConfigs DEF EditRole, BetweenPasses, PassInv
<1>2. ASSUME NEW g \in GroupNames, EditGroup(g)
      PROVE  PassInv'
  <2>1. PICK c \in Submitted :
           groups' = [h \in DOMAIN groups \cup {g} |-> IF h = g THEN c ELSE groups[h]]
    BY <1>2 DEF EditGroup
  <2>2. c \in MaybeConfig
    BY <2>1, SubmittedConfigs
  <2> QED
    BY <1>2, <2>1, <2>2 DEF EditGroup, BetweenPasses, PassInv
<1>3. ASSUME NEW g \in GroupNames, RemoveGroup(g)
      PROVE  PassInv'
  BY <1>3 DEF RemoveGroup, BetweenPasses, PassInv
<1>4. ASSUME NEW g \in GroupNames, RegisterGroup(g)
      PROVE  PassInv'
  <2>1. g \in DOMAIN groups /\ own = config
    BY <1>4 DEF RegisterGroup, PassInv
  <2>2. ASSUME NEW e \in registered'
        PROVE  \E k \in Kinds, h \in DOMAIN groups :
                  e = [kind |-> k, group |-> h, config |-> MergeObject(config, groups[h])]
    BY <1>4, <2>1 DEF RegisterGroup, registerResourceWithRoleGroup, PassInv, Kinds
  <2>3. /\ config' = config /\ groups' = groups /\ own' = own
        /\ todo' \subseteq todo
    BY <1>4 DEF RegisterGroup
  <2> QED
    BY <2>1, <2>2, <2>3 DEF PassInv
<1>5. CASE StartPass
  BY <1>5 DEF StartPass, BetweenPasses, PassInv
<1>6. CASE UNCHANGED vars
  BY <1>6 DEF PassInv, vars
<1> QED
  BY <1>1, <1>2, <1>3, <1>4, <1>5, <1>6 DEF Next

\* What the properties say, from the invariant.
LEMMA PassProperties ==
    ASSUME PassInv
    PROVE  MergedAlone /\ HeapFitsContainer /\ QueryMaxMemorySet /\ NamesDistinct
<1>1. ASSUME NEW e \in registered
      PROVE  /\ e.kind \in Kinds
             /\ e.group \in DOMAIN groups
             /\ e.config = MergeObject(config, groups[e.group])
             /\ e.config \in MaybeConfig
  <2>1. PICK k \in Kinds, g \in DOMAIN groups :
           e = [kind |-> k, group |-> g, config |-> MergeObject(config, groups[g])]
    BY <1>1 DEF PassInv
  <2>2. MergeObject(config, groups[g]) \in MaybeConfig
    BY MergedConfig DEF PassInv
  <2> QED
    BY <2>1, <2>2
<1>2. MergedAlone
  BY <1>1 DEF MergedAlone
<1>3. HeapFitsContainer
  <2> SUFFICES ASSUME NEW m \in registered, NEW s \in registered, m.group = s.group,
                      ~HeapSizePanics(Memory(m.config)), ContainerLimit(s.config) # Unset
               PROVE  HeapFits(getHeapSize(Memory(m.config)), ContainerLimit(s.config))
    BY DEF HeapFitsContainer
  <2>1. m.config = s.config /\ s.config \in MaybeConfig
    BY <1>1
  <2>2. s.config \in Config /\ s.config.limit # Unset
    BY <2>1 DEF ContainerLimit, MaybeConfig
  <2>3. s.config.limit \in Nat /\ s.config # NoConfig
    BY <2>2, LimitsAreNats, NoConfigIsNone DEF Config
  <2>4. Memory(m.config) = s.config.limit /\ ContainerLimit(s.config) = s.config.limit
    BY <2>1, <2>2, <2>3 DEF Memory, ContainerLimit
  <2> QED
    BY <2>3, <2>4, Tracks
<1>4. QueryMaxMemorySet
  <2> SUFFICES ASSUME NEW m \in registered, QueryMaxMemory(m.config) \in Zero,
                      NEW c \in {config, groups[m.group]} \ {NoConfig}
               PROVE  c.query = ""
    BY DEF QueryMaxMemorySet
  <2> DEFINE g == groups[m.group]
  <2>1. m.config = MergeObject(config, g) /\ m.config # NoConfig
    BY <1>1, UnsetIsUnset DEF QueryMaxMemory, Zero
  <2>2. config \in MaybeConfig /\ g \in MaybeConfig
    BY <1>1 DEF PassInv
  <2> HIDE DEF g
  <2>3. m.config.query \in Zero
    BY <2>1 DEF QueryMaxMemory
  <2>4. \A d \in Config : d.query \in Zero => d.query = ""
    BY UnsetIsUnset DEF Config, Zero
  <2>5. \A d \in {config, g} \ {NoConfig} : d \in Config /\ d.query \in Zero
    BY <2>1, <2>2, <2>3 DEF MergeObject, MaybeConfig
  <2> QED
    BY <2>4, <2>5 DEF g
<1>5. NamesDistinct
  <2> DEFINE All == registered \cup {RoleService}
  <2> SUFFICES ASSUME NEW e \in All, NEW f \in All,
                      ApiKind(e) = ApiKind(f), NameOf(e) = NameOf(f)
               PROVE  \/ e.kind = f.kind /\ e.group = f.group
                      \/ MetricsClash(e, f) \/ MetricsClash(f, e)
    BY DEF NamesDistinct
  <2>1. ASSUME NEW x \in All
        PROVE  \/ x.kind \in Kinds /\ x.group \in Seq(Parts) /\ x.group # <<>>
               \/ x.kind = "roleservice" /\ x.group = <<>>
    BY <1>1, NamesHaveParts DEF RoleService, PassInv
  <2>2. e.group \in Seq(Parts) /\ f.group \in Seq(Parts)
    BY <2>1, EmptySeq
  <2>3. CASE e.kind = "metrics"
    <3>1. CASE f.kind = "metrics"
      BY <2>2, <2>3, <3>1, FullNames DEF NameOf
    <3>2. CASE f.kind = "roleservice"
      <4>1. NameOf(e) = CreateServiceMetricsName(e.group) /\ NameOf(f) = GetFullName(<<>>)
        BY <2>1, <2>3, <3>2 DEF NameOf, Kinds
      <4> QED
        BY <2>2, <4>1, FullNames
    <3>3. CASE f.kind = "service"
      <4>1. NameOf(e) = CreateServiceMetricsName(e.group) /\ NameOf(f) = GetFullName(f.group)
        BY <2>3, <3>3 DEF NameOf
      <4> QED
        BY <2>2, <2>3, <3>3, <4>1, FullNames DEF MetricsClash
    <3> QED
      BY <2>1, <2>3, <3>1, <3>2, <3>3 DEF ApiKind, Kinds
  <2>4. CASE f.kind = "metrics"
    <3>1. CASE e.kind = "roleservice"
      <4>1. NameOf(f) = CreateServiceMetricsName(f.group) /\ NameOf(e) = GetFullName(<<>>)
        BY <2>1, <2>4, <3>1 DEF NameOf, Kinds
      <4> QED
        BY <2>2, <4>1, FullNames
    <3>2. CASE e.kind = "service"
      <4>1. NameOf(f) = CreateServiceMetricsName(f.group) /\ NameOf(e) = GetFullName(e.group)
        BY <2>4, <3>2 DEF NameOf
      <4> QED
        BY <2>2, <2>4, <3>2, <4>1, FullNames DEF MetricsClash
    <3> QED
      BY <2>1, <2>3, <2>4, <3>1, <3>2 DEF ApiKind, Kinds
  <2>5. CASE e.kind # "metrics" /\ f.kind # "metrics"
    <3>1. e.group = f.group
      BY <2>2, <2>5, FullNames DEF NameOf
    <3> QED
      BY <2>1, <2>5, <3>1 DEF ApiKind, Kinds
  <2> QED
    BY <2>3, <2>4, <2>5
<1> QED
  BY <1>2, <1>3, <1>4, <1>5

\* The invariant of the passes, for every set of role groups, configs and memory
\* limits, and whatever the order of the range over the map.
THEOREM PassInvariant == Spec => []PassInv
<1>1. Init => PassInv
  BY DEF Init, PassInv, MaybeConfig
<1>2. PassInv /\ [Next]_vars => PassInv'
  BY PassStep
<1> QED
  BY <1>1, <1>2, PTL DEF Spec

\* Every role group gets the merge of its own config with the role's, whatever
\* groups were merged before it in this pass and in earlier ones.
THEOREM MergeCorrect == Spec => []MergedAlone
BY PassInvariant, PassProperties, PTL

\* The heap its JVM is given fits the memory its container is given.
THEOREM HeapCorrect == Spec => []HeapFitsContainer
BY PassInvariant, PassProperties, PTL

\* An empty query.max-memory comes only from an explicit empty value, in every config
\* there is for the role group.
THEOREM QueryMemoryCorrect == Spec => []QueryMaxMemorySet
BY PassInvariant, PassProperties, PTL

\* The names of the objects clash in no other way than through "-metrics".
THEOREM NamesCorrect == Spec => []NamesDistinct
BY PassInvariant, PassProperties, PTL
=============================================================================
