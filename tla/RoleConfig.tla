----------------------------- MODULE RoleConfig -----------------------------
(***************************************************************************)
(* RegisterResources of a role: one iteration per role group, in the order *)
(* of a Go map, that merges the config of the role with that of the group  *)
(* and registers the group's four objects with the merged config; and the  *)
(* names of those objects.  Of a config only the memory limit and          *)
(* queryMaxMemory are kept.                                                *)
(*                                                                         *)
(* A pass works on its own copy of the cluster (module TrinoOperator), so  *)
(* edits happen between passes here.  A name is the sequence of its parts  *)
(* between dashes; that of the cluster counts as one part.                 *)
(***************************************************************************)
EXTENDS HeapSize, Sequences

CONSTANTS
    Cluster, Role,      \* the names of the cluster and of the role
    Parts,              \* the parts of names
    GroupNames,         \* the names a role group may have
    Limits,             \* memory limits; 0 is memory given without its limit, which Go
                        \* reads as the zero quantity
    Queries,            \* values of queryMaxMemory a user may give, besides ""
    CrdDefault,         \* the CRD's default for queryMaxMemory
    DefaultQueryMaxMemory,
    DefaultJvmMem,      \* the memory assumed without a limit
    Unset,              \* a field that is not given
    NoConfig            \* no config at all

ASSUME LimitsAreNats == Limits \subseteq Nat /\ DefaultJvmMem \in Nat
ASSUME UnsetIsUnset ==
    /\ Unset \notin Limits
    /\ {Unset, ""} \cap (Queries \cup {CrdDefault, DefaultQueryMaxMemory}) = {}
ASSUME NamesHaveParts ==
    /\ Cluster \in Parts /\ Role \in Parts /\ "metrics" \in Parts
    /\ GroupNames \subseteq Seq(Parts) \ {<<>>}

\* What Go reads as the zero value of a string field.
Zero == {Unset, ""}

\* A config as the API server stores it.
Config == [limit : Limits \cup {Unset}, query : Queries \cup {CrdDefault, ""}]
MaybeConfig == Config \cup {NoConfig}

ASSUME NoConfigIsNone == NoConfig \notin Config

VARIABLES
    config,         \* spec.<role>.config
    groups,         \* spec.<role>.roleGroups: name to config
    own,            \* the role's config in the pass's copy
    todo,           \* the role groups the pass has still to visit
    registered      \* what it has registered: kind, group and config of each

vars == <<config, groups, own, todo, registered>>

Init ==
    /\ config = NoConfig
    /\ groups = [g \in {} |-> NoConfig]
    /\ own = NoConfig
    /\ todo = {}
    /\ registered = {}

-----------------------------------------------------------------------------
(* The user, between passes.                                                 *)

\* Mutant: a CRD without the default.
NoDefault(limit, query) == [limit |-> limit, query |-> query]

\* A config that is given gets the CRD's default for a field that is left out, not for
\* an explicit ""; a config that is not given stays absent.
Stored(limit, query) ==
    [limit |-> limit, query |-> IF query = Unset THEN CrdDefault ELSE query]

Submitted ==
    {NoConfig} \cup {Stored(l, q) : l \in Limits \cup {Unset}, q \in Queries \cup Zero}

BetweenPasses == todo = {} /\ registered' = {}

EditRole ==
    /\ BetweenPasses
    /\ config' \in Submitted
    /\ UNCHANGED <<groups, own, todo>>

EditGroup(g) ==
    /\ BetweenPasses
    /\ \E c \in Submitted :
          groups' = [h \in DOMAIN groups \cup {g} |-> IF h = g THEN c ELSE groups[h]]
    /\ UNCHANGED <<config, own, todo>>

RemoveGroup(g) ==
    /\ BetweenPasses
    /\ g \in DOMAIN groups
    /\ groups' = [h \in DOMAIN groups \ {g} |-> groups[h]]
    /\ UNCHANGED <<config, own, todo>>

-----------------------------------------------------------------------------
(* The pass.                                                                 *)

StartPass ==
    /\ BetweenPasses
    /\ own' = config
    /\ todo' = DOMAIN groups
    /\ UNCHANGED <<config, groups>>

\* util.MergeObject: a field of the group wins where it is set, memory without a
\* limit included; an empty string is not set.
MergeObject(left, right) ==
    IF right = NoConfig THEN left
    ELSE IF left = NoConfig THEN right
    ELSE [limit |-> IF right.limit = Unset THEN left.limit ELSE right.limit,
          query |-> IF right.query \in Zero THEN left.query ELSE right.query]

\* Mutant: the ConfigMap gets the config of the role.
ConfigMapUnmerged(g, merged) ==
    {[kind |-> "configmap", group |-> g, config |-> own]}
        \cup {[kind |-> k, group |-> g, config |-> merged] : k \in {"service", "metrics", "statefulset"}}

\* All four reconcilers of a role group are made from the merged config (of which
\* the Services use nothing).
registerResourceWithRoleGroup(g, merged) ==
    {[kind |-> k, group |-> g, config |-> merged] :
        k \in {"configmap", "service", "metrics", "statefulset"}}

\* Mutant: the merge writes into the config of the role.
RegisterInPlace(g) ==
    /\ g \in todo
    /\ todo' = todo \ {g}
    /\ own' = MergeObject(own, groups[g])
    /\ registered' = registered
            \cup registerResourceWithRoleGroup(g, MergeObject(own, groups[g]))
    /\ UNCHANGED <<config, groups>>

\* One iteration of the range over r.Spec.RoleGroups.
RegisterGroup(g) ==
    /\ g \in todo
    /\ todo' = todo \ {g}
    /\ registered' = registered
            \cup registerResourceWithRoleGroup(g, MergeObject(own, groups[g]))
    /\ UNCHANGED <<config, groups, own>>

Next ==
    \/ EditRole
    \/ \E g \in GroupNames : EditGroup(g) \/ RemoveGroup(g) \/ RegisterGroup(g)
    \/ StartPass

Spec == Init /\ [][Next]_vars

-----------------------------------------------------------------------------
(* What is made of the merged config.                                        *)

\* The memory getHeapSize starts from: that of the config, even without a limit.
Memory(c) == IF c = NoConfig \/ c.limit = Unset THEN DefaultJvmMem ELSE c.limit

\* query.max-memory of config.properties.
QueryMaxMemory(c) == IF c = NoConfig THEN DefaultQueryMaxMemory ELSE c.query

\* The memory limit of the container.
ContainerLimit(c) == IF c = NoConfig THEN Unset ELSE c.limit

-----------------------------------------------------------------------------
(* Names.                                                                    *)

GetFullName(g) == <<Cluster, Role>> \o g

\* Mutant: the Service for metrics is named like the group's own.
PlainServiceName(g) == GetFullName(g)

CreateServiceMetricsName(g) == GetFullName(g) \o <<"metrics">>

\* The Service of the coordinator role, which the cluster registers.
RoleService == [kind |-> "roleservice", group |-> <<>>, config |-> NoConfig]

ApiKind(e) == IF e.kind \in {"service", "metrics", "roleservice"} THEN "Service" ELSE e.kind

NameOf(e) ==
    IF e.kind = "metrics" THEN CreateServiceMetricsName(e.group) ELSE GetFullName(e.group)

-----------------------------------------------------------------------------

\* What a role group gets does not depend on the other groups of its role or on the
\* order in which the range over the map visits them.
MergedAlone ==
    \A e \in registered : e.config = MergeObject(config, groups[e.group])

\* The heap in the ConfigMap of a role group fits the memory limit that its
\* StatefulSet sets on the container, wherever the two fields were given, unless
\* getHeapSize panics.
HeapFitsContainer ==
    \A m, s \in registered :
        /\ m.kind = "configmap" /\ s.kind = "statefulset" /\ m.group = s.group
        /\ ~HeapSizePanics(Memory(m.config))
        /\ ContainerLimit(s.config) # Unset
        => HeapFits(getHeapSize(Memory(m.config)), ContainerLimit(s.config))

\* A ConfigMap has an empty query.max-memory only where a user asked for it: every
\* config there is, of the role and of the group, says "" itself.  A field or a
\* config left out never leads to it, and a value of the role is not lost to an
\* empty one of the group.
QueryMaxMemorySet ==
    \A m \in registered :
        m.kind = "configmap" /\ QueryMaxMemory(m.config) \in Zero =>
            \A c \in {config, groups[m.group]} \ {NoConfig} : c.query = ""

\* The metrics Service of a group, and the Service of another that is named like it.
MetricsClash(e, f) ==
    e.kind = "metrics" /\ f.kind = "service" /\ f.group = e.group \o <<"metrics">>

\* Two different objects of a role share a name in one case only: the metrics Service
\* of a group and the Service of a group with that name and "-metrics".
NamesDistinct ==
    \A e, f \in registered \cup {RoleService} :
        ApiKind(e) = ApiKind(f) /\ NameOf(e) = NameOf(f) =>
            \/ e.kind = f.kind /\ e.group = f.group
            \/ MetricsClash(e, f) \/ MetricsClash(f, e)
=============================================================================
