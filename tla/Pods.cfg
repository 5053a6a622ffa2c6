SPECIFICATION FairPodSpec
CONSTANTS
    PodIds <- CoordinatorPods
    MaxRestarts = 0
    g1 = g1
    g2 = g2
    k1 = k1
    k2 = k2
    Groups = {g1}
    NoGroup = NoGroup
    Classes = {k1}
    ClassStates = {"oidc"}
    AggregatorStates = {TRUE}
    MaxReplicas = 2
    SecretValues = {s1, s2}
    Absent = Absent
    NoCluster = NoCluster
    Operators = {p1}
    LeaderElection = FALSE
    Specs <- ScaledSpecs
    Limits <- OneEdit
INVARIANTS
    HttpsEntryHasSecret
PROPERTIES
    Converges
    PodsConverge
    PodsSettle
    AgreementKept
    RunningPodsKept
