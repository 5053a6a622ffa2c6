SPECIFICATION PodSpec
CONSTANTS
    PodIds <- WorkerPod
    MaxRestarts = 1
    g1 = g1
    g2 = g2
    k1 = k1
    k2 = k2
    Groups = {g1, g2}
    NoGroup = NoGroup
    Classes = {k1}
    ClassStates = {"oidc"}
    AggregatorStates = {TRUE}
    MaxReplicas = 1
    SecretValues = {s1, s2, s3}
    Absent = Absent
    NoCluster = NoCluster
    Operators = {p1}
    LeaderElection = FALSE
    Specs <- RenameSpecs
    Limits <- OneEdit
SYMMETRY SecretSymmetry
INVARIANTS
    WorkerDiscoveryResolves
    PodDiscoveryResolves
