SPECIFICATION FairSpec
CONSTANTS
    g1 = g1
    g2 = g2
    k1 = k1
    k2 = k2
    Groups = {g1}
    NoGroup = NoGroup
    Classes = {k1, k2}
    ClassStates = {"oidc", "ldap", "static", "other", "missing"}
    AggregatorStates = {TRUE, FALSE}
    MaxReplicas = 1
    SecretValues = {s1, s2, s3}
    Absent = Absent
    NoCluster = NoCluster
    Operators = {p1}
    LeaderElection = FALSE
    Specs <- TwoClassesSpecs
    Limits <- OneClassEdit
INVARIANTS
    EstablishedFits
PROPERTIES
    Converges
    Quiesces
