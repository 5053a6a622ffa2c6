SPECIFICATION Spec
CONSTANTS
    g1 = g1
    g2 = g2
    k1 = k1
    k2 = k2
    Groups = {g1}
    NoGroup = NoGroup
    Classes = {k1}
    ClassStates = {"oidc"}
    AggregatorStates = {TRUE}
    MaxReplicas = 1
    SecretValues = {s1, s2, s3}
    Absent = Absent
    NoCluster = NoCluster
    Operators = {p1, p2}
    LeaderElection = FALSE
    Specs <- NoGroupsTls
    Limits <- OneOfEachFault
SYMMETRY SecretSymmetry
PROPERTIES
    SettledSecretKept
    EstablishedKept
