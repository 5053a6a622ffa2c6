SPECIFICATION Spec
CONSTANTS
    Base = 4
    Cluster = "simple-trino"
    Role = "coordinator"
    Parts = {"simple-trino", "coordinator", "a", "metrics"}
    GroupNames <- ClashingNames
    Limits = {0, 16, 90, 256, 300}
    Queries = {"1GB"}
    CrdDefault = "5GB"
    DefaultQueryMaxMemory = "50GB"
    DefaultJvmMem = 100
    Unset = Unset
    NoConfig = NoConfig
INVARIANTS
    MergedAlone
    HeapFitsContainer
    QueryMaxMemorySet
    NamesDistinct
