SPECIFICATION FairSpec
CONSTANTS
    Hosts = {"home", "pool"}
    IPs = {"a", "b"}
    None = None
    MaxUpsets = 3
INVARIANT SnapshotHonest
PROPERTY RecordFollows
