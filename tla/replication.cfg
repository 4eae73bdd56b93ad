CONSTANTS
    Node = {n1, n2, n3}
    Command = {c1}
    TermStart = TermStart
    None = None
    UsePreVote = FALSE
    UseCheckQuorum = FALSE
    MaxEntries = 1
    SlowSend = FALSE
    Starts <- RunningCluster
    MaxCampaign = 2
    MaxStale = 0
    MaxHeartbeat = 1
    MaxCommand = 2
    MaxCrash = 0
    MaxTorn = 0
    MaxStop = 0
SPECIFICATION Spec
SYMMETRY NodeSymmetry
INVARIANTS RunsWhatIsCommitted AckMeansStored IndexesOrdered LeaderCompleteness OneLeaderPerTerm
PROPERTY CommittedPrefixStable
CHECK_DEADLOCK FALSE
VIEW LiveView
