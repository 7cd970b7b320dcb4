SPECIFICATION MCSpec
CONSTANTS
    Calls <- MCCalls
    None = None
    PathKinds = {"conn", "ns", "nse"}
    Routes <- MCRoutes
    Forwarder = {"f1", "f2"}
    Endpoint = {"e1", "e2"}
    NsLabels <- MCNsLabels
    Matches <- MCMatches
    LabelsOf <- MCLabelsOf
    Template <- MCTemplate
    MaxChanges = 1
    Conn = {"c1", "c2", "c3"}
    Owners <- MCOwners
    MaxOpen = 2
    Id = {"i", "j"}
    MaxRegistrations = 6
    MaxCalls = 4
INVARIANTS CallsTakeTheChain PathIsRoute ForwarderIsKept AllCandidatesAreTried AuthorizationFits
PROPERTY IdsAreKept
