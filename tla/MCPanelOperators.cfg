SPECIFICATION PanelSpec
CONSTANTS
    Requests = {r1, r2}
    RunAttempts = 2
    Menus = {"server", "serverprofile", "userprofile", "garden", "gardenip", "pool", "vlan"}
    Ids = {1, 2}
    Names = {"hs", "lan"}
    NewProperties = {"off"}
    NoId = 0
    Kinds = {"address", "nat", "dns"}
    Forms <- MCForms
    MaxRemovals = 1
    MaxLateAdds = 1
CONSTRAINTS PagesBound InstallBound
SYMMETRY RequestSymmetry
INVARIANTS DoneMeansWritten RerunsAddNoDuplicates CompleteMeansConfigured
PROPERTIES DeleteTellsTheTruth
