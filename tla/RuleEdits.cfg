\* Two edits that may overlap, two names, two secrets, one delivery.
SPECIFICATION Spec
CONSTANTS
    Requests = {r1, r2}
    Names = {n1, n2}
    Secrets = {s1, s2}
    Deliveries = {d1}
    Files <- MCFiles
    Outcomes = {"whole", "cut", "failed"}
    NoSecret = NoSecret
    Keep = Keep
    Unsent = Unsent
    Seed = Seed
    NoRule = NoRule
    NoDelivery = NoDelivery
    NoRow = NoRow
    NoListing = NoListing
SYMMETRY Symmetry
INVARIANTS
    TypeOK
    OneRulePerName
    NeverUnsigned
    EngineIsCurrent
PROPERTIES
    DeletedStaysDeleted
    SecretsChangeOnPurpose
    RotationReachesRetries
