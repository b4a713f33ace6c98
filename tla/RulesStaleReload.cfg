\* Two overlapping edits of one rule.
SPECIFICATION Spec
CONSTANTS
    Requests = {r1, r2}
    Names = {n1}
    Secrets = {s1}
    Deliveries = {d1}
    Files <- MCFiles
    Outcomes = {"whole"}
    NoSecret = NoSecret
    Keep = Keep
    Unsent = Unsent
    Seed = Seed
    NoRule = NoRule
    NoDelivery = NoDelivery
    NoRow = NoRow
    NoListing = NoListing
SYMMETRY Symmetry
INVARIANTS
    EditsTakeEffect
