SPECIFICATION Spec
CONSTANTS
    d1 = d1
    d2 = d2
    Id = {d1, d2}
    Views <- MCDisputes
    Facts <- MCNoFacts
    Lists = {"disputes"}
    Task = {t1, t2}
    None = None
INVARIANT VenueOfThisDispute
