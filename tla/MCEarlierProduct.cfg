SPECIFICATION EarlierSpec
CONSTANTS
    User = {u1, u2}
    Claim = {c1}
    Listing = {l1}
    Dispute = {d1, d2}
    Call = {x1, x2}
    Given = {"ACTIVE"}
    MaxLog = 3
    None = None
    ada = ada
    issuer = issuer
    Address = {ada, issuer}
    lower = lower
    mixed = mixed
    Spelling = {lower, mixed}
    mock = mock
    own = own
    Password = {mock, own}
    TypedLogins <- MCTypedLogins
    demo = issuer
    demoPassword = mock
    Tab = {t1, t2}
    Fetch = {x1, x2}
    Nil = Nil
SYMMETRY MCSymmetry
INVARIANTS LogTellsStatus NavShowsTheUser
