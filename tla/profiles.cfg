CONSTANTS
    p = p
    q = q
    dev = dev
    test = test
    x = x
    url = url
    pass = pass
    first = first
    second = second
    me = me
    you = you
    old = old
    new = new
    None = None
    Profiles = {dev, test}
    Variables = {url, pass}
    Values = {x}
    Requests = {first}
    Keys = {me, you}
    Me = me
    Rests = {old, new}
    Procs = {p, q}
    InitialContents <- Projects
    Pulled <- Colleagues
    MaxEdits = 2
    MaxDeaths = 1
    MaxPulls = 1
SPECIFICATION Spec
INVARIANTS
    IInv
    EncryptedForRecipients
    OnlyReviewedIsTrusted
PROPERTIES
    ImplementsStore
SYMMETRY Symmetric
CHECK_DEADLOCK FALSE
