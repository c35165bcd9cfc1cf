CONSTANTS
    c1 = c1
    c2 = c2
    m1 = m1
    t1 = t1
    t2 = t2
    budget1 = budget1
    tea = tea
    pin = pin
    deed = deed
    noise = noise
    spam = spam
    dull = dull
    Clients = {c1, c2}
    Ids = {m1}
    Texts = {t1, t2}
    Facts = {tea, pin, deed, noise, spam, dull}
    BudgetKey = budget1
    category <- MCCategory
    flagged = {spam}
    salient = {tea, pin, deed, noise, spam}
    InitialBudget = 1
    ChosenKeys <- MCChosenKeys
    MaxIds = 3
    MaxOpen = 1
    MaxEmbedding = 2
SYMMETRY MCSymmetry
SPECIFICATION Spec
CHECK_DEADLOCK FALSE
INVARIANTS
    TypeOK
    CodeSpentOnce
    ActsWithinConsent
    IndexExact
    SensitiveNeedsConsent
