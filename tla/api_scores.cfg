SPECIFICATION Spec
CONSTANTS
    ada = ada
    bob = bob
    cyd = cyd
    hr = hr
    it = it
    s1 = s1
    s2 = s2
    h1 = h1
    h2 = h2
    i1 = i1
    q1 = q1
    q2 = q2
    Null = Null
    Users = {ada, bob, cyd}
    Domains = {hr, it}
    Slots = {s1, s2}
    Beginnings <- Asking
    Ttls = {30, 60}
    DefaultTtl = 30
    AdminEmails = {cyd}
    Queries = {q1, q2}
    Questions <- SomeQuestions
    Chunks = {h1, h2, i1}
    HomeOf <- SomeHomes
    Indexed = {h1, i1}
    TopK = 1
SYMMETRY Symmetric
CHECK_DEADLOCK FALSE
INVARIANT
    GraphScoresAreOwn
