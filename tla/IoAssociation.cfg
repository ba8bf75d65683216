SPECIFICATION Spec
CONSTANTS
    Sources = {s1, s2}
    Actors = {a1, a2, a3}
    LocalSources = {s1}
    LocalActors = {a1, a2}
    Routes = {r1, r2}
    NoRoute = NoRoute
    Rates = {100, NoRate}
    NoRate = NoRate
INVARIANTS
    AssociationsConsistent
    LocalEndsAgree
    SourceStateCurrent
