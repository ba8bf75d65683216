----------------------------- MODULE MCObjectCache -----------------------------
\* The subscribers of the cache, one for each request, as internal subscribers.
EXTENDS ObjectCache, TLC

MCInternal == {<<"cache", c>> : c \in Requests}
Symmetry == Permutations(Subscribers)
=============================================================================
