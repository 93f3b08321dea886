--------------------------- MODULE MCDatabaseLife ---------------------------
EXTENDS DatabaseLife, TLC

RequestSymmetry ==
    Permutations(Writes) \union Permutations(Compactions) \union Permutations(Deletes)
=============================================================================
