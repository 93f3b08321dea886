----------------------------- MODULE MCDatabase -----------------------------
EXTENDS DatabaseProps, TLC

RequestSymmetry ==
    Permutations(DocWrites) \union Permutations(QuietWrites)
      \union Permutations(Compactions)
=============================================================================
