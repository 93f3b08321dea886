SPECIFICATION Spec
CONSTANTS
  Keys <- MCKeys
  Values <- MCValues
  Weight <- MCWeight
  CHUNK_SIZE = 2
  Batches <- MCBatches
INVARIANTS TreeIsSound
PROPERTIES IsDictionary RoundsShrink
