CONSTANTS
  w1 = w1
  w2 = w2
  l1 = l1
  e1 = e1
  NoFile = NoFile
  Partial = Partial
  Nobody = Nobody
  Provisioners = {w1, w2}
  Launches = {l1}
  Evictors = {e1}
  Faults = {"lock", "open", "copy", "sha_open", "sha_write", "manifest", "remove"}
SPECIFICATION FairSpec
INVARIANT
  QuiescentEntrySound
PROPERTIES
  EntryChangesInOnePiece
  EveryoneAdvances
  EveryoneFinishes
\* Every process of an instance ends.
CHECK_DEADLOCK FALSE
