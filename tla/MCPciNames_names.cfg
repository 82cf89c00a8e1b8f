SPECIFICATION Spec
CONSTANTS
  Key = {k1, k2, k3}
  LocalKeys = {k1, k2}
  HwdbKeys = {k1, k3}
  NetKeys = {k2, k3}
  Modes <- SomeModes
INVARIANTS
  TypeOK
  CachedNamesAreAnswers
  LocalListStaysWhole
  GivesUpAfterAllSources
  FlushFindsHash
PROPERTIES
  CacheKeepsWhatItRead
  LookupEnds
