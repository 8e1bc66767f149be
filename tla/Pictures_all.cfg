SPECIFICATION PicturesSpec
CONSTANTS
  w1 = w1
  w2 = w2
  m1 = m1
  Windows <- SomeWindows
  Movies <- SomeMovies
  Chunk = 2
  MaxHandles = 9
  MaxImages = 3
  OwnImagesOnly = TRUE
  n1 = n1
  n2 = n2
  n3 = n3
  c1 = c1
  c2 = c2
  c3 = c3
  Names <- SomeNames
  Chrs <- SomeChrs
  MAXCHRS = 2
  MaxEntities = 4
  numtiles = 23
  anims <- Mixed
  MaxTime = 11
INVARIANTS
  FreeListSound
  KeepsImage
  NothingLost
  WearsWhatWasAsked
  CacheExact
  TileInv
  TilesOnTime
PROPERTIES
  PoolKept
  RefusedOnlyWhenFull
CHECK_DEADLOCK FALSE
