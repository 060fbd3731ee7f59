\* The handler's map has 53 chains; three are enough for a long, a short and an
\* empty one.
SPECIFICATION StorageSpec
CONSTANTS
  BUFFER_SIZE = 3
  Values = {a, b}
  NoValue = NoValue
  Keys = {1, 2, 3, 4}
  tableSize = 3
  hashFunc <- Chained
  Data = {x, y}
  nullptr = nullptr
  Percents = {0, 30, 100}
  Uninitialized = Uninitialized
  NoData = NoData
INVARIANT EncodingSound
PROPERTIES ImplementsFifo ImplementsDictionary SavedComesBack
