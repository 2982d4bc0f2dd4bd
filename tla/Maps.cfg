CONSTANTS
  Absent = Absent
  NoKey = NoKey
  NoValue = NoValue
  Keys = {c, d}
  Vals = {u, v}
  MapAsked <- CollideAtFirst
  Hash <- AllCollide
  InitLength = 4
  LoadFactor = 99
  MaxEntries = 2
  MaxRecords = 2
  MaxLength = 8
  MaxTombstones = 2
SPECIFICATION SpecEither
SYMMETRY Interchangeable
INVARIANTS
  TypesOK
  EverythingAccounted
PROPERTY
  PromisesKept
