CONSTANTS
  Null = Null Nothing = Nothing
  Places = {p1, p2}
  Files = {f1, f2}
  Bytes = {b1, b2}
  MaxId = 5
  Limit = 2
  Modules = {m}
  DataFields = {d1, d2}
  RowFields = {position}
  position = position
  Pages = {pg}
  Proposals = {q1, q2}
  MaxStamp = 4
SPECIFICATION Spec
INVARIANTS TypeOK ServedIsReviewed DiskFollowsRows PagedOnce VersionIdentifiesState NoBlindOverwrite
PROPERTIES NothingVanishes OnlyNamedFields
CHECK_DEADLOCK FALSE
