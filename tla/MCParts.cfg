SPECIFICATION Spec
CONSTANTS
  Component = {app, engine}
  Unread = Unread
  Limits <- MCLimits
  MaxSaid = 6
  Chunk = {k1, k2}
  Tenant = {a, b}
  Client = {c}
  Level = {0, 1}
  VectorWeight = 6
  LexicalWeight = 4
  MaxTop = 2
  Nobody = Nobody
  Missing = Missing
  Session = {s1, s2}
  MaxRows = 3
INVARIANTS
  OneConfiguration
  RecentIntact
  CompressionShrinks
  SearchStaysInTenant
PROPERTIES
  FileOfTheEnvironment
  OlderTextQuoted
  GapBreaksScope
  AllOrNothing
CHECK_DEADLOCK FALSE
