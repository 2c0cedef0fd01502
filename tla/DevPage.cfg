\* Two edits anywhere, in two sessions, two compiles at a time, one page.
SPECIFICATION PageSpec
CONSTANTS
  index = index
  post = post
  shared = shared
  renamed = renamed
  header = header
  Files = {index, post, shared, renamed, header}
  Start = {post, shared, header}
  Routes = {index, post}
  Headers = {header}
  UnitsOf <- UnitsOfDef
  Symbol <- SymbolDef
  Base <- BaseDef
  Rank <- RankDef
  Jobs = 2
  MaxEdits = 2
  MaxSessions = 2
INVARIANTS
  TypeOK
  ReadyServesItsObjects
PROPERTIES
  EditsSettled
  ReloadDelivered
CHECK_DEADLOCK FALSE
