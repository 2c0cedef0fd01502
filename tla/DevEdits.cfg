\* The constants of DevPage.cfg.
SPECIFICATION PageSpec
CONSTANTS
  index = index
  post = post
  shared = shared
  renamed = renamed
  header = header
  Files = {index, post, shared, renamed, header}
  Start = {post, shared, header}
  Routes = {index, post}
  Headers = {header}
  UnitsOf <- UnitsOfDef
  Symbol <- SymbolDef
  Base <- BaseDef
  Rank <- RankDef
  Jobs = 2
  MaxEdits = 2
  MaxSessions = 2
PROPERTY EditsShown
CHECK_DEADLOCK FALSE
