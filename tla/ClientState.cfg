\* The constants of ClientNav.cfg.
SPECIFICATION Spec
CONSTANTS
  home = home
  list = list
  nav = nav
  counter = counter
  Pages = {home, list}
  Header <- HeaderDef
  Footer <- FooterDef
  PageRoots <- PageRootsDef
  MaxSlots = 3
  MaxFetches = 2
  FetchSlots = 1
  SfPendingMax = 2
  FetchMax = 2
  MaxListeners = 2
  None = None
INVARIANT ClientStateAgrees
