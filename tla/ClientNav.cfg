\* Event table of three slots for two roots: two pages landing after one reset fill it. Two fetches share one response buffer.
SPECIFICATION Spec
CONSTANTS
  home = home
  list = list
  nav = nav
  counter = counter
  Pages = {home, list}
  Header <- HeaderDef
  Footer <- FooterDef
  PageRoots <- PageRootsDef
  MaxSlots = 3
  MaxFetches = 2
  FetchSlots = 1
  SfPendingMax = 2
  FetchMax = 2
  MaxListeners = 2
  None = None
INVARIANTS
  TypeOK
  StickyIntact
  PageEventsOwn
  PageSettled
  AnswersMatch
  SfCallsMatch
  ClientInv
