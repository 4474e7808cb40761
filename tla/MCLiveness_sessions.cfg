CONSTANTS
  Threads = {mono1, native}
  Attached = {mono1}
  Session = Session
  None = None
  Pages = 5
  Page = 4
  Header = 1
  Sizes <- MCSizes
SPECIFICATION Spec
INVARIANTS
  NeverWaits
  PagesAccounted
PROPERTIES
  WorldRestarts
