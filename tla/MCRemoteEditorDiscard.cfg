SPECIFICATION Spec
CONSTANTS
  Hosts = {h1, h2}
  Paths = {p}
  NoFile = NoFile
  MaxEdits = 3
  MaxJobs = 2
  MaxDialogs = 2
PROPERTY DiscardIsAsked
