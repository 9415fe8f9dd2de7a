CONSTANTS
  c1 = c1
  c2 = c2
  c3 = c3
  nowhere = nowhere
  town = town
  Conns = {c1, c2, c3}
  NoConn = NoConn
  Request <- Searches
  MaxSlaves = 2
  BufferSize = 20
  Backlog = 2
  Texts = {nowhere, town}
  NoText = NoText
  Found <- FoundIn
  Query <- Formatted
  PublicFiles = TRUE
  MaxShown = 2
  SizeT = 1024
SPECIFICATION PagesSpec
INVARIANT SameInformation
