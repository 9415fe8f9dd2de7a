CONSTANTS
  c1 = c1
  c2 = c2
  c3 = c3
  nowhere = nowhere
  town = town
  Conns = {c1, c2}
  NoConn = NoConn
  Request <- Posts
  MaxSlaves = 1
  BufferSize = 20
  Backlog = 1
  Texts = {nowhere, town}
  NoText = NoText
  Found <- FoundIn
  Query <- Pairs
  PublicFiles = TRUE
  MaxShown = 2
  SizeT = 1024
SPECIFICATION PagesSpec
PROPERTY WholePostIsAnswered
