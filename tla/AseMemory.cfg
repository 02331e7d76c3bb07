SPECIFICATION FairSpec
CONSTANTS
  rd = rd  wr = wr  None = None  App = App
  Fan = 2
  Arena = {4, 5, 6, 7}
  DmaPages = {3}
  MaxLost = 1
  UserPages = {0}
  Lengths = {"4K", "2M", "1G", "other"}
  MaxBuffers = 2
  Watchers = {rd, wr}
  AfuStops = TRUE
  
PROPERTIES RequestsAnswered 
CHECK_DEADLOCK FALSE
