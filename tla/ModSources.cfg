CONSTANTS
  Mods <- OneMod
  Refreshers <- OneRefresh
  Passes <- OnePass
  MaxEdits = 1
  MaxFaults = 1
SPECIFICATION FairSpec
PROPERTIES SourceConverges StatusSettles DeletedForgotten
