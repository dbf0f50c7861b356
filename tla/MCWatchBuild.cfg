SPECIFICATION FairSpec
CONSTANTS
  Requests <- MCRequests
  InitFiles <- MCInitFiles
  Saves <- MCSaves
  Inside <- MCInside
  MaxSaves = 3
PROPERTIES
  EventuallyUpToDate
  HashedNamesHold
