CONSTANTS
  Cases <- MCCases
  Contents <- MCOneContent
  Verbose = FALSE
SPECIFICATION FairSpec
PROPERTY Terminates
