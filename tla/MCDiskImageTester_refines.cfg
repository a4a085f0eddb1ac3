CONSTANTS
  Cases <- MCCases
  Contents <- MCContents
  Verbose = TRUE
SPECIFICATION Spec
PROPERTY ImplementsTestRun
