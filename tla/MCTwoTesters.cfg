CONSTANTS
  Cases <- MCTwoCases
  Contents <- MCTwoContents
  Verbose = FALSE
SPECIFICATION Spec
INVARIANT FilesSeeOwnImage
