CONSTANTS
  Cases <- MCCases
  Contents <- MCContents
  Verbose = TRUE
SPECIFICATION Spec
INVARIANT TypeOK
INVARIANT VerdictReflectsImages
INVARIANT MountScoped
