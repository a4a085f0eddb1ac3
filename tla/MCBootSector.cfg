SPECIFICATION Spec
INVARIANT DecodeMatchesLayout
INVARIANT Fat32ValidIffSpec
INVARIANT SignatureIffMarker
INVARIANT DumpAcceptsTesterFat32
