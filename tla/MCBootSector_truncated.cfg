SPECIFICATION Spec
INVARIANT TruncatedRejected
