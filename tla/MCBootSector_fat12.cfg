SPECIFICATION Spec
INVARIANT Fat12RequiresRootEntries
