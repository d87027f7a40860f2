SPECIFICATION Spec
CONSTANT SymbolsPerChannelFrame = 3
INVARIANT TValuesAreLegal
PROPERTY SyncOnlyInHeader
