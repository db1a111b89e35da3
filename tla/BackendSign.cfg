\* Both backends in every configuration, over any number of calls.
CONSTANT Configs <- AllConfigs
SPECIFICATION Spec
INVARIANT NothingLeftBehind
INVARIANT ToolHasPIN
PROPERTY OutputIsAtomic
