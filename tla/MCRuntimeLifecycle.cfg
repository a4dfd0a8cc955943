SPECIFICATION LSpec
INVARIANTS GateClosedBeforeStop ExitMeansTerminated
PROPERTIES ForwardOnly ShutdownCompletes
