CONSTANT MaxEvents = 5
SPECIFICATION Spec
INVARIANTS ServerInv TerminalMatchesDb CleanExit
PROPERTIES StoppedRunWritesNothing EventuallyClosed ImplementsAskRun
