SPECIFICATION FairSpec
CONSTANTS
  Engines <- MCEngines
  Ports <- MCPorts
  MaxStarts = 2
  MaxRequests = 1
INVARIANTS
  ButtonsAgreeWithRunner
  UiNeverWaits
  RunsAsConfigured
  ListenerIsRunners
PROPERTIES
  StartResolves
  ReplacedEngineFreed
  CloseEnds
\* The program ends when its window is closed.
CHECK_DEADLOCK FALSE
