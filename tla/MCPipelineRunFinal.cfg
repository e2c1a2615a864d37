\* One run, one Cancel, no fault: is a terminal status final?
SPECIFICATION Spec
CONSTANTS
  Runs = {r1}
  Cancellers = {c1}
  Pipelines <- MCPipelines
  MaxFaults = 0
PROPERTIES TerminalIsFinal
