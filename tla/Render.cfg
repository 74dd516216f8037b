CONSTANTS
  DocTags = {"text", "span", "svg", "block", "hidden", "br", "inline script", "external script", "module script"}
  MaxNodes = 4
  MaxExternals = 1
  MaxErrors = 2
  MaxHops = 1
SPECIFICATION Spec
INVARIANTS
  ScriptsAccountedFor
  TerminalReasonSurvives
  SnapshotListsVisible
  TextBreaksAtBlocks
CHECK_DEADLOCK FALSE
