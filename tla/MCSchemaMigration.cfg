SPECIFICATION MigrationSpec
CONSTANTS
  Processes = {"hub", "second"}
  Originals <- MCOriginals
INVARIANTS HistoryKept ReadyWhenIn
