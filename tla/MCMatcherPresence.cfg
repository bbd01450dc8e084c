CONSTANTS
  Infix <- Contained
  Prefix <- Contained
  Suffix <- Contained
  Regex <- Contained
  Glob = {}
  Cut <- CutNames
  Inner <- InnerTexts
  Logged <- Logs
  Value <- Values
  MaxEdits = 4
SPECIFICATION DialogSpec
CHECK_DEADLOCK FALSE
INVARIANTS PresenceIgnoresValue
