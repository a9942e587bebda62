SPECIFICATION Spec
CONSTANTS
  Pid = {p, q}
  Program = {sh}
  Name = {"init", "Web Content", "We"}
  Spaced = {"Web Content"}
  Cut <- Fragments
  NULL = NULL
  MaxChanges = 2
SYMMETRY Symmetry
INVARIANTS AnswersExplained EveryLongLivedListed
CHECK_DEADLOCK FALSE
