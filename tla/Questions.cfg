SPECIFICATION QuestionsSpec
CONSTANTS
  Projects = {p1, p2}
  Owner <- BothOwners
  NoProject = NoProject
  MaxId = 1
  Lists <- Others
  Filers = {f1, f2}
  Texts = {"report", "reworded", "stopwords"}
  BodyScore <- Scores
  TitleScore <- Scores
  Threshold = 33
  MaxHints = 1
  MaxCandidates = 2
  Pool = 2
  MaxFiled = 3
  MaxChanges = 2
SYMMETRY FilerSymmetry
INVARIANT HintIsShortestWalk
INVARIANT CloseReachesItsResolution
INVARIANT CallsReachTheProjectTheyName
INVARIANT LinkEndsShareAProject
INVARIANT OnlyOneIsNotTold
CHECK_DEADLOCK FALSE
