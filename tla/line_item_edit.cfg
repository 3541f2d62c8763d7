\* Editing and saving one line item; every request is answered.
SPECIFICATION Spec
CONSTANTS
  Skills = {climber, ground}
  Prices = {p0, p1}
  DefaultPrice = p0
  CrewSizes = {0, 2}
  MaxPeople = 2
  MaxRows = 2
  MaxItems = 1
  MaxLost = 0
  NoSkill = NoSkill
  NoPrice = NoPrice
SYMMETRY SkillSymmetry
INVARIANTS
  CleanMeansStored
  PageKnowsTheRows
PROPERTY
  StoresWhatWasShown
