\* One answer is lost, or comes too late.
SPECIFICATION Spec
CONSTANTS
  Skills = {climber, ground}
  Prices = {p0}
  DefaultPrice = p0
  CrewSizes = {0, 2}
  MaxPeople = 2
  MaxRows = 2
  MaxItems = 2
  MaxLost = 1
  NoSkill = NoSkill
  NoPrice = NoPrice
SYMMETRY SkillSymmetry
INVARIANTS
  FlagsMatchTheSave
  IdsBelongToTheirRows
  DuplicatesNeedALostAnswer
