CONSTANTS
  a1 = a1 m1 = m1 p1 = p1
  Agents = {a1}
  Actions = {act1, act2}
  MTypes = {}
  Modules = {m1}
  Pages = {p1}
  Wild = Wild
  Null = Null
  MaxTable = 3
  MaxOthers = 1
  Priorities = {0, 1}
  PageActions = {act1, act2}
  PagePriority = 100
  MaxRuleId = 4
SPECIFICATION Spec
INVARIANTS VerdictIsScan CautionPrevails PanelHolds
CHECK_DEADLOCK FALSE
