CONSTANTS
  Texts = {x, y}
  None = None
  NAtoms = 2
  NBench = 2
  BenchOf <- MCBenchOf
  TestEvery = 2
  MaxTurn = 10
  MaxRules = 2
SPECIFICATION Spec
CHECK_DEADLOCK FALSE
INVARIANTS TypeOK RepairOnFloor ResolvedByExam
PROPERTIES LawByVote ImplementsDocket
