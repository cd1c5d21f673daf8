SPECIFICATION Spec
CONSTANTS
  Environments = {{"interrupt", "loseGolden"}}
INVARIANTS ReadyIsPopulated
CHECK_DEADLOCK FALSE
