SPECIFICATION FairSpec
CONSTANTS
  Environments = {{"loseGolden", "loseKey", "jobFails", "adminDelete"},
                  {"interrupt", "deleteFails", "loseKey", "jobFails", "adminDelete"}}
INVARIANTS TypeOK ReadyIsPopulated
PROPERTIES SelfHeals
CHECK_DEADLOCK FALSE
