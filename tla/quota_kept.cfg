SPECIFICATION FairSpec
CONSTANTS
  Pooled <- MCPooled
  Standalone <- MCStandalone
  Template <- MCTemplate
  QuotaObjects <- MCQuotaObjects
  DefaultRoot <- MCDefaultRoot
  MaxCrashes = 1
INVARIANTS TypeOK QuotaKept
PROPERTIES ReservationHonoured
CHECK_DEADLOCK FALSE
