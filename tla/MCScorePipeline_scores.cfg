SPECIFICATION FairSpec
CONSTANTS
  Agents = {a1, a2}
  Earners = {a1}
  MaxRows = 4
  KeepReady = 2
  MaxDelete = 1
  Runner = Runner
  Backfill = Backfill
INVARIANTS
  ServedIsWhole
  ChosenStaysWhole
PROPERTIES
  OnlyUnheardActivationDropsRanking
  OnlyOvertakenBackfillDropsTrust
  EvidenceIsRanked
