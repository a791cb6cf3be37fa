SPECIFICATION FairSpec
CONSTANTS
  Transcripts = {t1}
  Fresh = {t1}
  Jobs = {j1}
  Nobody = Nobody
  MaxBulks = 0
  MaxOutages = 0
PROPERTY TextNeverVanishes
CHECK_DEADLOCK FALSE
