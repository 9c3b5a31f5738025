SPECIFICATION FairSpec
CONSTANTS
  Thread = {t1, t2, t3}
  Trier = {t3}
  Installer = {t1}
  MaxInterrupts = 2
  Sem = {s1, s2, s3}
  None = None
CONSTRAINT NoUpdateLost
INVARIANTS TypeOK MutualExclusion HolderIsRegistered
PROPERTY WaiterIsServed
