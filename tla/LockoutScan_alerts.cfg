SPECIFICATION FairSpec
CONSTANTS
  Accounts = {a}
  Instants = {t1, t2, t3}
  Scanners = {s1}
  None = None
  Faults = {"mail", "audit", "listing"}
PROPERTY ImplementsAlerts
PROPERTY OutageIsADelay
