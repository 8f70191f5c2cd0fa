SPECIFICATION Spec
CONSTANTS
  Accounts = {a, b}
  Instants = {t1}
  Scanners = {s1, s2}
  None = None
  Faults = {"listing", "truncated", "database", "audit", "recipients", "mail", "crash"}
SYMMETRY Symmetry
INVARIANT AuditedOnce
INVARIANT SeenIsAudited
INVARIANT MailedOnce
