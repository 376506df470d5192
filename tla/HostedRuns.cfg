\* Up to three runs in a row, each of which may be killed.
SPECIFICATION Spec
CONSTANTS
  PublicUrl = public
  Urls = {t1, t2, t3}
  Ids = {m1, m2, m3}
  None = None
SYMMETRY Symmetry
INVARIANTS
  TypeOK
  SuccessMeansStarted
  AddressIsThisRuns
