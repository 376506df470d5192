\* What docs/oidf_conformance.md says about the tunnel.
SPECIFICATION Spec
CONSTANTS
  PublicUrl = public
  Urls = {t1, t2, t3}
  Ids = {m1, m2, m3}
  None = None
SYMMETRY Symmetry
INVARIANTS
  TunnelOutlastsTheRun
