SPECIFICATION Spec
CONSTANTS
  Requests = {r1, r2, r3}
  Tokens = {t1, t2}
  NoToken = NoToken
  Limit = 2
  MaxReloads = 2
SYMMETRY Symmetry
INVARIANTS QuotaSurvivesReloads QuotaPerRemoval LeftoversAreStragglers
