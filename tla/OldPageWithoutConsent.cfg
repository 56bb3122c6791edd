\* A page replaced by a newer draft outlives the consent it was published under.
SPECIFICATION Spec
CONSTANTS
  Claims = {seed}
  SeedClaim = seed
  Candidates = {}
  P0 = {seed}
  Evidenced = {seed}
  Unsupported = {}
  Sensitive = {}
  Sections = {"work-migration"}
  SectionOf <- WorkSection
  Appendix = "unconfirmed-appendix"
  Pages = {p1, p2}
  NoPage = NoPage
  Links = {l1}
  Consents = {k1}
  Corrections = {"confirm"}
  MaxOpen = 1
CHECK_DEADLOCK FALSE
INVARIANT
  EveryShareHasConsent
