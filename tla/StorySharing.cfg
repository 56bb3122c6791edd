\* Pages, links and consents: the seed claim and a photo candidate, three pages, two
\* links, two consent records; the family is unsure of everything.
SPECIFICATION Spec
CONSTANTS
  Claims = {seed, photo}
  SeedClaim = seed
  Candidates = {photo}
  P0 = {seed}
  Evidenced = {seed}
  Unsupported = {}
  Sensitive = {}
  Sections = {"work-migration"}
  SectionOf <- WorkSection
  Appendix = "unconfirmed-appendix"
  Pages = {p1, p2, p3}
  NoPage = NoPage
  Links = {l1, l2}
  Consents = {k1, k2}
  Corrections = {"unsure"}
  MaxOpen = 2
SYMMETRY Symmetry
CHECK_DEADLOCK FALSE
INVARIANTS
  CurrentShareHasConsent
  LinksFollowPages
  DeletedProjectIsSilent
PROPERTIES
  PromiseKept
