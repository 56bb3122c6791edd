\* Claims, corrections and issues: the seed claim and a sensitive extracted one, two
\* drafts, no links, one consent record.
SPECIFICATION Spec
CONSTANTS
  Claims = {seed, memory}
  SeedClaim = seed
  Candidates = {}
  P0 = {seed}
  Evidenced = {seed, memory}
  Unsupported = {}
  Sensitive = {memory}
  Sections = {"work-migration"}
  SectionOf <- WorkSection
  Appendix = "unconfirmed-appendix"
  Pages = {p1, p2}
  NoPage = NoPage
  Links = {}
  Consents = {k1}
  Corrections = {"modify", "delete"}
  MaxOpen = 1
SYMMETRY Symmetry
CHECK_DEADLOCK FALSE
INVARIANTS
  VerifiedDraftWasExamined
  OpenPageWasExamined
  OpenPageIsCleared
