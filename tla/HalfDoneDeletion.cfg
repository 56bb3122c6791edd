\* One page with one link, published; the process stops inside the deletion request.
SPECIFICATION Spec
CONSTANTS
  Pages = {p1}
  Links = {l1}
  Consents = {k1}
  NoPage = NoPage
CHECK_DEADLOCK FALSE
INVARIANT
  DeletionHidesPages
