\* A required requirement and one of an inactive deliverable, two submissions.
SPECIFICATION WorkSpec
CONSTANTS
  sellerTab = sellerTab
  buyerTab = buyerTab
  s1 = s1
  s2 = s2
  Ids = {1, 2}
  Requirements = {photo, receipt}
  Required = {photo, receipt}
  Active = {photo}
  Tabs = {sellerTab, buyerTab}
  roleOf <- MCroleOf
  Slots = {s1, s2}
  PerSecond = 2
  MaxTime = 2
SYMMETRY Symmetry
INVARIANTS VerdictStands ProgressIsEarned ReplacedStaysReplaced
CHECK_DEADLOCK FALSE
