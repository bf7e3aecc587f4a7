SPECIFICATION Spec
CONSTANTS
  LastTime = 2
  m1 = m1
  m2 = m2
  s1 = s1
  s2 = s2
  o1 = o1
  c1 = c1
  Voters <- MCVoters
  RoleOf <- MCRoleOf
  NoReview = NoReview
  Thresholds <- MCThresholds
  Changes <- MCChanges
  ReviewWindow <- MCReviewWindow
  Types <- MCTypes
  MaxChanges = 1
  MinHistory = 4
  RecencyDays = 2
  WindowDays <- MCWindowDays
  MaxVerifications = 5
  MaxDisputes = 2
  MaxCrossChecks = 2
  Scale = 3600
  NoPlan = NoPlan
  Intervals <- MCIntervals
  Lifetimes <- MCLifetimes
  ImminentDays = 1
  p1 = p1
  p2 = p2
  Persons <- MCPersons
  NoOne = NoOne
  tab1 = tab1
  tab2 = tab2
  Tabs <- MCTabs
  NoTokens = NoTokens
  AccessTtl = 1
  IdleTtl = 3
  MaxLifetime = 4
  ReuseGrace = 1
  RefreshLead = 1
  KeepFactor = 1
  LoginTimes <- MCLoginTimes
  MaxGeneration = 3
  MaxLosses = 1
  MaxWaiting = 2
  LastSessionTime = 5
SYMMETRY Symmetry
INVARIANTS ReviewIsSound StandingIsEarned RotationIsSafe SessionsAreSound
PROPERTIES OutcomeIsFinal JudgedFairly KeysAreGuarded SessionsMoveOn
CHECK_DEADLOCK FALSE
