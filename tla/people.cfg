CONSTANTS
  Cases = {c1}
  Users = {ann, own}
  Admins = {a1, a2}
  Workers = {w1, w2}
  Null = Null
  ann = ann
  own = own
  Openings <- MCOpenings
  StaffMoves = {"WAITING_FOR_USER", "IN_PROGRESS", "RESOLVED"}
  Asks = {"unasked", "INTERNAL"}
  MaxEntries = 2
  Threads = {k1}
  Sides = {renter, owner}
  MaxLetters = 2
  Renters = {r1, r2}
  ReportIds = {p1, p2}
  Reporters = {ann, own}
  Severities = {"CRITICAL"}
  OwnershipLevel = 1
  Awards <- MCAwards
  Worth <- MCWorth
  Logins = {1, 2}
  Tabs = {t1, t2, t3}
  t1 = t1
  t2 = t2
  t3 = t3
  laptop = laptop
  handset = handset
  Browsers = {laptop, handset}
  Browser <- MCBrowser
  MaxSessions = 1
  MaxTokens = 3
  People = {ann, newcomer}
  Registered = {ann}
  Numbers = {n1, n2}
  Cleared = Cleared
  MaxCodes = 2
  Foci = {"support", "chat", "reviews", "reports", "points", "blind", "sessions", "phones"}
SYMMETRY Symmetry
SPECIFICATION Spec
INVARIANTS TypeOK TimelineTellsCase ClockStopsOnAnswer SidesStayApart ApprovedIsCounted SuspensionCorroborated StandingFollowsReports LevelsToldOnce BlindLiftIsTold OneRotation CapHolds SignOutEndsSession BadgeIsProven OneVerifiedOwner
PROPERTIES LifecycleSpec RepliesKeepRules OnlyShownIsRead WordsSettle BlockedSilence
CHECK_DEADLOCK FALSE
