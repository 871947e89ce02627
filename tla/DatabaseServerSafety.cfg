SPECIFICATION Spec
CONSTANTS
  time = time
  event = event
  batch = batch
  single = single
  drop1 = drop1
  edit1 = edit1
  JobIds = {time, event}
  Kind <- MCKind
  Posts = {batch, single}
  Batch <- MCBatch
  Worth <- MCWorth
  Drops = {drop1}
  DropOf <- MCDropOf
  Edits = {edit1}
  EditOf <- MCEditOf
  MaxJobFaults = 1
  listed = listed
  chain1 = chain1
  chain2 = chain2
  Listings = {listed}
  ChainOf <- MCChainOf
  AnyChain = AnyChain
  MaxListingFaults = 1
  timed = timed
  custom = custom
  foreign = foreign
  Timed = {timed}
  Custom = {custom}
  Other = foreign
  FirstRun <- MCFirstRun
  Interval <- MCInterval
  Expiry <- MCExpiry
  LookAhead = 3
  Slack = 2
  Attempts = 2
  MaxTries = 2
  MaxNow = 5
  MaxOtherTasks = 1
  MaxEdits = 1
  MaxTimeFaults = 1
  a = a
  b = b
  key = key
  Keepers = {a, b}
  Signups = {1, 2, 3}
  SignupOf <- MCSignupOf
  Rewards = {1, 2}
  RewardOf <- MCRewardOf
  Chats = {1}
  ChatOf <- MCChatOf
  ApiKeys = {key}
  Limit <- MCLimit
  Calls = {1, 2, 3}
  CallOf <- MCCallOf
  MaxWindows = 1
  MaxAcctFaults = 1
  u1 = u1
  u2 = u2
  k1 = k1
  k2 = k2
  j1 = j1
  w1 = w1
  w2 = w2
  FeeScripts = {u1, u2}
  Quotes <- MCQuotes
  Markets <- MCMarkets
  StaticFee = 6
  DynamicFee = 7
  CustomFee = 10
  LegacyFee = 4
  DefaultOnChain = 3
  DefaultGas = 3
  AggregatorGas = 2
  MaxSamples = 6
  ChunksOfWeek = 3
  Failed = Failed
  Reports <- MCReports
  AccountRows = {k1, k2, u1, j1}
  Balance <- MCBalance
  RewardsBooster <- MCBooster
  Bookers = {w1, w2}
  ChannelSize = 1
  MaxExecs = 2
  NoReport = NoReport
  c1 = c1
  c2 = c2
  g1 = g1
  g2 = g2
  RedisCallers = {c1, c2}
  Programs <- MCPrograms
  Groups = {g1, g2}
  RetryLimit = 2
  RecoveryLimit = 2
  LockAttempts = 2
  MaxTicks = 1
  MaxLength = 2
  MaxRedisFaults = 1
  Nobody = Nobody
  Documents <- MCDocuments
  WatchJobs <- MCWatchJobs
  MaxPublished = 2
  NaN = NaN
  None = None
  q1 = q1
  q2 = q2
  q3 = q3
  x1 = x1
  WebRequests = {q1, q2, q3}
  Contexts = {x1}
  Route <- MCRoute
  GoodKeys = {q1}
  GoodBodies = {q1}
  MaxTimeouts = 1
  MaxPanics = 1
  NoRequest = NoRequest
  MaxSize = 2
  MaxBackups = 2
  MaxAge = 1
  MaxLines = 9
  MaxDays = 4
  MaxRestarts = 1
  MaxDiskFaults = 2
INVARIANTS ActiveJobHasRow DeleteAnswerIsTrue
  NoStall SlotOnce
  CountersAddUp AdmissionIsSound
  QuoteCovers PointsAreEarned CachedGroupExists CopiesAgree ListingIsComplete AnswerIsOwn KeptIsNewest
CHECK_DEADLOCK FALSE
