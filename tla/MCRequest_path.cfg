\* Sentences, plans and readings; four calls under three configurations; two
\* callers of three capabilities; two calls to four models; a server and two
\* commands on two tasks.
CONSTANTS
  Sentences <- SomeSentences
  Plans <- SomePlans
  Readings <- SomeReadings
  Here = {"disk_usage", "shell", "system_info"}
  MaxSteps = 2
  Replans = 2
  pay = pay
  load = load
  touch = touch
  wrong = wrong
  Calls = {pay, load, touch, wrong}
  ToolOf <- SomeTools
  Configs <- SomeConfigs
  MaxPerforms = 2
  Callers = {c1, c2}
  Offers = {"launch", "list", "other"}
  Declared <- SomeDeclared
  EffectIds = {e1}
  NoEffect = NoEffect
  Measured = {"pid"}
  MaxActs = 2
  big = big
  small = small
  other = other
  local = local
  vendor = vendor
  rival = rival
  machine = machine
  Models <- SomeModels
  ProviderOf <- SomeProviders
  Local = {local}
  Prompts = {q1, q2}
  MaxAttempts = 2
  Budget = 2
  Hosts = {s}
  Terminals = {a, b}
  Jobs = {t, u}
SYMMETRY Symmetry
SPECIFICATION RequestSpec
INVARIANTS
  GatedIsVouched
  VerifiedIsEarned
  OnceUnlessLost
  VerifiedHasEvidence
  SpendIsBounded
  AloneUnlessMeddled
PROPERTIES
  NobodyIsUntried
CHECK_DEADLOCK FALSE
