SPECIFICATION MCSpec
CONSTANTS
  Signup = {s1}
  Guess = {g1}
  Job = {s1, j1}
  Attempt = {1, 2, 3}
  Limit = 2
  Handlers = 1
  MaxCrashes = 1
INVARIANTS OnboardingTypeOK MailedAsBullSays CodeRefusedOnlyIfUsed NeverBlockedEarly LimitHolds OnboardingIInv
PROPERTIES WelcomeSettles
CHECK_DEADLOCK FALSE
