CONSTANTS
  Invocation = {c1, c2}
  Version <- MCVersion
  Installed <- MCInstalled
  MaxUpdateActors = 3
  Targets <- MCTargets
  Hooks <- MCHooks
  Configs <- MCConfigs
  MaxSetupActors = 2
  Host = {"h1", "h2"}
  Api = {"a1", "a2"}
  Token = {"t1", "t2", "t3"}
  Valid <- MCValid
  PublicHost = "h1"
  PublicApi = "a1"
  Configured <- MCConfigured
  MaxImportActors = 2
  MaxIID = 2
  Content = {"asked", "other"}
  Wanted = "asked"
  MaxMRActors = 2
  MaxChunks = 2
  MaxRequests = 2
  MaxBytes = 1
  MaxStreamBytes = 2
  MaxCalls = 3
SPECIFICATION Spec
CHECK_DEADLOCK FALSE
INVARIANTS
  TypeOK
  ExecutableSurvives
  CredentialsStayHome
  ShowsUpToTheWarning
  AnswersAreTrue
PROPERTIES
  ChangesOnlyWhatItSaw
  EveryChildEnds
