\* What the server reads and writes: requests, routes, JSON, templates, urls, cookies.
SPECIFICATION Spec
CONSTANTS
  Streams <- AllStreams
  ULLONG_MAX = 63
  MaxHeader = 48
  RuleChoices <- Rules
  MaxRules = 3
  Urls <- UrlsOfThree
  Methods = {"GET", "POST"}
  MaxDigits = 2
  NoHandler = NoHandler
  Precision = 2
  Texts <- AllTexts
  Paths <- ShortPaths
  Scalars <- SomeScalars
  MaxAssigned = 2
  NoText = NoText
  Templates <- SomeTemplates
  Partials <- ThePartials
  Contexts <- SomeContexts
  MaxSteps = 25
  Holders = {h1, h2}
  QueryUrls <- SomeQueryUrls
  Parameters <- SomeParameters
  MAX_KEY_VALUE_PAIRS_COUNT = 3
  MaxOps = 3
  ShortUrl = 3
  CookieLists <- SomeCookieLists
  NoRequest = NoRequest
INVARIANTS
  SameAsOneRead
  RequestsAsSent
  RequestsTrue
  FirstRuleAnswers
  RedirectLeadsToRule
  AcceptsJson
  DumpedIsRead
  RendersAsWritten
  ParametersOfItsUrl
  JarHasWhatWasSent
CHECK_DEADLOCK FALSE
