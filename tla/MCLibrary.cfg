INIT Init
NEXT Next
CONSTANTS
  Runes <- MCRunes
  Positions <- MCPositions
  EditTexts <- MCEditTexts
  Edits <- MCEdits
  Projects <- MCProjects
  ServerQueries <- MCServerQueries
  Detected = {"none", "yaml"}
  Asked = {"none", "lua"}
  Callers = {1, 2}
  Probed = {"f"}
  Languages = {"none", "yaml"}
  Documents <- MCDocuments
  Sources <- MCSources
  Registered = {"yaml", "go", "dockerfile"}
  Places <- MCPlaces
  Manifests <- MCManifests
  Pointers <- MCSegments
  Resources <- MCResources
  Chunks <- MCChunks
  Here <- MCHere
  Template <- MCTemplate
  LintFindings <- MCLintFindings
  RenderErrors <- MCRenderErrors
  Urls <- MCUrls
  Cached <- MCCached
  Gets <- MCGets
  Replies <- MCReplies
  Hovers <- MCHovers
  Notes <- MCNotes
  Uris = {"a"}
  Hosts <- MCHosts
  Environments <- MCEnvironments
  MaxLength <- MCMaxLength
INVARIANTS
  EditsMeanTheSame
  OneSessionPerFile
  FeaturesExact
  
  AnswersAndVerdicts
  TypesComplete
CHECK_DEADLOCK FALSE
