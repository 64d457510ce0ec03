SPECIFICATION Spec
CONSTANTS
  cli = cli
  tool = tool
  anthropic = anthropic
  github = github
  Nobody = Nobody
  Instance = {cli, tool}
  Provider = {anthropic, github}
  Key = {k1}
  MaxTokens = 3
  MaxChanges = 3
  MaxFailures = 2
SYMMETRY Symmetric
INVARIANTS
  LoginKept
  NoReuse
PROPERTIES OneProvider
CHECK_DEADLOCK FALSE
