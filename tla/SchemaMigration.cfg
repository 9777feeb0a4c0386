SPECIFICATION SchemaSpec
CONSTANTS
  web = web
  mcp = mcp
  job = job
  Openers = {web, mcp, job}
  Targets = {1, 2, 3, 4}
  Migrations = {2, 3}
  Breaking = {2}
SYMMETRY OpenerSymmetry
INVARIANT ServedSchemaIsComplete NoStepLeftBehind
PROPERTY UnreadableOnlyByRace
