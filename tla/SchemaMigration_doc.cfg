SPECIFICATION SchemaSpec
CONSTANTS
  web = web
  mcp = mcp
  job = job
  Openers = {web, mcp}
  Targets = {1, 2}
  Migrations = {2}
  Breaking = {2}
INVARIANT OldMemoriesClassified
