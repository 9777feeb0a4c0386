-------------------------- MODULE SchemaMigration --------------------------
(***************************************************************************)
(* AgenticSearchStore._ensure_schema of internal/db/store.py: how a build  *)
(* that opens a SQLite file brings it to its own schema, or refuses it.    *)
(*                                                                         *)
(* Several processes open one file (the web server and the MCP server),    *)
(* of the same or of different builds, and any of them may die at any      *)
(* point.  PRAGMA user_version and the min-reader row are read in          *)
(* statements of their own, outside any transaction; the baseline script   *)
(* and each ALTER commit by themselves; the backfill and each step are one *)
(* transaction each.  An ALTER of the baseline that raises is passed over, *)
(* whatever the reason: the file may be served without its column.         *)
(*                                                                         *)
(* A migration is written as the tests write theirs (ADD COLUMN, CREATE    *)
(* TABLE): its statements fail when they have been applied already.        *)
(*                                                                         *)
(* The general names begin with Schema, since the theorems about the store *)
(* are about this module and MemoryIndex together.                         *)
(***************************************************************************)
EXTENDS Integers

CONSTANTS
  Openers,      \* the processes that open the file
  Targets,      \* SCHEMA_VERSION of the builds they run
  Migrations,   \* the keys of _MIGRATIONS
  Breaking      \* the migrations with breaks_older_readers

ASSUME TargetsAssumption == Targets \subseteq Nat \ {0}
ASSUME MigrationsAssumption == Migrations \subseteq Nat \ {0, 1}

VARIABLES
  version,      \* PRAGMA user_version
  minReader,    \* the min_reader_version row of schema_meta, 0 without one
  applied,      \* the migrations whose statements have been committed
  tables,       \* the tables of the file, see Tables
  columns,      \* the columns of Columns that it has
  classified,   \* memories from before the category column have their category
  pc,           \* where each process is
  target,       \* SCHEMA_VERSION of the build each process runs
  at,           \* the local `version` of each _ensure_schema
  origin,       \* auxiliary: the version the file had at first
  swallowed,    \* auxiliary: the columns whose last ALTER raised and was passed over
  seen          \* auxiliary: the migrations in the file when a process read its version

fileVars == <<version, minReader, applied, origin>>
baseVars == <<tables, columns, classified, swallowed>>
schemaVars == <<fileVars, baseVars, pc, target, at, seen>>

\* "new" is an empty file.  "no_llm_name" was written by a build from before
\* that column of chat_sessions; in a file that is "made" every table and index
\* of the script exists, though a table may lack columns.
Tables == {"new", "no_llm_name", "made"}

\* What the ALTERs add to a file that is made: the category of a memory, and
\* the other columns (its embedding, retrieval feedback's).
Columns == {"category", "others"}

Lacking == Columns \ columns

InFlight == {"read", "backfill", "steps"}

SchemaTypeOK ==
  /\ version \in Nat
  /\ minReader \in Nat
  /\ applied \subseteq Migrations
  /\ tables \in Tables
  /\ columns \subseteq Columns
  /\ classified \in BOOLEAN
  /\ pc \in [Openers -> {"closed", "open", "refused", "failed"} \union InFlight]
  /\ target \in [Openers -> Targets \union {0}]
  /\ at \in [Openers -> Nat]
  /\ origin \in {0, 1}
  /\ swallowed \subseteq Columns
  /\ seen \in [Openers -> SUBSET Migrations]

\* A new file, one from before versioning, or one stamped by a version 1 build,
\* which may be from before any of the columns: adding one did not change
\* SCHEMA_VERSION.
SchemaInit ==
  /\ origin \in {0, 1}
  /\ version = origin
  /\ minReader = origin
  /\ applied = {}
  /\ tables \in IF origin = 0 THEN Tables ELSE {"made"}
  /\ columns \in IF tables = "made" THEN SUBSET Columns ELSE {{}}
  /\ classified = ("category" \in columns)
  /\ pc = [p \in Openers |-> "closed"]
  /\ target = [p \in Openers |-> 0]
  /\ at = [p \in Openers |-> 0]
  /\ swallowed = {}
  /\ seen = [p \in Openers |-> {}]

Goto(p, place) == pc' = [pc EXCEPT ![p] = place]

-----------------------------------------------------------------------------
(* _ensure_schema *)

\* __init__ connects and reads user_version.
Read(p, build) ==
  /\ pc[p] = "closed"
  /\ Goto(p, "read")
  /\ target' = [target EXCEPT ![p] = build]
  /\ at' = [at EXCEPT ![p] = version]
  /\ seen' = [seen EXCEPT ![p] = applied]
  /\ UNCHANGED <<fileVars, baseVars>>

\* The file is newer than the build: the build reads the min-reader row, and
\* then either refuses or serves the file as it is.
OpenNewer(p) ==
  /\ pc[p] = "read"
  /\ at[p] > target[p]
  /\ Goto(p, IF target[p] < minReader THEN "refused" ELSE "open")
  /\ UNCHANGED <<fileVars, baseVars, target, at, seen>>

\* The steps the build has to run and has no migration for.
Missing(p) ==
  {k \in 2..target[p] : k > at[p] /\ k \notin Migrations}

RefuseGap(p) ==
  /\ pc[p] = "read"
  /\ at[p] <= target[p]
  /\ Missing(p) # {}
  /\ Goto(p, "failed")
  /\ UNCHANGED <<fileVars, baseVars, target, at, seen>>

\* The process brings the file up to the baseline.
Completes(p) ==
  /\ pc[p] = "read"
  /\ at[p] <= target[p]
  /\ Missing(p) = {}

\* _init_schema and the ALTERs of _migrate_schema, each of which does nothing
\* when its table, index or column is there.  A column that is lacking is added,
\* or its ALTER raises (the file is locked, the statement fails) and the code
\* goes on without it.  Only the open that adds the category backfills.
Baseline(p) ==
  /\ Completes(p)
  /\ tables # "no_llm_name"
  /\ tables' = "made"
  /\ \E added \in IF tables = "new" THEN {Columns} ELSE SUBSET Lacking :
       /\ columns' = columns \union added
       /\ Goto(p, IF tables = "made" /\ "category" \in added THEN "backfill" ELSE "steps")
  /\ classified' = (classified \/ tables = "new")
  /\ swallowed' = Lacking'
  /\ UNCHANGED <<fileVars, target, at, seen>>

\* A statement outside of the ALTERs raises: always on a file without llm_name,
\* whose index comes before the ALTER that adds it, and on any file for a
\* reason of its own.  The backfill is one transaction.
BaselineFails(p) ==
  /\ Completes(p) \/ pc[p] = "backfill"
  /\ Goto(p, "failed")
  /\ UNCHANGED <<fileVars, baseVars, target, at, seen>>

\* _backfill_memory_categories, committed at the end of _migrate_schema.
Backfill(p) ==
  /\ pc[p] = "backfill"
  /\ classified' = TRUE
  /\ Goto(p, "steps")
  /\ UNCHANGED <<fileVars, tables, columns, swallowed, target, at, seen>>

\* The step _apply_step runs next: the baseline's own stamp at version 0.
NextStep(p) == at[p] + 1

\* Mutant: a breaking step forgets the row.
MinReaderAfterForgets(step) == IF step = 1 THEN step ELSE minReader

\* The min-reader row after a step.
MinReaderAfter(step) ==
  IF step = 1 \/ step \in Breaking THEN step ELSE minReader

\* _apply_step: one transaction.
ApplyStep(p) ==
  LET step == NextStep(p) IN
  /\ pc[p] = "steps"
  /\ at[p] < target[p]
  /\ step \notin applied
  /\ version' = step
  /\ minReader' = MinReaderAfter(step)
  /\ applied' = applied \union ({step} \intersect Migrations)
  /\ at' = [at EXCEPT ![p] = step]
  /\ UNCHANGED <<baseVars, pc, target, origin, seen>>

\* Mutant: no transaction around the statements.
LeftByFailureUnrolled(p) == {NextStep(p)} \intersect Migrations

\* What a failed step leaves in the file: it is rolled back.
LeftByFailure(p) == {}

\* A statement fails, because it was applied already or for any other reason;
\* __init__ closes the connection and raises.
FailStep(p) ==
  /\ pc[p] = "steps"
  /\ at[p] < target[p]
  /\ applied' = applied \union LeftByFailure(p)
  /\ Goto(p, "failed")
  /\ UNCHANGED <<version, minReader, origin, baseVars, target, at, seen>>

\* Mutant: the loop ends one step early.
FinishedEarly(p) == at[p] + 1 >= target[p]

Finished(p) == at[p] >= target[p]

Opened(p) ==
  /\ pc[p] = "steps"
  /\ Finished(p)
  /\ Goto(p, "open")
  /\ UNCHANGED <<fileVars, baseVars, target, at, seen>>

\* The process ends: it is shut down, fails to start, or dies half way.
Exit(p) ==
  /\ pc[p] # "closed"
  /\ Goto(p, "closed")
  /\ target' = [target EXCEPT ![p] = 0]
  /\ at' = [at EXCEPT ![p] = 0]
  /\ seen' = [seen EXCEPT ![p] = {}]
  /\ UNCHANGED <<fileVars, baseVars>>

-----------------------------------------------------------------------------

SchemaNext ==
  \E p \in Openers :
    \/ \E build \in Targets : Read(p, build)
    \/ OpenNewer(p) \/ RefuseGap(p) \/ Baseline(p) \/ BaselineFails(p) \/ Backfill(p)
    \/ ApplyStep(p) \/ FailStep(p) \/ Opened(p) \/ Exit(p)

SchemaSpec == SchemaInit /\ [][SchemaNext]_schemaVars

-----------------------------------------------------------------------------
(* Safety *)

\* The version in the file is never ahead of the migrations committed to it,
\* whoever raced and wherever anyone died.
StampedStepsApplied == \A k \in Migrations : k <= version => k \in applied

\* A build that serves a file finds in it the tables and every migration up to
\* its own schema, and a column is lacking only where the last ALTER to add it
\* was passed over: no crash, race or rollback leaves one out.
ServedSchemaIsComplete ==
  \A p \in Openers : pc[p] = "open" =>
    /\ tables = "made"
    /\ Lacking \subseteq swallowed
    /\ \A k \in Migrations : k <= target[p] => k \in applied

\* A file that was versioned before anyone raced over it never holds a
\* migration its version does not name: no crash and no race can leave it
\* where the next open would apply a step twice and fail for ever.
NoStepLeftBehind == origin = 1 => \A k \in applied : k <= version

\* The min-reader row of such a file is at least every breaking migration in
\* it.  A new or unversioned file has no such protection: a build that read
\* version 0 stamps version 1 and min reader 1 over a newer build's work.
BreakingStepsGuarded ==
  origin = 1 => \A k \in applied \intersect Breaking : k <= minReader

-----------------------------------------------------------------------------
(* Action properties *)

\* The file is stamped and no process still believes that it is not.
Settled ==
  /\ version >= 1
  /\ \A p \in Openers : pc[p] \in InFlight => at[p] >= 1

\* From then on, for good, version and min reader only grow: an older build
\* that lost the race or was rolled back to writes neither.
SettledOnlyGrows ==
  [][Settled => Settled' /\ version' >= version /\ minReader' >= minReader]_schemaVars

\* A process begins to serve.
LetIn(p) == pc[p] # "open" /\ pc'[p] = "open"

\* A build is let in on a file with a breaking migration that it cannot read in
\* one way only: another process committed the migration after this one had read
\* the version, found the file no newer than itself, and begun to bring it up.
UnreadableOnlyByRace ==
  [][\A p \in Openers : origin = 1 /\ LetIn(p) =>
       \A k \in applied \intersect Breaking : k > target[p] =>
         k \notin seen[p] /\ at[p] <= target[p]]_schemaVars

-----------------------------------------------------------------------------
(* What the repository says *)

\* "The migration backfills existing rows with the same classifier" (the design
\* document): once a build serves the file and no backfill is under way, no old
\* memory is left with the default category.
OldMemoriesClassified ==
  (\E p \in Openers : pc[p] = "open") /\ (\A p \in Openers : pc[p] # "backfill")
    => ("category" \in columns => classified)

\* "Idempotent baseline: creates a new database and completes one written before
\* versioning" (comment in _ensure_schema): a file that is served lacks nothing.
BaselineCompletes == \A p \in Openers : pc[p] = "open" => Lacking = {}

\* "Bring the database to SCHEMA_VERSION, or refuse one this build cannot read"
\* (docstring of _ensure_schema).
UnreadableFilesRefused ==
  [][\A p \in Openers : origin = 1 /\ LetIn(p) =>
       \A k \in applied \intersect Breaking : k <= target[p]]_schemaVars
=============================================================================
