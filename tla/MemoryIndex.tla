---------------------------- MODULE MemoryIndex ----------------------------
(***************************************************************************)
(* One user's long-term memories and their index: the store's methods      *)
(* (internal/db/store.py), capture and consolidation after a turn          *)
(* (internal/memory/capture.py, consolidation.py) under the per-user guard *)
(* of internal/memory/lifecycle.py, the manual consolidation that takes no *)
(* guard, recall (internal/memory/search.py), which takes none either, the *)
(* memory tools, and the cache of embeddings.                              *)
(*                                                                         *)
(* Every store method is one transaction under the store's lock, so it is  *)
(* one action.  Whoever curates, or only recalls, decides from records it  *)
(* read once: "todo" holds the store calls it still has to make from them, *)
(* and anyone may write in between.                                        *)
(*                                                                         *)
(* A text is a model value; Fact maps texts to what they say, so that two  *)
(* texts of one fact are near-duplicates.  What an LLM replies is any of   *)
(* the replies the code accepts.                                           *)
(***************************************************************************)
EXTENDS Integers, FiniteSets, SequencesExt

CONSTANTS
  Ids,              \* memories, those there are and those that can be added
  Beginnings,       \* what there is at first: functions from some Ids to records
  Curators,         \* turns' background handlers, manual consolidations, recalls
  JobsOf,           \* which of the four each curator can be
  Texts,
  Fact,             \* what a text says: is_near_duplicate compares it
  Tag,              \* a text's metadata.tags[0], or Null
  ConstraintTexts,  \* the texts classify_memory calls constraints
  Categories,
  Said,             \* the categories that users name for a new memory
  Extractions,      \* what the LLM may extract from a turn: pairs of a text and
                    \* a category, one after the other
  Every,            \* CONSOLIDATE_EVERY
  MaxWrites,        \* bound on the user's own writes
  Null

Protected == "constraints"
General == "general"

ASSUME CategoriesAssumption == {Protected, General} \union Said \subseteq Categories
ASSUME FactAssumption == DOMAIN Fact = Texts /\ DOMAIN Tag = Texts
ASSUME ExtractionsAssumption == \A items \in Extractions : items \in Seq(Texts \X Categories)
ASSUME NumbersAssumption == Every \in Nat \ {0} /\ MaxWrites \in Nat
ASSUME FiniteAssumption == IsFiniteSet(Ids) /\ IsFiniteSet(Categories)
ASSUME BeginningsAssumption ==
  \A first \in Beginnings :
    /\ DOMAIN first \subseteq Ids
    /\ \A i \in DOMAIN first : first[i].text \in Texts /\ first[i].cat \in Categories
ASSUME JobsAssumption == \A c \in Curators : JobsOf[c] \subseteq {"capture", "after_turn", "manual", "recall"}
ASSUME NullAssumption == Null \notin Texts \union Categories \union Curators

Root == "__root__"
Nodes == Categories \union {Root}

VARIABLES
  mem,      \* user_memories: active, memory_text, category, embedding (of a text)
  order,    \* the active memories by updated_at, oldest first
  node,     \* memory_index_nodes: known, dirty, what the summary shows, and
            \* (auxiliary) whether a write outran it
  marker,   \* memory_count of CONSOLIDATED_NODE, or Null
  guard,    \* the curator in _busy, or Null
  job,      \* what each curator is for
  phase,    \* what it does when todo is empty
  llm,      \* it has an LLM
  snap,     \* the records it works from, newest first
  found,    \* the nodes it found dirty, its count of active memories, or the
            \* extracted memories that are still to be reconciled
  todo,     \* the store calls it has decided on
  touched,  \* auxiliary: memories and nodes others wrote since it read snap
  writes    \* the user's writes so far

curation == <<guard, job, phase, llm, found>>
vars == <<mem, order, node, marker, curation, snap, todo, touched, writes>>

-----------------------------------------------------------------------------
(* Records *)

IsProtected(r) == r.cat = Protected \/ r.text \in ConstraintTexts

Classify(text) == IF text \in ConstraintTexts THEN Protected ELSE General

Active == {i \in Ids : mem[i].active}

RecordOf(i) == [id |-> i, text |-> mem[i].text, cat |-> mem[i].cat]

\* get_user_memory_records, newest first.
Records == [k \in 1 .. Len(order) |-> RecordOf(Reverse(order)[k])]

\* What a summary written from these records shows: a category's memories, or
\* the root's count line.
Shows(n, records) ==
  IF n = Root THEN [c \in Categories |-> Cardinality({r \in records : r.cat = c})]
  ELSE {r \in records : r.cat = n}

-----------------------------------------------------------------------------

Jobs == {"idle", "capture", "after_turn", "manual", "recall", "over"}

TypeOK ==
  /\ mem \in [Ids -> [active : BOOLEAN, text : Texts \union {Null},
                      cat : Categories \union {Null}, vec : Texts \union {Null}]]
  /\ Len(order) = Cardinality(Active) /\ ToSet(order) = Active
  /\ \A i \in Active : mem[i].text \in Texts /\ mem[i].cat \in Categories
  /\ DOMAIN node = Nodes
  /\ \A n \in Nodes : node[n].dirty => node[n].known
  /\ marker \in 0 .. Cardinality(Ids) \union {Null}
  /\ guard \in Curators \union {Null}
  /\ job \in [Curators -> Jobs]
  /\ llm \in [Curators -> BOOLEAN]
  /\ writes \in 0 .. MaxWrites

\* A user with some memories whose summaries are up to date; the marker is
\* missing right after an upgrade.
Init ==
  /\ \E first \in Beginnings :
       /\ mem = [i \in Ids |->
                   IF i \in DOMAIN first
                   THEN [active |-> TRUE, text |-> first[i].text, cat |-> first[i].cat,
                         vec |-> Null]
                   ELSE [active |-> FALSE, text |-> Null, cat |-> Null, vec |-> Null]]
       /\ order = SetToSeq(DOMAIN first)
       /\ marker \in {Cardinality(DOMAIN first), Null}
  /\ node = [n \in Nodes |->
               [known |-> n = Root \/ \E i \in Active : mem[i].cat = n,
                dirty |-> FALSE, shows |-> Shows(n, ToSet(Records)), outrun |-> FALSE]]
  /\ guard = Null
  /\ job = [c \in Curators |-> "idle"]
  /\ phase = [c \in Curators |-> "end"]
  /\ llm = [c \in Curators |-> FALSE]
  /\ snap = [c \in Curators |-> << >>]
  /\ found = [c \in Curators |-> {}]
  /\ todo = [c \in Curators |-> << >>]
  /\ touched = [c \in Curators |-> {}]
  /\ writes = 0

-----------------------------------------------------------------------------
(* The store's methods.  "by" is the curator that calls, or Null.          *)

Touch(by, what) ==
  touched' = [c \in Curators |->
                IF c = by \/ (todo[c] = << >> /\ snap[c] = << >>) THEN touched[c] ELSE touched[c] \union what]

\* _mark_nodes_dirty: these categories and the root.
MarkDirty(cats) ==
  node' = [n \in Nodes |->
             IF n \in cats \union {Root}
             THEN [known |-> TRUE, dirty |-> TRUE, shows |-> Null, outrun |-> FALSE]
             ELSE node[n]]

Free == {i \in Ids : mem[i].text = Null}

\* add_user_memory
Add(by, i, text, cat) ==
  /\ i \in Free
  /\ mem' = [mem EXCEPT ![i] = [active |-> TRUE, text |-> text, cat |-> cat, vec |-> Null]]
  /\ order' = Append(order, i)
  /\ MarkDirty({cat})
  /\ Touch(by, {i, cat, Root})

\* Mutant: the cached embedding of the old text is kept.
UpdateKeepsVector(by, i, text, cat) ==
  IF i \notin Active THEN UNCHANGED <<mem, order, node, touched>>
  ELSE LET new == IF cat = Null THEN mem[i].cat ELSE cat
       IN  /\ mem' = [mem EXCEPT ![i].text = text, ![i].cat = new]
           /\ order' = Append(RemoveFirst(order, i), i)
           /\ MarkDirty({mem[i].cat, new})
           /\ Touch(by, {i, mem[i].cat, new, Root})

\* update_user_memory: the cached embedding goes with the old text.
Update(by, i, text, cat) ==
  IF i \notin Active THEN UNCHANGED <<mem, order, node, touched>>
  ELSE LET new == IF cat = Null THEN mem[i].cat ELSE cat
       IN  /\ mem' = [mem EXCEPT ![i] = [active |-> TRUE, text |-> text, cat |-> new,
                                         vec |-> Null]]
           /\ order' = Append(RemoveFirst(order, i), i)
           /\ MarkDirty({mem[i].cat, new})
           /\ Touch(by, {i, mem[i].cat, new, Root})

\* Mutant: the summaries that show a deleted memory are not marked.
DeleteUnmarked(by, i) ==
  IF i \notin Active THEN UNCHANGED <<mem, order, node, touched>>
  ELSE /\ mem' = [mem EXCEPT ![i].active = FALSE]
       /\ order' = RemoveFirst(order, i)
       /\ UNCHANGED node
       /\ Touch(by, {i, mem[i].cat, Root})

\* delete_user_memory: a soft delete.
Delete(by, i) ==
  IF i \notin Active THEN UNCHANGED <<mem, order, node, touched>>
  ELSE /\ mem' = [mem EXCEPT ![i].active = FALSE]
       /\ order' = RemoveFirst(order, i)
       /\ MarkDirty({mem[i].cat})
       /\ Touch(by, {i, mem[i].cat, Root})

\* set_user_memory_category
Move(by, i, cat) ==
  IF i \notin Active THEN UNCHANGED <<mem, order, node, touched>>
  ELSE /\ mem' = [mem EXCEPT ![i].cat = cat]
       /\ order' = Append(RemoveFirst(order, i), i)
       /\ MarkDirty({mem[i].cat, cat})
       /\ Touch(by, {i, mem[i].cat, cat, Root})

\* set_memory_embeddings: no look at the text a row has by now.
SetVectors(rows) ==
  mem' = [i \in Ids |->
            IF \E r \in rows : r.id = i
            THEN [mem[i] EXCEPT !.vec = (CHOOSE r \in rows : r.id = i).text]
            ELSE mem[i]]

\* upsert_memory_index_node marks the node clean, whoever wrote meanwhile.
Upsert(by, n, shows) ==
  node' = [node EXCEPT ![n] = [known |-> TRUE, dirty |-> FALSE, shows |-> shows,
                               outrun |-> n \in touched[by]]]

-----------------------------------------------------------------------------
(* The user: the memory tools and POST /api/memory/save take no guard. *)

UserWrites(write) ==
  /\ writes < MaxWrites
  /\ writes' = writes + 1
  /\ write
  /\ UNCHANGED <<marker, curation, snap, todo>>

\* Bound: Ids leaves room for one more, next to what captures decided to add.
Room == Cardinality({c \in Curators : \E k \in DOMAIN todo[c] : todo[c][k].do = "add"})
          < Cardinality(Free)

\* A memory that is saved without a category is classified by the store.
Save(i, text, cat) ==
  Room /\ UserWrites(Add(Null, i, text, IF cat = Null THEN Classify(text) ELSE cat))
Edit(i, text) == i \in Active /\ UserWrites(Update(Null, i, text, Null))
Forget(i) == i \in Active /\ UserWrites(Delete(Null, i))

-----------------------------------------------------------------------------
(* Jobs.  Capture and consolidation after a turn wait for the user's guard  *)
(* and give up after 30 seconds; a manual consolidation and a recall do not *)
(* ask for it.  The guard is a set in the memory of the one server process. *)

Unchanged == UNCHANGED <<mem, order, node, marker, writes>>

Guarded == {"capture", "after_turn"}

\* A handler is scheduled, POST /api/memory/consolidate comes in, or memories
\* are searched.  Without memory_auto_curate a turn's consolidation has no LLM;
\* capture needs none once its extraction has replied.
Begin(c) ==
  /\ job[c] = "idle"
  /\ \E j \in JobsOf[c], has \in BOOLEAN :
       /\ has => j \notin {"capture", "recall"}
       /\ job' = [job EXCEPT ![c] = j]
       /\ llm' = [llm EXCEPT ![c] = has]
       /\ phase' = [phase EXCEPT ![c] = IF j \in Guarded THEN "wait"
                                        ELSE IF j = "recall" THEN "recall" ELSE "read"]
  /\ UNCHANGED <<guard, found, snap, todo, touched>>
  /\ Unchanged

\* Mutant: whether the user is busy is not looked at.
AcquireAnyway(c) ==
  /\ phase[c] = "wait"
  /\ guard' = c
  /\ phase' = [phase EXCEPT ![c] = IF job[c] = "capture" THEN "capture" ELSE "count"]
  /\ UNCHANGED <<job, llm, found, snap, todo, touched>>
  /\ Unchanged

Acquire(c) ==
  /\ phase[c] = "wait"
  /\ guard = Null
  /\ guard' = c
  /\ phase' = [phase EXCEPT ![c] = IF job[c] = "capture" THEN "capture" ELSE "count"]
  /\ UNCHANGED <<job, llm, found, snap, todo, touched>>
  /\ Unchanged

\* The job is over: the guard is released, and nothing it read is kept.
Leave(c) ==
  /\ job' = [job EXCEPT ![c] = "over"]
  /\ phase' = [phase EXCEPT ![c] = "end"]
  /\ llm' = [llm EXCEPT ![c] = FALSE]
  /\ guard' = IF guard = c THEN Null ELSE guard
  /\ found' = [found EXCEPT ![c] = {}]
  /\ snap' = [snap EXCEPT ![c] = << >>]
  /\ todo' = [todo EXCEPT ![c] = << >>]
  /\ touched' = [touched EXCEPT ![c] = {}]
  /\ Unchanged

GiveUp(c) == phase[c] = "wait" /\ guard # Null /\ Leave(c)

Finish(c) == job[c] \notin {"idle", "over"} /\ phase[c] = "end" /\ todo[c] = << >> /\ Leave(c)

\* A curator whose calls are all made goes from one phase to the next.
Turns(c, from, to) ==
  /\ phase[c] = from
  /\ todo[c] = << >>
  /\ phase' = [phase EXCEPT ![c] = to]
  /\ UNCHANGED <<guard, job, llm>>
  /\ Unchanged

ReadsRecords(c) ==
  /\ snap' = [snap EXCEPT ![c] = Records]
  /\ touched' = [touched EXCEPT ![c] = {}]

Decides(c, calls) == todo' = [todo EXCEPT ![c] = calls]

-----------------------------------------------------------------------------
(* search.py: ensure_embeddings, and the recall that needs all of them *)

\* The vectors that are missing by now, of the texts as they were read.  They
\* are written in one call.
EmbedCalls(records) ==
  LET rows == {r \in records : r.id \in Active => mem[r.id].vec = Null}
  IN  IF rows = {} THEN << >> ELSE <<[do |-> "vectors", rows |-> rows]>>

\* memory_preamble and search_memory: the records are read, then embedded.
Recall(c) ==
  /\ Turns(c, "recall", "recalled")
  /\ ReadsRecords(c)
  /\ UNCHANGED <<todo, found>>

EmbedRecalled(c) ==
  /\ Turns(c, "recalled", "end")
  /\ Decides(c, EmbedCalls(ToSet(snap[c])))
  /\ UNCHANGED <<found, snap, touched>>

-----------------------------------------------------------------------------
(* capture.py: reconcile the extracted memories, one after the other *)

Capture(c) ==
  /\ Turns(c, "capture", "items")
  /\ ReadsRecords(c)
  /\ \E items \in Extractions : found' = [found EXCEPT ![c] = items]
  /\ UNCHANGED todo

\* A constraint that is not there yet is added; another memory refreshes a
\* near-duplicate that is no constraint.  The encoder, if there is one and it
\* does not fail, embeds the near-duplicates first, and can veto any of them.
Item(c) ==
  /\ Turns(c, "items", "items")
  /\ found[c] # << >>
  /\ found' = [found EXCEPT ![c] = Tail(@)]
  /\ \E encodes \in BOOLEAN :
       LET text == Head(found[c])[1]
           cat == IF text \in ConstraintTexts THEN Protected ELSE Head(found[c])[2]
           add == <<[do |-> "add", text |-> text, cat |-> cat]>>
           pool == {r \in ToSet(snap[c]) : ~IsProtected(r) /\ Fact[r.text] = Fact[text]}
           embed == IF encodes THEN EmbedCalls(pool) ELSE << >>
       IN  \/ /\ cat = Protected /\ Room
              /\ \A r \in ToSet(snap[c]) : IsProtected(r) => r.text # text
              /\ Decides(c, add)
           \/ /\ cat = Protected
              /\ \E r \in ToSet(snap[c]) : IsProtected(r) /\ r.text = text
              /\ Decides(c, << >>)
           \/ /\ cat # Protected /\ Room
              /\ encodes \/ pool = {}
              /\ Decides(c, embed \o add)
           \/ /\ cat # Protected
              /\ \E r \in pool :
                   Decides(c, embed \o IF r.text = text THEN << >>
                                      ELSE <<[do |-> "update", id |-> r.id, text |-> text,
                                              cat |-> cat]>>)
  /\ UNCHANGED <<snap, touched>>

CaptureEnds(c) ==
  /\ Turns(c, "items", "end")
  /\ found[c] = << >>
  /\ found' = [found EXCEPT ![c] = {}]
  /\ UNCHANGED <<snap, todo, touched>>

-----------------------------------------------------------------------------
(* consolidation.py: run_due *)

CountActive(c) ==
  /\ Turns(c, "count", "due")
  /\ found' = [found EXCEPT ![c] = Cardinality(Active)]
  /\ UNCHANGED <<snap, todo, touched>>

AnyDirty == \E n \in Nodes : node[n].dirty

\* The marker is seeded, or memory has grown enough, or a summary is dirty.
Due(c) ==
  /\ \/ /\ marker = Null
        /\ Turns(c, "due", IF AnyDirty THEN "refresh" ELSE "end")
        /\ Decides(c, <<[do |-> "marker", count |-> found[c]]>>)
     \/ /\ marker # Null
        /\ Turns(c, "due", IF found[c] - marker >= Every THEN "read"
                           ELSE IF AnyDirty THEN "refresh" ELSE "end")
        /\ UNCHANGED todo
  /\ found' = [found EXCEPT ![c] = {}]
  /\ UNCHANGED <<snap, touched>>

-----------------------------------------------------------------------------
(* consolidation.py: consolidate_memories *)

\* Records are read newest first: of some positions, the newest is the least.
Newest(positions) == Min(positions)

Drop(r, kept) == [do |-> "delete", id |-> r.id, keeps |-> kept.id]

\* The newest of the exact duplicates of record k within its category.
First(s, k) == Newest({j \in DOMAIN s : s[j].cat = s[k].cat /\ s[j].text = s[k].text})

\* Exact duplicates within a category, constraints included: the newest stays.
Dedup(c) ==
  /\ Turns(c, "read", "vectors")
  /\ ReadsRecords(c)
  /\ Decides(c, FlattenSeq([k \in DOMAIN Records |->
                              IF First(Records, k) = k THEN << >>
                              ELSE <<Drop(Records[k], Records[First(Records, k)])>>]))
  /\ UNCHANGED found

\* What may be merged is embedded, if there is an encoder and it does not fail.
Embed(c) ==
  /\ Turns(c, "vectors", "merge")
  /\ \E encodes \in BOOLEAN :
       Decides(c, EmbedCalls({r \in ToSet(snap[c]) : encodes /\ ~IsProtected(r)}))
  /\ UNCHANGED <<found, snap, touched>>

\* Mutant: constraints are merged like any other category.
SeedAny(s, k) ==
  Newest({j \in DOMAIN s : s[j].cat = s[k].cat /\ Fact[s[j].text] = Fact[s[k].text]})

\* The newest record of the cluster of near-duplicates that record k is in.
Seed(s, k) ==
  IF IsProtected(s[k]) THEN k
  ELSE Newest({j \in DOMAIN s : /\ ~IsProtected(s[j])
                                /\ s[j].cat = s[k].cat
                                /\ Fact[s[j].text] = Fact[s[k].text]})

\* The seed is rewritten by the LLM if it replies, then the others go.
MergeInto(s, k, reply) ==
  (IF reply = Null THEN << >>
   ELSE <<[do |-> "update", id |-> s[k].id, text |-> reply, cat |-> Null]>>)
    \o FlattenSeq([j \in DOMAIN s |->
                     IF j # k /\ Seed(s, j) = k THEN <<Drop(s[j], s[k])>> ELSE << >>])

\* Near-duplicates within a category: the newest stays.
Merge(c) ==
  /\ Turns(c, "merge", "contradictions")
  /\ LET s == snap[c]
         seeds == {Seed(s, k) : k \in {j \in DOMAIN s : Seed(s, j) # j}}
     IN  \E reply \in [seeds -> IF llm[c] THEN Texts \union {Null} ELSE {Null}] :
           Decides(c, FlattenSeq([k \in DOMAIN s |->
                                    IF k \in seeds THEN MergeInto(s, k, reply[k]) ELSE << >>]))
  /\ UNCHANGED <<found, snap, touched>>

\* _supersede: the loser is written once more, with its metadata, and goes.
Supersede(r, winner) ==
  <<[do |-> "update", id |-> r.id, text |-> r.text, cat |-> Null], Drop(r, winner)>>

\* The newest of the records that k may contradict: with an LLM those of its
\* category, without one those of its tag.
Winner(s, k, has) ==
  Newest({j \in DOMAIN s : /\ ~IsProtected(s[j])
                           /\ IF has THEN s[j].cat = s[k].cat
                              ELSE Tag[s[j].text] = Tag[s[k].text]})

\* With an LLM, the losers it names; without one, all but the newest of a tag.
Contradictions(c) ==
  /\ Turns(c, "contradictions", "reclassify")
  /\ LET s == snap[c]
         losers == {k \in DOMAIN s : /\ ~IsProtected(s[k])
                                     /\ Winner(s, k, llm[c]) # k
                                     /\ llm[c] \/ Tag[s[k].text] # Null}
     IN  \E named \in IF llm[c] THEN SUBSET losers ELSE {losers} :
           Decides(c, FlattenSeq([k \in DOMAIN s |->
                                    IF k \in named THEN Supersede(s[k], s[Winner(s, k, llm[c])])
                                    ELSE << >>]))
  /\ UNCHANGED <<found, snap, touched>>

\* Mutant: the general memories sent to the LLM include protected ones.
ReclassifyAny(c) ==
  /\ Turns(c, "reclassify", "nodes")
  /\ LET s == snap[c]
         open == {k \in DOMAIN s : s[k].cat = General}
     IN  \E to \in [open -> IF llm[c] THEN Categories ELSE {General}] :
           Decides(c, FlattenSeq([k \in DOMAIN s |->
                                    IF k \in open /\ to[k] # General
                                    THEN <<[do |-> "move", id |-> s[k].id, cat |-> to[k]]>>
                                    ELSE << >>]))
  /\ UNCHANGED <<found, snap, touched>>

\* With an LLM, general memories move to the categories it assigns.
Reclassify(c) ==
  /\ Turns(c, "reclassify", "nodes")
  /\ LET s == snap[c]
         open == {k \in DOMAIN s : ~IsProtected(s[k]) /\ s[k].cat = General}
     IN  \E to \in [open -> IF llm[c] THEN Categories ELSE {General}] :
           Decides(c, FlattenSeq([k \in DOMAIN s |->
                                    IF k \in open /\ to[k] # General
                                    THEN <<[do |-> "move", id |-> s[k].id, cat |-> to[k]]>>
                                    ELSE << >>]))
  /\ UNCHANGED <<found, snap, touched>>

-----------------------------------------------------------------------------
(* consolidation.py: rebuild_index_summaries *)

\* The nodes are read within a consolidation, or on their own.
ReadNodes(c) ==
  /\ Turns(c, "nodes", "summaries") \/ Turns(c, "refresh", "refresh_summaries")
  /\ found' = [found EXCEPT ![c] = {n \in Nodes : node[n].dirty}]
  /\ snap' = [snap EXCEPT ![c] = << >>]
  /\ touched' = [touched EXCEPT ![c] = {}]
  /\ UNCHANGED todo

\* The dirty categories are written from the records read here, each after a
\* call of the LLM, and the root last.
Summarize(c) ==
  /\ Turns(c, "summaries", "final") \/ Turns(c, "refresh_summaries", "end")
  /\ LET write(n) == [do |-> "node", node |-> n, shows |-> Shows(n, ToSet(Records))]
     IN  Decides(c, [k \in 1 .. Cardinality(found[c] \ {Root}) |->
                       write(SetToSeq(found[c] \ {Root})[k])]
                    \o IF found[c] = {} THEN << >> ELSE <<write(Root)>>)
  /\ found' = [found EXCEPT ![c] = {}]
  /\ UNCHANGED <<snap, touched>>

\* The active memories are counted for the next growth.
Final(c) ==
  /\ Turns(c, "final", "end")
  /\ Decides(c, <<[do |-> "marker", count |-> Cardinality(Active)]>>)
  /\ UNCHANGED <<found, snap, touched>>

-----------------------------------------------------------------------------
(* A curator makes the next of the calls it decided on. *)

\* Its own records follow its own writes: a memory that is rewritten is the
\* newest, of the category that the store has it in by now.
Rewritten(s, i, text, cat) ==
  LET old == {k \in DOMAIN s : s[k].id = i}
  IN  IF old = {} \/ i \notin Active THEN s
      ELSE LET new == [id |-> i, text |-> text, cat |-> IF cat = Null THEN mem[i].cat ELSE cat]
           IN  <<new>> \o RemoveAt(s, CHOOSE k \in old : TRUE)

\* They lose what it deletes.
Without(s, i) == RemoveFirstMatch(s, LAMBDA r : r.id = i)

Carry(c, op) ==
  \/ /\ op.do = "add"
     /\ LET i == CHOOSE i \in Free : TRUE
        IN  /\ Add(c, i, op.text, op.cat)
            /\ snap' = [snap EXCEPT ![c] = Append(@, [id |-> i, text |-> op.text, cat |-> op.cat])]
     /\ UNCHANGED marker
  \/ /\ op.do = "update"
     /\ Update(c, op.id, op.text, op.cat)
     /\ snap' = [snap EXCEPT ![c] = Rewritten(@, op.id, op.text, op.cat)]
     /\ UNCHANGED marker
  \/ /\ op.do = "delete"
     /\ Delete(c, op.id)
     /\ snap' = [snap EXCEPT ![c] = Without(@, op.id)]
     /\ UNCHANGED marker
  \/ /\ op.do = "move"
     /\ Move(c, op.id, op.cat)
     /\ UNCHANGED <<marker, snap>>
  \/ /\ op.do = "vectors"
     /\ SetVectors(op.rows)
     /\ UNCHANGED <<order, node, touched, marker, snap>>
  \/ /\ op.do = "node"
     /\ Upsert(c, op.node, op.shows)
     /\ UNCHANGED <<mem, order, touched, marker, snap>>
  \/ /\ op.do = "marker"
     /\ marker' = op.count
     /\ UNCHANGED <<mem, order, node, touched, snap>>

Do(c) ==
  /\ todo[c] # << >>
  /\ Carry(c, Head(todo[c]))
  /\ todo' = [todo EXCEPT ![c] = Tail(@)]
  /\ UNCHANGED <<curation, writes>>

-----------------------------------------------------------------------------

Proceed(c) ==
  \/ Acquire(c) \/ GiveUp(c) \/ Finish(c) \/ Recall(c) \/ EmbedRecalled(c)
  \/ Capture(c) \/ Item(c) \/ CaptureEnds(c) \/ CountActive(c) \/ Due(c)
  \/ Dedup(c) \/ Embed(c) \/ Merge(c) \/ Contradictions(c) \/ Reclassify(c)
  \/ ReadNodes(c) \/ Summarize(c) \/ Final(c) \/ Do(c)

User ==
  \/ \E i \in Ids, text \in Texts, cat \in Said \union {Null} : Save(i, text, cat)
  \/ \E i \in Ids, text \in Texts : Edit(i, text)
  \/ \E i \in Ids : Forget(i)

Next ==
  \/ \E c \in Curators : Begin(c) \/ Proceed(c)
  \/ User

Spec == Init /\ [][Next]_vars

-----------------------------------------------------------------------------
(* Properties *)

\* A summary that is not marked dirty shows the memories there are, unless a
\* write came between the reading of the records it was written from and its
\* own writing: that write's mark is then lost.  Two rebuilds, captures,
\* merges and the user's writes interleave at every store call.
CleanMeansCurrent ==
  \A n \in Nodes :
    node[n].known /\ ~node[n].dirty /\ ~node[n].outrun =>
      node[n].shows = Shows(n, {RecordOf(i) : i \in Active})

\* The call a curator makes in this step, if any, and whether another wrote to
\* a memory since the curator read it.
Makes(c) == todo[c] # << >> /\ todo'[c] = Tail(todo[c])
Foreign(c, i) == i \in touched[c]

\* Every memory that capture or consolidation deletes is deleted in favour of
\* one that is still there, and a constraint only in favour of a constraint
\* with the same text: whatever merges, rewrites, contradictions and other
\* curators came before, nothing of what the user said is lost unless another
\* wrote to one of the two meanwhile.
DeletedForAnother ==
  [][\A c \in Curators :
       LET op == Head(todo[c])
       IN  Makes(c) /\ op.do = "delete" /\ op.id \in Active
             /\ ~Foreign(c, op.id) /\ ~Foreign(c, op.keeps) =>
               /\ mem[op.keeps].active /\ op.keeps # op.id
               /\ IsProtected(mem[op.id]) => mem[op.keeps].text = mem[op.id].text]_vars

\* consolidation.py: no reply of an LLM and no near-duplicate moves or rewrites
\* a constraint, unless another made it one meanwhile.
ConstraintsStay ==
  [][\A c \in Curators :
       LET op == Head(todo[c])
       IN  Makes(c) /\ op.do \in {"update", "move"} /\ op.id \in Active
             /\ ~Foreign(c, op.id) => ~IsProtected(mem[op.id])]_vars

\* The embedding of a text the memory does not have any more.
Stale(i) == mem[i].vec \notin {Null, mem[i].text}

\* A memory gets such an embedding in one way only: a capture, consolidation or
\* recall that read it before another one or the user wrote to it stores the
\* embedding it computed from what it had read.
OnlyOutrunVectorsAreStale ==
  [][\A i \in Ids :
       Stale(i)' /\ ~Stale(i) =>
         \E c \in Curators :
           Makes(c) /\ Head(todo[c]).do = "vectors" /\ Foreign(c, i)]_vars

\* Capture and consolidation of one user's turns never interleave.
HandlersTakeTurns ==
  \A c, d \in Curators :
    /\ job[c] \in Guarded /\ phase[c] # "wait"
    /\ job[d] \in Guarded /\ phase[d] # "wait"
    => c = d

\* 2026-11-05-hierarchical-agent-memory-design.md: "a cached vector is valid
\* only if embedding_model matches the current encoder's identity and the text
\* hasn't changed since. An update clears the embedding."
VectorsMatchTexts == \A i \in Active : ~Stale(i)
=============================================================================
