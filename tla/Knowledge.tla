------------------------------ MODULE Knowledge ------------------------------
(***************************************************************************)
(* The knowledge base and the imported logs: the batch imports             *)
(* (ingestion_service.py behind routers/ingestion_router.py) and the       *)
(* search over an index that is cached by the version of the corpus        *)
(* (retrieval_service.py, retrieval/retriever.py, retrieval/bm25.py).      *)
(*                                                                         *)
(* Every import and every search is a database session of its own: what it *)
(* reads is the snapshot of its first query, what it writes becomes        *)
(* visible at its commit, and a row it has updated is locked until then.   *)
(* A document's title and content are updated apart from each other; its   *)
(* category is like its title.  No constraint of the tables makes a source *)
(* or a request id unique.                                                 *)
(***************************************************************************)
EXTENDS Naturals, Sequences, SequencesExt, FiniteSetsExt

CONSTANTS
    Importers, Searchers,
    Teams,
    Payloads,    \* the batches that are imported: sequences of items
    Relevance,   \* score of a content for the query, 0 for no common term
    Limit,       \* the query's limit
    MaxImports, MaxSearches  \* bounds: imports that flush; searches

ASSUME KnowledgeAssumption ==
    /\ \A items \in Payloads : items \in Seq(ToSet(items))
    /\ Limit \in Nat \ {0} /\ MaxImports \in Nat /\ MaxSearches \in Nat

VARIABLES
    rows,      \* committed rows: documents of a team, or logs
    lastId,    \* AUTO_INCREMENT: not rolled back
    clock,     \* utc_now(): ticks at every flush
    importer,  \* per importer: its open import
    searcher,  \* per searcher: its open search or its last answer
    cache,     \* _index_cache: a version and the documents indexed under it
    searches,
    raced,     \* sources that two imports were open for at the same time
    late       \* an import committed what it had stamped before another's commit

knowledgeVars == <<rows, lastId, clock, importer, searcher, cache, searches, raced, late>>

-----------------------------------------------------------------------------
(* Logs belong to no team: their owner is the log table itself. *)
LogTable == "logs"
Owners == Teams \cup {LogTable}

Closed == [pc |-> "idle"]
NoIndex == [version |-> <<0, 0, 0>>, docs |-> {}]

KnowledgeInit ==
    /\ rows = {} /\ lastId = 0 /\ clock = 0
    /\ importer = [i \in Importers |-> Closed]
    /\ searcher = [s \in Searchers |-> [pc |-> "idle"]]
    /\ cache = NoIndex /\ searches = 0
    /\ raced = {} /\ late = FALSE

-----------------------------------------------------------------------------
(* Imports *)

Importing(i) == importer[i].pc # "idle"

(* Mutant: what a batch repeats is not dropped. *)
UniqueItemsAll(items) == DOMAIN items

(* unique_items.setdefault: the places of the first item of every source. *)
UniqueItems(items) ==
    {k \in DOMAIN items : \A j \in 1..(k - 1) : items[j].source # items[k].source}

(* existing: one row per source, whichever the query returned last. *)
Existing(owner, sources) ==
    LET found == {r \in rows : r.owner = owner /\ r.source \in sources} IN
    {seen \in SUBSET found :
        /\ {r.source : r \in seen} = {r.source : r \in found}
        /\ \A r, q \in seen : r.source = q.source => r = q}

(* import_logs, import_knowledge: the snapshot is read.  Logs of a service *)
(* that is not granted to the member's team, and requests without the      *)
(* ingestion key, have been refused before.                                *)
BeginImport(i) ==
    /\ ~Importing(i)
    /\ clock + Cardinality({j \in Importers : importer[j].pc = "read"}) < MaxImports  \* bound
    /\ \E owner \in Owners, items \in Payloads :
         LET sources == {item.source : item \in ToSet(items)} IN
         /\ \E seen \in Existing(owner, sources) :
              importer' = [importer EXCEPT ![i] =
                  [pc |-> "read", owner |-> owner, items |-> items, seen |-> seen]]
         /\ raced' = raced \cup {<<owner, s>> : s \in {s \in sources :
                \E j \in Importers \ {i} :
                    /\ Importing(j) /\ importer[j].owner = owner
                    /\ \E item \in ToSet(importer[j].items) : item.source = s}}
    /\ UNCHANGED <<rows, lastId, clock, searcher, cache, searches, late>>

SeenOf(i, source) == {r \in importer[i].seen : r.source = source}

Created(i) ==
    {k \in UniqueItems(importer[i].items) : SeenOf(i, importer[i].items[k].source) = {}}

(* Only documents are updated: a log is immutable. *)
Updated(i) ==
    {u \in importer[i].seen \X {importer[i].items[k] : k \in UniqueItems(importer[i].items)} :
        /\ importer[i].owner # LogTable /\ u[1].source = u[2].source
        /\ u[1].title # u[2].title \/ u[1].content # u[2].content}

Locked(i) == IF importer[i].pc = "flushed" THEN {u[1].id : u \in Updated(i)} ELSE {}

(* session.flush(): new rows take their ids, updated ones are locked; the  *)
(* time stamp is the application's, of this moment.                        *)
FlushImport(i) ==
    /\ importer[i].pc = "read"
    /\ \A j \in Importers \ {i}, u \in Updated(i) : u[1].id \notin Locked(j)
    /\ clock' = clock + 1
    /\ lastId' = lastId + Cardinality(Created(i))
    /\ importer' = [importer EXCEPT ![i] =
          [pc |-> "flushed", owner |-> @.owner, items |-> @.items, seen |-> @.seen,
           at |-> clock + 1, firstId |-> lastId + 1]]
    /\ UNCHANGED <<rows, searcher, cache, searches, raced, late>>

(* An UPDATE names the columns that differ from what was read. *)
Rewritten(i, r) ==
    LET u == CHOOSE u \in Updated(i) : u[1].id = r.id IN
    [r EXCEPT !.title = IF u[2].title # u[1].title THEN u[2].title ELSE @,
              !.content = IF u[2].content # u[1].content THEN u[2].content ELSE @,
              !.at = importer[i].at]

NewRow(i, k) ==
    LET item == importer[i].items[k] IN
    [id |-> importer[i].firstId + Cardinality({j \in Created(i) : j < k}),
     owner |-> importer[i].owner, source |-> item.source, title |-> item.title,
     content |-> item.content, at |-> importer[i].at]

CommitImport(i) ==
    /\ importer[i].pc = "flushed"
    /\ rows' = {IF r.id \in Locked(i) THEN Rewritten(i, r) ELSE r : r \in rows}
               \cup {NewRow(i, k) : k \in Created(i)}
    /\ late' = (late \/ \E r \in rows : r.at > importer[i].at)
    /\ importer' = [importer EXCEPT ![i] = Closed]
    /\ UNCHANGED <<lastId, clock, searcher, cache, searches, raced>>

(* A database error, a lock that does not come: nothing of the batch stays. *)
RollBackImport(i) ==
    /\ Importing(i)
    /\ importer' = [importer EXCEPT ![i] = Closed]
    /\ UNCHANGED <<rows, lastId, clock, searcher, cache, searches, raced, late>>

-----------------------------------------------------------------------------
(* Searches *)

Documents == {r \in rows : r.owner # LogTable}

(* Mutant: the version does not tell when a document was rewritten. *)
VersionCounts(docs) ==
    <<Cardinality(docs), 0, IF docs = {} THEN 0 ELSE Max({d.id : d \in docs})>>

(* _knowledge_version: count, latest update and highest id. *)
Version(docs) ==
    <<Cardinality(docs), IF docs = {} THEN 0 ELSE Max({d.at : d \in docs}),
      IF docs = {} THEN 0 ELSE Max({d.id : d \in docs})>>

(* top_k: documents with a positive score, best first, in the order of the *)
(* corpus where scores are equal.                                          *)
Ranked(docs) ==
    SetToSortSeq({d \in docs : Relevance[d.content] > 0},
                 LAMBDA d, e : \/ Relevance[d.content] > Relevance[e.content]
                               \/ Relevance[d.content] = Relevance[e.content] /\ d.id < e.id)

Result(docs) ==
    LET ranked == Ranked(docs) IN
    [hits |-> SubSeq(ranked, 1, Min({Limit, Len(ranked)})), total |-> Len(ranked)]

(* search_knowledge for a team indexes the team's documents at every call. *)
SearchTeam(s) ==
    /\ searcher[s].pc \in {"idle", "answered"} /\ searches < MaxSearches
    /\ \E team \in Teams :
         LET docs == {d \in Documents : d.owner = team} IN
         searcher' = [searcher EXCEPT ![s] =
             [pc |-> "answered", team |-> team, docs |-> docs, result |-> Result(docs)]]
    /\ searches' = searches + 1
    /\ UNCHANGED <<rows, lastId, clock, importer, cache, raced, late>>

(* Without a team the version is read first: it fixes the snapshot. *)
ReadVersion(s) ==
    /\ searcher[s].pc \in {"idle", "answered"} /\ searches < MaxSearches
    /\ searcher' = [searcher EXCEPT ![s] = [pc |-> "versioned", docs |-> Documents]]
    /\ searches' = searches + 1
    /\ UNCHANGED <<rows, lastId, clock, importer, cache, raced, late>>

(* Under the lock: the cached index of this version, or a new one. *)
SearchIndex(s) ==
    LET docs == searcher[s].docs
        hit == cache.version = Version(docs) /\ cache # NoIndex
        index == IF hit THEN cache.docs ELSE docs
    IN
    /\ searcher[s].pc = "versioned"
    /\ cache' = IF hit THEN cache ELSE [version |-> Version(docs), docs |-> docs]
    /\ searcher' = [searcher EXCEPT ![s] =
          [pc |-> "answered", team |-> LogTable, docs |-> docs, result |-> Result(index)]]
    /\ UNCHANGED <<rows, lastId, clock, importer, searches, raced, late>>

KnowledgeNext ==
    \/ \E i \in Importers :
         BeginImport(i) \/ FlushImport(i) \/ CommitImport(i) \/ RollBackImport(i)
    \/ \E s \in Searchers : SearchTeam(s) \/ ReadVersion(s) \/ SearchIndex(s)

KnowledgeSpec == KnowledgeInit /\ [][KnowledgeNext]_knowledgeVars

-----------------------------------------------------------------------------
(* Properties *)

(* An import is idempotent and whole: when it commits, every source of its *)
(* batch has exactly one row of its owner, a document with the text the    *)
(* batch gave it first, a log as it was first imported; and no other row   *)
(* has changed.  Sources that two imports were open for at the same time   *)
(* are excepted: they can get two rows.                                    *)
ImportsAreFaithful ==
    [][\A i \in Importers : importer[i].pc = "flushed" /\ rows' # rows /\ importer'[i] = Closed =>
         LET owner == importer[i].owner
             items == importer[i].items
             Of(source, table) == {r \in table : r.owner = owner /\ r.source = source}
         IN
         /\ \A k \in DOMAIN items :
              /\ \A j \in 1..(k - 1) : items[j].source # items[k].source
              /\ <<owner, items[k].source>> \notin raced
              => \E r \in rows' :
                   /\ Of(items[k].source, rows') = {r}
                   /\ IF owner = LogTable /\ Of(items[k].source, rows) # {}
                      THEN r \in rows
                      ELSE r.title = items[k].title /\ r.content = items[k].content
         /\ \A r \in rows : r \in rows' \/ (r.owner = owner /\ r.owner # LogTable
              /\ \E k \in DOMAIN items : items[k].source = r.source)]_knowledgeVars

(* A search answers from the corpus of its own snapshot, cached index or   *)
(* not: the best documents of it in order, no document of another team.    *)
(* The version does not tell an update that was stamped before another     *)
(* import's commit and committed after it: such late commits are excepted. *)
SearchIsCurrent ==
    \A s \in Searchers : searcher[s].pc = "answered" /\ ~late =>
        searcher[s].result = Result(searcher[s].docs)
=============================================================================
