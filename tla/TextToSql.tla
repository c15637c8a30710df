------------------------------ MODULE TextToSql ------------------------------
(***************************************************************************)
(* One question to the database: Text2SQLService asks the model for one    *)
(* SELECT, SQLGuard accepts it or says why not, a refused one is repaired  *)
(* once, an accepted one is executed (services/text2sql_service.py,        *)
(* security/sql_guard.py), every model call going through                  *)
(* LLMService.generate_structured (services/llm_service.py).               *)
(*                                                                         *)
(* A statement is what the guard looks at in its syntax tree.  What the    *)
(* model answers is open.                                                  *)
(***************************************************************************)
EXTENDS Integers, Sequences, SequencesExt

CONSTANTS
    Columns,     \* TABLE_SCHEMAS: per allowed table, its allowed columns
    Stored,      \* per table of the database, all its columns
    Functions,   \* ALLOWED_FUNCTIONS
    MaxRows, MaxOffset,
    Statements   \* what the model may answer with

None == -1        \* no such clause
NotInteger == -2  \* the clause holds something else than an integer literal

(* What the guard looks at.  An empty string stands for what is not there. *)
(* The columns are those that sqlglot's tree has as columns: the ones that *)
(* a NATURAL JOIN or a USING list compares are not among them.             *)
Statement ==
    [kind: {"empty", "untokenizable", "unparsable", "many", "other", "select"},
     nodes: SUBSET STRING,
     tables: Seq([name: STRING, alias: STRING, qualified: BOOLEAN]),
     outputs: Seq([name: STRING, alias: STRING, star: BOOLEAN]),
     columns: Seq([table: STRING, name: STRING]), functions: SUBSET STRING,
     limit: Nat \cup {None, NotInteger}, offset: Nat \cup {None, NotInteger}]

ASSUME SqlAssumption ==
    /\ MaxRows \in Nat \ {0} /\ MaxOffset \in Nat
    /\ DOMAIN Columns \subseteq DOMAIN Stored
    /\ \A t \in DOMAIN Columns : Columns[t] \subseteq Stored[t]
    /\ Statements \subseteq Statement

(* What the list leaves out of one of its tables it allows in none.  The   *)
(* guard needs it: a name without a table may mean a column that is left   *)
(* out beside the allowed one, and the alias map may know a table by       *)
(* another table's name.  knowledge_docs.team_id is all it leaves out.     *)
ASSUME HiddenEverywhere ==
    \A t, u \in DOMAIN Columns : Columns[t] \cap Stored[u] \subseteq Columns[u]

VARIABLES
    query,   \* where the question is, with its attempt and its statement
    prompt,  \* the statements whose refusal the user prompt quotes
    events   \* the trace

sqlVars == <<query, prompt, events>>

-----------------------------------------------------------------------------
(* The guard *)

IsOneSelect(s) == s.kind = "select"

NoForbiddenNode(s) == s.nodes = {}

AliasOf(table) == IF table.alias = "" THEN table.name ELSE table.alias

NamesOf(table) == {AliasOf(table), table.name}

(* The alias map after the first n tables: a table is known by its alias   *)
(* and by its name, the later entry wins.                                  *)
Aliases(s, n) ==
    LET latest(a) == CHOOSE m \in 1..n :
            /\ a \in NamesOf(s.tables[m])
            /\ \A k \in (m + 1)..n : a \notin NamesOf(s.tables[k])
    IN  [a \in UNION {NamesOf(s.tables[m]) : m \in 1..n} |-> s.tables[latest(a)].name]

TablesAllowed(s) ==
    /\ s.tables # <<>>
    /\ \A n \in DOMAIN s.tables :
         LET t == s.tables[n]
             known == Aliases(s, n - 1)
         IN  /\ ~t.qualified /\ t.name \in DOMAIN Columns
             /\ AliasOf(t) \in DOMAIN known => known[AliasOf(t)] = t.name

OutputName(p) == IF p.alias = "" THEN p.name ELSE p.alias

ProjectionsNamed(s) ==
    /\ \A p \in ToSet(s.outputs) : ~p.star /\ OutputName(p) # ""
    /\ IsInjective([n \in DOMAIN s.outputs |-> OutputName(s.outputs[n])])

OutputAliases(s) == {p.alias : p \in ToSet(s.outputs)} \ {""}

(* Mutant: a column of a known table is not looked up. *)
ColumnsKnown(s) ==
    \A c \in ToSet(s.columns) : c.table # "" => c.table \in DOMAIN Aliases(s, Len(s.tables))

(* A qualified column belongs to the table the map gives; another one is   *)
(* an output alias or a column of exactly one table of the statement.      *)
ColumnsAllowed(s) ==
    LET aliases == Aliases(s, Len(s.tables)) IN
    \A c \in ToSet(s.columns) :
        \/ c.table # "" /\ c.table \in DOMAIN aliases /\ c.name \in Columns[aliases[c.table]]
        \/ c.table = "" /\ c.name \in OutputAliases(s)
        \/ c.table = "" /\ \E n \in DOMAIN s.tables : \A m \in DOMAIN s.tables :
              c.name \in Columns[s.tables[m].name] <=> m = n

FunctionsAllowed(s) == s.functions \subseteq Functions

LimitIsInteger(s) == s.limit # NotInteger

OffsetAllowed(s) == s.offset # NotInteger /\ s.offset <= MaxOffset

(* Mutant: the limit is added, and never lowered. *)
AddLimit(s) == [s EXCEPT !.limit = IF @ = None THEN MaxRows ELSE @]

ApplyLimit(s) == [s EXCEPT !.limit = IF @ = None \/ @ > MaxRows THEN MaxRows ELSE @]

(* validate: the code of the first check that fails.  Of sqlglot's errors  *)
(* it knows ParseError only; the tokenizer's leaves it as it is.           *)
Verdict(s) ==
    IF s.kind = "untokenizable" THEN "RAISES"
    ELSE IF s.kind \in {"empty", "unparsable"} THEN "INVALID_SQL"
    ELSE IF /\ IsOneSelect(s) /\ NoForbiddenNode(s)
            /\ TablesAllowed(s)
            /\ ProjectionsNamed(s)
            /\ ColumnsAllowed(s)
            /\ FunctionsAllowed(s) /\ LimitIsInteger(s) /\ OffsetAllowed(s)
         THEN "ALLOWED" ELSE "UNSAFE_SQL"

Refusals == {"INVALID_SQL", "UNSAFE_SQL"}

-----------------------------------------------------------------------------
SqlInit ==
    /\ query = [pc |-> "asked", attempt |-> 1]
    /\ prompt = <<>> /\ events = <<>>

Record(event) == events' = Append(events, event)

(* generate_structured: one event for every call, however it ends. *)
LLMFailures ==
    {"TIMEOUT", "REQUEST_ERROR", "REFUSAL", "SCHEMA_VALIDATION_ERROR", "JSON_PARSE_ERROR"}

GenerateFails ==
    /\ query.pc = "asked"
    /\ \E error \in LLMFailures : Record([kind |-> "llm", status |-> "failed", what |-> error])
    /\ query' = [pc |-> "raised", attempt |-> query.attempt]
    /\ UNCHANGED prompt

Generate ==
    /\ query.pc = "asked"
    /\ \E s \in Statements : query' = [pc |-> "generated", attempt |-> query.attempt, sql |-> s]
    /\ Record([kind |-> "llm", status |-> "success", what |-> prompt])
    /\ UNCHANGED prompt

(* What the guard lets pass is written anew from the tree, limit included. *)
AcceptSql ==
    /\ query.pc = "generated" /\ Verdict(query.sql) = "ALLOWED"
    /\ query' = [pc |-> "guarded", attempt |-> query.attempt, sql |-> ApplyLimit(query.sql)]
    /\ Record([kind |-> "sql", status |-> "success", what |-> ApplyLimit(query.sql)])
    /\ UNCHANGED prompt

(* Mutant: every refusal is repaired. *)
RefuseAlways ==
    /\ query.pc = "generated" /\ Verdict(query.sql) \in Refusals /\ query.attempt < 4
    /\ Record([kind |-> "sql", status |-> "failed", what |-> query.sql])
    /\ query' = [pc |-> "asked", attempt |-> query.attempt + 1]
    /\ prompt' = <<query.sql>>

Refuse ==
    /\ query.pc = "generated" /\ Verdict(query.sql) \in Refusals
    /\ Record([kind |-> "sql", status |-> "failed", what |-> query.sql])
    /\ IF query.attempt = 1
       THEN /\ query' = [pc |-> "asked", attempt |-> 2]
            /\ prompt' = Append(prompt, query.sql)
       ELSE /\ query' = [pc |-> "raised", attempt |-> 2]
            /\ UNCHANGED prompt

(* What is no SQLGuardError leaves generate_sql: no verdict, no repair. *)
GuardRaises ==
    /\ query.pc = "generated" /\ Verdict(query.sql) = "RAISES"
    /\ query' = [pc |-> "escaped", attempt |-> query.attempt]
    /\ UNCHANGED <<prompt, events>>

(* The database answers, or raises what the guard cannot see. *)
ExecuteSql ==
    /\ query.pc = "guarded"
    /\ \E end \in {"answered", "raised"} :
         query' = [pc |-> end, attempt |-> query.attempt, sql |-> query.sql]
    /\ UNCHANGED <<prompt, events>>

SqlNext == GenerateFails \/ Generate \/ AcceptSql \/ Refuse \/ GuardRaises \/ ExecuteSql

SqlSpec == SqlInit /\ [][SqlNext]_sqlVars

-----------------------------------------------------------------------------
(* Properties *)

(* What the database reads for column c of a statement: a table goes by    *)
(* its alias alone, and a name without a table means every table of the    *)
(* statement that has it.                                                  *)
Read(s, c) ==
    {<<t.name, c.name>> : t \in {t \in ToSet(s.tables) :
        c.name \in Stored[t.name] /\ c.table \in {"", AliasOf(t)}}}

(* The names that the guard looks up: it takes a name without a table that *)
(* is an output's alias for that output.                                   *)
LookedUp(s) == {c \in ToSet(s.columns) : c.table # "" \/ c.name \notin OutputAliases(s)}

(* An executed statement names allowed tables only; each column that it    *)
(* names is, under the database's rules for names and not the guard's own  *)
(* alias map, an allowed one of each table that it may be of; and it asks  *)
(* for a bounded number of rows.  Nothing is said of the columns that the  *)
(* guard does not look up.                                                 *)
QueryIsAllowed ==
    query.pc = "guarded" =>
        /\ query.sql.limit \in 0..MaxRows
        /\ query.sql.offset <= MaxOffset
        /\ \A t \in ToSet(query.sql.tables) : t.name \in DOMAIN Columns
        /\ \A r \in UNION {Read(query.sql, c) : c \in LookedUp(query.sql)} :
             r[2] \in Columns[r[1]]

(* The trace explains the question's end: a generation, its verdict, and   *)
(* after a refusal the second and last generation, told of that refusal,   *)
(* with its verdict; what was executed is what the last verdict let pass.  *)
(* Only a statement that the guard's parser chokes on has no verdict, and  *)
(* it is neither repaired nor executed.                                    *)
QueryIsTraced ==
    query.pc \in {"answered", "raised", "escaped"} =>
        /\ Len(events) \in 1..4
        /\ query.pc = "escaped" => Len(events) \in {1, 3}
        /\ \A i \in 1..Len(events) :
             /\ events[i].kind = IF i \in {1, 3} THEN "llm" ELSE "sql"
             /\ i \in {1, 3} =>
                  (events[i].status = "success" <=> i < Len(events) \/ query.pc = "escaped")
        /\ Len(events) > 2 =>
             /\ events[2].status = "failed"
             /\ events[3].status = "success" => events[3].what = <<events[2].what>>
        /\ query.pc = "answered" =>
             LET last == events[Len(events)] IN
             last.kind = "sql" /\ last.status = "success" /\ last.what = query.sql

(* What reaches the database passed the guard for good reasons, and the    *)
(* trace shows it.                                                         *)
QueryIsGuarded == QueryIsAllowed /\ QueryIsTraced
=============================================================================
