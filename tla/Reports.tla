------------------------------- MODULE Reports -------------------------------
(***************************************************************************)
(* Reports over the history of a data logger: a saved list of columns, and *)
(* the queries and CSV exports that read the history through it while the  *)
(* logger writes batches, retention removes them, and both are edited.     *)
(*                                                                         *)
(* report/service.go, report/postgres/repository.go, report/http/, and     *)
(* datalogger/postgres/query_repository.go; of the logger, what            *)
(* datalogger/postgres/repository.go does to its selected tags.            *)
(*                                                                         *)
(* Statements outside a transaction are steps of their own.  A cell is the *)
(* set of the batches it was made from, so that what MIN or AVG gives is   *)
(* left out, and what it was computed over is not.  One logger and one     *)
(* report; names, time zones and the text of the cells are left out.       *)
(***************************************************************************)
EXTENDS Naturals, Sequences, FiniteSets, FiniteSetsExt, SequencesExt

CONSTANTS
    Tags, BoolTags,   \* the tags, and those of data type bool
    Layouts,          \* the column lists a save may have: <<tag, aggregate>>s
    Ranges,           \* the ranges <<from, to>> a query may ask for
    Width,            \* of a bucket
    PerPage,          \* exportPerPage
    MaxTime, MaxSaves, MaxQueries, MaxEdits   \* bounds

ReportsAssumption ==
    /\ BoolTags \subseteq Tags /\ Width \in Nat \ {0} /\ PerPage \in Nat \ {0}

VARIABLES
    now,        \* the last batch written; batch n has the time n
    tags,       \* the table tags
    selected,   \* data_logger_tags of the logger
    rows,       \* tag_values_raw, as <<tag, batch>>
    report,     \* the row of reports
    columns,    \* its report_columns, in order
    save,       \* the request that creates or changes the report
    query,      \* the request that reads it
    made        \* requests and edits so far

tableVars   == <<now, tags, selected, rows, report, columns>>
reportsVars == <<tableVars, save, query, made>>

Absent    == [exists |-> FALSE, mode |-> "raw"]
NoSave    == [at |-> "none", mode |-> "raw", layout |-> <<>>]
NoQuery   == [at |-> "none", all |-> FALSE, mode |-> "raw", columns |-> <<>>,
              range |-> <<0, 0>>, page |-> 1, pages |-> 0, keys |-> <<>>,
              groups |-> {}, cells |-> <<>>, out |-> <<>>,
              began |-> 0, lost |-> FALSE, kept |-> {}]

Batches == 1 .. MaxTime
TagsOf(layout) == {layout[i][1] : i \in DOMAIN layout}

ReportsTypeOK ==
    /\ now \in 0..MaxTime /\ tags \subseteq Tags /\ selected \subseteq tags
    /\ rows \subseteq Tags \X Batches
    /\ TagsOf(columns) \subseteq selected
    /\ save.at \in {"none", "insert", "update"}
    /\ query.at \in {"none", "columns", "count", "keys", "rows", "page"}

ReportsInit ==
    /\ now = 0 /\ tags = Tags /\ selected = Tags /\ rows = {}
    /\ report = Absent /\ columns = <<>>
    /\ save = NoSave /\ query = NoQuery
    /\ made = [saves |-> 0, queries |-> 0, edits |-> 0]

-----------------------------------------------------------------------------
(* The logger *)

\* The batches with rows.
Left == {r[2] : r \in rows}

WriteBatch ==
    /\ now < MaxTime
    /\ now' = now + 1
    /\ rows' = rows \cup (selected \X {now + 1})
    /\ UNCHANGED <<tags, selected, report, columns, save, query, made>>

\* deleteRetentionBatches: the oldest batch goes first.
Retain ==
    /\ Left # {}
    /\ rows' = {r \in rows : r[2] # Min(Left)}
    /\ query' = [query EXCEPT !.lost = @ \/ query.at # "none"]
    /\ UNCHANGED <<now, tags, selected, report, columns, save, made>>

\* repository.Update of the logger: replaceTags deletes every selection and
\* inserts the new ones, and report_columns reference them ON DELETE CASCADE.
UpdateLogger(chosen) ==
    /\ made.edits < MaxEdits
    /\ made' = [made EXCEPT !.edits = @ + 1]
    /\ selected' = chosen
    /\ columns' = <<>>
    /\ UNCHANGED <<now, tags, rows, report, save, query>>

\* The deletion of a tag takes its rows, its selection and its columns along.
DeleteTag(t) ==
    /\ made.edits < MaxEdits
    /\ made' = [made EXCEPT !.edits = @ + 1]
    /\ tags' = tags \ {t} /\ selected' = selected \ {t}
    /\ rows' = {r \in rows : r[1] # t}
    /\ columns' = SelectSeq(columns, LAMBDA c : c[1] # t)
    /\ query' = [query EXCEPT !.lost = @ \/ query.at # "none"]
    /\ UNCHANGED <<now, report, save>>

-----------------------------------------------------------------------------
(* Saving a report: Service.normalize, then the transaction *)

Valid(mode, layout) ==
    /\ layout # <<>> /\ TagsOf(layout) \subseteq selected
    /\ mode = "raw" \/ \A i \in DOMAIN layout :
         layout[i][1] \in BoolTags => layout[i][2] \in {"count", "first", "last"}

Save(mode, layout) ==
    /\ save.at = "none" /\ made.saves < MaxSaves
    /\ Valid(mode, layout)
    /\ made' = [made EXCEPT !.saves = @ + 1]
    /\ save' = [at |-> IF report.exists THEN "update" ELSE "insert",
                mode |-> mode, layout |-> layout]
    /\ UNCHANGED <<tableVars, query>>

\* The foreign key of report_columns refuses a tag no longer selected, and the
\* transaction is rolled back.
Commit ==
    /\ save.at \in {"insert", "update"}
    /\ save' = NoSave
    /\ IF TagsOf(save.layout) \subseteq selected
          /\ (save.at = "update" => report.exists)
       THEN /\ report' = [exists |-> TRUE, mode |-> save.mode]
            /\ columns' = save.layout
       ELSE UNCHANGED <<report, columns>>
    /\ UNCHANGED <<now, tags, selected, rows, query, made>>

DeleteReport ==
    /\ report.exists /\ made.edits < MaxEdits
    /\ made' = [made EXCEPT !.edits = @ + 1]
    /\ report' = Absent /\ columns' = <<>>
    /\ UNCHANGED <<now, tags, selected, rows, save, query>>

-----------------------------------------------------------------------------
(* Reading a report *)

\* The row of a result a batch belongs to: date_bin, or the batch itself.
KeyOf(mode, t) == IF mode = "raw" THEN t ELSE (t \div Width) * Width

\* applyQueryFilters.
Matching(q, chosen) ==
    {r \in rows : r[1] \in chosen /\ r[2] >= q.range[1] /\ r[2] < q.range[2]}

Keys(q) == {KeyOf(q.mode, r[2]) : r \in Matching(q, TagsOf(q.columns))}

Descending(keys) == SetToSortSeq(keys, >)

Page(q, keys) ==
    LET from == (q.page - 1) * PerPage + 1
    IN SubSeq(Descending(keys), from, Min({from + PerPage - 1, Cardinality(keys)}))

\* queryRaw reads all columns in one statement, queryAggregate the columns of
\* one function in each.
Groups(q) ==
    IF q.mode = "raw" THEN {TagsOf(q.columns)}
    ELSE {{q.columns[i][1] : i \in {j \in DOMAIN q.columns : q.columns[j][2] = f}} :
            f \in {q.columns[j][2] : j \in DOMAIN q.columns}}

\* repository.Find reads the row, and the columns with a second statement.
Begin(all, range) ==
    /\ query.at = "none" /\ made.queries < MaxQueries /\ report.exists
    /\ made' = [made EXCEPT !.queries = @ + 1]
    /\ query' = [NoQuery EXCEPT !.at = "columns", !.all = all, !.range = range,
                                !.mode = report.mode, !.began = now]
    /\ UNCHANGED <<tableVars, save>>

\* prepareQuery: a report without columns is refused, and so is an aggregate
\* whose columns were saved for raw values in between.
FindColumns ==
    /\ query.at = "columns"
    /\ query' = IF columns = <<>> \/ (query.mode = "aggregate" /\ report.mode = "raw")
                THEN NoQuery
                ELSE [query EXCEPT !.at = "count", !.columns = columns]
    /\ UNCHANGED <<tableVars, save, made>>

\* The number of pages.
Count ==
    /\ query.at = "count"
    /\ query' = [query EXCEPT !.at = "keys",
                   !.pages = (Cardinality(Keys(query)) + PerPage - 1) \div PerPage]
    /\ UNCHANGED <<tableVars, save, made>>

ReadKeys ==
    /\ query.at = "keys"
    /\ LET keys == Page(query, Keys(query)) IN
         query' = [query EXCEPT !.at = "rows", !.keys = keys,
                     !.groups = IF keys = <<>> THEN {} ELSE Groups(query),
                     !.cells = [i \in DOMAIN keys |-> {}]]
    /\ UNCHANGED <<tableVars, save, made>>

ReadRows(group) ==
    /\ query.at = "rows" /\ group \in query.groups
    /\ query' = [query EXCEPT !.groups = @ \ {group},
         !.cells = [i \in DOMAIN query.keys |-> @[i] \cup
           {r \in Matching(query, group) : KeyOf(query.mode, r[2]) = query.keys[i]}]]
    /\ UNCHANGED <<tableVars, save, made>>

\* ExportCSV writes the rows of the page and goes on, or ends.
NextPage ==
    /\ query.at = "rows" /\ query.groups = {}
    /\ LET out  == query.out \o [i \in DOMAIN query.keys |->
                     [key |-> query.keys[i], cells |-> query.cells[i]]]
           last == ~query.all \/ query.page >= query.pages \/ query.keys = <<>>
       IN query' = [query EXCEPT !.at = IF last THEN "page" ELSE "count",
                      !.page = @ + 1, !.out = out, !.keys = <<>>, !.cells = <<>>,
                      !.kept = IF last THEN Keys(query) ELSE {}]
    /\ UNCHANGED <<tableVars, save, made>>

Answered ==
    /\ query.at = "page"
    /\ query' = NoQuery
    /\ UNCHANGED <<tableVars, save, made>>

ReportsNext ==
    \/ WriteBatch \/ Retain
    \/ (\E chosen \in SUBSET tags \ {{}} : UpdateLogger(chosen))
    \/ (\E t \in tags : DeleteTag(t))
    \/ (\E mode \in {"raw", "aggregate"}, layout \in Layouts : Save(mode, layout))
    \/ Commit \/ DeleteReport
    \/ (\E all \in BOOLEAN, range \in Ranges : Begin(all, range))
    \/ FindColumns \/ Count \/ ReadKeys
    \/ (\E group \in query.groups : ReadRows(group))
    \/ NextPage \/ Answered

ReportsSpec == ReportsInit /\ [][ReportsNext]_reportsVars

-----------------------------------------------------------------------------
(* Properties *)

Exported == query.at = "page" /\ query.all
OutKeys  == {query.out[i].key : i \in DOMAIN query.out}

\* An export that no batch was written under has its rows newest first and once,
\* and every row that was there all along, although retention removes batches
\* between its pages (the oldest go, and a page is counted from the newest). The
\* deletion of a tag may take rows that were exported away; each of them makes the
\* next page miss at most one older row that stays. Without retention and deletion
\* every cell is made from all its batches (ExportCSV over queryRaw and
\* queryAggregate).
Missed    == query.kept \ OutKeys
TakenAway == OutKeys \ query.kept
ExportExact ==
    Exported /\ now = query.began =>
      /\ \A k \in Missed : Cardinality({m \in Missed : m >= k})
                             <= Cardinality({g \in TakenAway : g > k})
      /\ \A i, j \in DOMAIN query.out : i < j => query.out[i].key > query.out[j].key
      /\ ~query.lost => \A i \in DOMAIN query.out :
           query.out[i].cells = {r \in Matching(query, TagsOf(query.columns)) :
                                   KeyOf(query.mode, r[2]) = query.out[i].key}

\* Stronger, and it does not hold: every row that was there all along appears. A tag
\* is deleted under the export whose rows were all that a newer batch had, and the
\* offset of the next page skips a row that stays.
ExportMissesNothing == Exported /\ now = query.began => Missed = {}
=============================================================================
