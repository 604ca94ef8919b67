------------------------------- MODULE Tables --------------------------------
(***************************************************************************)
(* The PostgreSQL database behind the repositories, as far as their        *)
(* statements go: tables of rows by id, one transaction with a working copy*)
(* of the rows, and sequences, which no rollback takes back.  A statement  *)
(* that fails throws, the exception leaves the handler and the destructor  *)
(* of its transaction aborts.  The ids and the names of columns are those  *)
(* of backend/init_aesir_main.sql and world/init_aesir_world.sql.          *)
(***************************************************************************)
EXTENDS Naturals, FiniteSets

CONSTANTS
    Null,          \* NULL, and an empty optional
    Names,         \* user names, names of players, maps and settings
    Values,        \* what a row says besides its keys
    MaxId,         \* bound: ids a table gives out
    MaxStatements  \* bound: statements that write

ASSUME TablesAssumption == Null \notin Nat /\ MaxId \in Nat /\ MaxStatements \in Nat

VARIABLES
    rows,    \* the committed rows: rows[table][id]
    work,    \* the rows as the transaction sees them
    open,    \* is there a transaction
    serial,  \* the next id of each table
    written  \* how many statements wrote

dbVars == <<rows, work, open, serial, written>>

NoRows == [i \in {} |-> Null]

InitTables(tables) ==
    /\ rows = [t \in tables |-> NoRows]
    /\ work = rows
    /\ open = FALSE
    /\ serial = [t \in tables |-> 1]
    /\ written = 0

Ids(t) == DOMAIN work[t]

CreateTransaction ==
    /\ ~open
    /\ open' = TRUE
    /\ UNCHANGED <<rows, work, serial, written>>

Commit ==
    /\ open
    /\ rows' = work
    /\ open' = FALSE
    /\ UNCHANGED <<work, serial, written>>

\* The transaction is destroyed without a commit.
Abort ==
    /\ open
    /\ work' = rows
    /\ open' = FALSE
    /\ UNCHANGED <<rows, serial, written>>

-----------------------------------------------------------------------------
Statement ==
    /\ open /\ written < MaxStatements
    /\ written' = written + 1

Write(t, table) ==
    /\ Statement
    /\ work' = [work EXCEPT ![t] = table]
    /\ UNCHANGED <<rows, open, serial>>

Throw ==
    /\ Statement
    /\ work' = rows
    /\ open' = FALSE
    /\ UNCHANGED <<rows, serial>>

\* The table with this row at id, be it there or not.
WithRow(table, id, row) ==
    [i \in DOMAIN table \cup {id} |-> IF i = id THEN row ELSE table[i]]

\* A query changes nothing.
Query == open /\ UNCHANGED dbVars

\* A mutation: the id is the number of the row, not of a sequence.
InsertAtCount(t, row, allowed) ==
    /\ Statement /\ serial[t] <= MaxId
    /\ serial' = [serial EXCEPT ![t] = @ + 1]
    /\ work' = IF allowed
               THEN [work EXCEPT ![t] = WithRow(@, Cardinality(DOMAIN @) + 1, row)] ELSE rows
    /\ open' = allowed
    /\ UNCHANGED rows

\* INSERT takes the next id whether or not a constraint lets the row in.
Insert(t, row, allowed) ==
    /\ Statement /\ serial[t] <= MaxId
    /\ serial' = [serial EXCEPT ![t] = @ + 1]
    /\ work' = IF allowed THEN [work EXCEPT ![t] = WithRow(@, serial[t], row)] ELSE rows
    /\ open' = allowed
    /\ UNCHANGED rows

\* INSERT ... ON CONFLICT DO NOTHING.
InsertUnlessTaken(t, row, taken) ==
    /\ Statement /\ serial[t] <= MaxId
    /\ serial' = [serial EXCEPT ![t] = @ + 1]
    /\ work' = IF taken THEN work ELSE [work EXCEPT ![t] = WithRow(@, serial[t], row)]
    /\ UNCHANGED <<rows, open>>

\* UPDATE ... WHERE id = id, which may be no row at all.
Update(t, id, row, allowed) ==
    IF id \in Ids(t) /\ ~allowed THEN Throw
    ELSE Write(t, [i \in Ids(t) |-> IF i = id THEN row ELSE work[t][i]])

\* A query's rows come in any order: its first row is any of them.
FirstRows(t, ids) == {work[t][i] : i \in ids}

Settings == "settings"

(* insert_or_update_setting of either server: settings have no id, their   *)
(* name is the key.                                                        *)
InsertOrUpdateSetting(name, value) ==
    Write(Settings, WithRow(work[Settings], name, value))

GetSetting(name) == IF name \in Ids(Settings) THEN work[Settings][name] ELSE Null
==============================================================================
