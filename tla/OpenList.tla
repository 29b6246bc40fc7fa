-------------------------------- MODULE OpenList --------------------------------
(***************************************************************************)
(* Open_List, the list of recent captures, and the SQLite file behind it.  *)
(*                                                                         *)
(* Several copies of the program may run, each with a connection of its    *)
(* own to the one database file of the user.  A statement commits on its   *)
(* own (nothing opens a transaction) and may fail at any time: the file    *)
(* did not open, or another copy holds its lock.  A failure is logged and, *)
(* in the first half of add_db, not even returned on; one that comes while *)
(* rows are read is not noticed.  No query asks for an order of the rows,  *)
(* so lists are sets here.                                                 *)
(***************************************************************************)

CONSTANTS
    Copies,   \* the copies of the program that a user may run at once
    Paths,    \* the capture files the user opens
    NoPath

ASSUME PathAssumption == NoPath \notin Paths

VARIABLES
    table,    \* the file holds the table open_list
    db,       \* the rows of that table
    pc,       \* where a copy is: down, idle, or before its next statement
    opened,   \* db_lite.open() succeeded
    vec,      \* the list a copy shows
    adding    \* the path add_db was called with

vars == <<table, db, pc, opened, vec, adding>>

TypeOK ==
    /\ table \in BOOLEAN
    /\ db \subseteq Paths
    /\ pc \in [Copies -> {"down", "create", "init", "idle", "insert", "select"}]
    /\ opened \in [Copies -> BOOLEAN]
    /\ vec \in [Copies -> SUBSET Paths]
    /\ adding \in [Copies -> Paths \cup {NoPath}]

\* The file is new: the first start of the first copy is still to come.
Init ==
    /\ table = FALSE /\ db = {}
    /\ pc = [c \in Copies |-> "down"]
    /\ opened = [c \in Copies |-> FALSE]
    /\ vec = [c \in Copies |-> {}]
    /\ adding = [c \in Copies |-> NoPath]

Step(c, from, to) == pc[c] = from /\ pc' = [pc EXCEPT ![c] = to]

-----------------------------------------------------------------------------
\* The constructor opens the file; it goes on whether or not that works.
create_db_lite(c) ==
    /\ Step(c, "down", "create")
    /\ \E ok \in BOOLEAN : opened' = [opened EXCEPT ![c] = ok]
    /\ UNCHANGED <<table, db, vec, adding>>

\* CREATE TABLE: it fails when there is a table, or for any other reason.
create_db_table(c) ==
    /\ Step(c, "create", "init")
    /\ \/ opened[c] /\ ~table /\ table' = TRUE
       \/ UNCHANGED table
    /\ UNCHANGED <<db, opened, vec, adding>>

\* Mutant: what was read before the INSERT is shown with the new path behind it.
Bug_ShownLocally(c) ==
    \/ /\ opened[c] /\ table
       /\ \E read \in SUBSET db :
            vec' = [vec EXCEPT ![c] = IF adding[c] = NoPath THEN read ELSE @ \cup {adding[c]}]
    \/ UNCHANGED vec

\* SELECT and update_vec: a statement that fails leaves the list as it is; but
\* query.next() ends on an error as it does behind the last row, and what was
\* read until then replaces the list.
Select(c) ==
    \/ opened[c] /\ table /\ \E read \in SUBSET db : vec' = [vec EXCEPT ![c] = read]
    \/ UNCHANGED vec

init_vec(c) ==
    /\ Step(c, "init", "idle")
    /\ Select(c)
    /\ UNCHANGED <<table, db, opened, adding>>

\* The open dialog was accepted with path p.
add_db(c, p) ==
    /\ Step(c, "idle", "insert")
    /\ adding' = [adding EXCEPT ![c] = p]
    /\ UNCHANGED <<table, db, opened, vec>>

\* INSERT: path is the primary key, so a path that is there already fails too.
Insert(c) ==
    /\ Step(c, "insert", "select")
    /\ \/ opened[c] /\ table /\ adding[c] \notin db /\ db' = db \cup {adding[c]}
       \/ UNCHANGED db
    /\ UNCHANGED <<table, opened, vec, adding>>

Refresh(c) ==
    /\ Step(c, "select", "idle")
    /\ Select(c)
    /\ adding' = [adding EXCEPT ![c] = NoPath]
    /\ UNCHANGED <<table, db, opened>>

\* The copy is closed, or killed wherever it is; what it committed stays.
Exit(c) ==
    /\ pc[c] # "down" /\ pc' = [pc EXCEPT ![c] = "down"]
    /\ opened' = [opened EXCEPT ![c] = FALSE]
    /\ vec' = [vec EXCEPT ![c] = {}]
    /\ adding' = [adding EXCEPT ![c] = NoPath]
    /\ UNCHANGED <<table, db>>

CopyStep(c) ==
    \/ create_db_lite(c) \/ create_db_table(c) \/ init_vec(c)
    \/ Insert(c) \/ Refresh(c) \/ Exit(c)
    \/ \E p \in Paths : add_db(c, p)

Next == \E c \in Copies : CopyStep(c)

Spec == Init /\ [][Next]_vars
-----------------------------------------------------------------------------
\* Whatever fails, in whichever half of add_db and however much of an answer is
\* read, and whatever other copies do, a path that is shown is stored: it is
\* there after a restart.
ShownIsStored == \A c \in Copies : vec[c] \subseteq db
=============================================================================
