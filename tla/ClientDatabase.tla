---------------------------- MODULE ClientDatabase ----------------------------
(***************************************************************************)
(* DatabaseManagerSQLite of the client: a table of banned names in a file  *)
(* of the user's own.  It runs on the GUI thread only.                     *)
(***************************************************************************)
EXTENDS DisplayNames, FiniteSets

CONSTANTS
    Users,         \* the names the user of this program logs in with
    NoFile,        \* dbPath_ is empty, or no file was opened yet
    MaxFaults      \* bound on the kinds of operations that fail in one behaviour

ASSUME UsersAssumption == Users \subseteq Names /\ NoFile \notin Users

\* The calls that may return an error, told apart by who makes them.
FaultKinds == {"init", "isUserBanned", "banUser", "unbanUser", "removeUser", "refresh"}

VARIABLES
    banned_users,  \* per user, the names in the file's table
    dbPath,        \* whose file it is
    opened,        \* db_ # nullptr
    faults         \* history: the kinds of calls that failed so far

databaseVars == <<banned_users, dbPath, opened, faults>>

DatabaseTypeOK ==
    /\ banned_users \in [Users -> SUBSET Text]
    /\ dbPath \in Users \cup {NoFile}
    /\ opened \in BOOLEAN
    /\ faults \subseteq FaultKinds

DatabaseInit ==
    /\ banned_users = [u \in Users |-> {}]
    /\ dbPath = NoFile
    /\ opened = FALSE
    /\ faults = {}

isInitialized == opened

\* What getAllBannedUsers returns; isUserBanned looks a name up in it.
Banned == IF opened THEN banned_users[dbPath] ELSE {}

\* Calls of these kinds fail in this step.
Fail(kinds) ==
    /\ faults' = faults \cup kinds
    /\ Cardinality(faults') <= MaxFaults

\* init for user u; nothing to do while a file is open.
init(u, ok) ==
    /\ IF opened
         THEN ok /\ UNCHANGED <<dbPath, opened>>
         ELSE dbPath' = u /\ opened' = ok
    /\ UNCHANGED banned_users

\* A mutant: the file stays open.
resetConnection_Keeps ==
    UNCHANGED <<banned_users, opened, dbPath>>

resetConnection ==
    /\ opened' = FALSE
    /\ dbPath' = NoFile
    /\ UNCHANGED banned_users

\* INSERT OR IGNORE and DELETE, by the exact name.
dbBanUser(name) ==
    banned_users' = [banned_users EXCEPT ![dbPath] = @ \cup {name}]
dbUnbanUsers(names) ==
    banned_users' = [banned_users EXCEPT ![dbPath] = @ \ names]
===============================================================================
