-------------------------- MODULE StatisticsDatabase --------------------------
(***************************************************************************)
(* observers::DatabaseEventLogger over DatabaseManagerSQLite: one row of   *)
(* totals per pseudonym.  The logger is only called by the dispatcher, so  *)
(* each read-then-write of a row is one step.  SQLite may fail any write;  *)
(* the error is logged and the event goes on.                              *)
(***************************************************************************)
EXTENDS ClientRegistry

CONSTANTS
    NoRow,         \* "no row for this pseudonym"
    MaxDbErrors    \* bound on failing writes

VARIABLES
    statistics,    \* the Statistics table
    dbErrors       \* writes that failed so far

statisticsVars == <<statistics, dbErrors>>

Row == [nb_of_connection : Nat, tx_messages : Nat, cumulated_connection_time_sec : Nat]

ASSUME NoRowAssumption == NoRow \notin Row

StatisticsTypeOK ==
    /\ statistics \in [Pseudonyms -> Row \cup {NoRow}]
    /\ dbErrors \in Nat

StatisticsInit ==
    /\ statistics = [n \in Pseudonyms |-> NoRow]
    /\ dbErrors = 0

\* A write that throws leaves the table as it was.
WriteFails ==
    /\ dbErrors < MaxDbErrors
    /\ dbErrors' = dbErrors + 1
    /\ UNCHANGED statistics

SetRow(n, row) ==
    /\ statistics' = [statistics EXCEPT ![n] = row]
    /\ UNCHANGED dbErrors

\* clientConnectionEvent: counts the connection, or inserts the first one.
clientConnectionEvent(n) ==
    \/ SetRow(n, IF statistics[n] = NoRow
                   THEN [nb_of_connection |-> 1, tx_messages |-> 0,
                         cumulated_connection_time_sec |-> 0]
                   ELSE [statistics[n] EXCEPT !.nb_of_connection = @ + 1])
    \/ WriteFails

\* The two updates skip a pseudonym that has no row.
incrementTxMessage(n) ==
    \/ SetRow(n, IF statistics[n] = NoRow
                   THEN NoRow ELSE [statistics[n] EXCEPT !.tx_messages = @ + 1])
    \/ WriteFails

updateCumulatedConnectionTime(n, seconds) ==
    \/ SetRow(n, IF statistics[n] = NoRow
                   THEN NoRow
                   ELSE [statistics[n] EXCEPT !.cumulated_connection_time_sec = @ + seconds])
    \/ WriteFails

-----------------------------------------------------------------------------
(* Observer callbacks.                                                     *)

DatabaseOnClientConnected(event) == clientConnectionEvent(event.pseudonym)

DatabaseOnClientDisconnected(event) ==
    updateCumulatedConnectionTime(event.pseudonym, InSeconds(event.connectionDuration))

DatabaseOnMessageSent(event) == incrementTxMessage(event.pseudonym)

\* A mutant: the message is counted for the recipient.
DatabaseOnPrivateMessageSent_CountsRecipient(event) ==
    incrementTxMessage(event.recipientPseudonym)

DatabaseOnPrivateMessageSent(event) == incrementTxMessage(event.senderPseudonym)
=============================================================================
