-------------------------------- MODULE MCHistoryView --------------------------------
(***************************************************************************)
(* The history of a small instance: its log and the webview's page over    *)
(* it, and the records that fill it.                                       *)
(***************************************************************************)
EXTENDS HistoryView, HistoryRecord

\* A body in the log is the record of a call that ended in one of the ways there are: whichever
\* it was, the record fits the bounds of the store, lost no more than it had to, the oldest
\* first, and its row tells how the call ended (fit_budget and summary over buildRecord).
BodiesAreFit == bodies # {} => RecordsAreFit
====
