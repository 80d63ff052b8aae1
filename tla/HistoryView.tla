--------------------------------- MODULE HistoryView ---------------------------------
(***************************************************************************)
(* The history as the user sees it: the webview's store                    *)
(* (src/features/history/store.ts) over the log of HistoryLog, joined by   *)
(* the commands of src-tauri/src/commands/history.rs.  Commands run        *)
(* concurrently and their answers arrive in any order.  The webview lives  *)
(* and dies with the process.                                              *)
(***************************************************************************)
EXTENDS HistoryLog

CONSTANTS MaxRevision  \* bound: appends and clears the program commits in one life

VARIABLES
    view,       \* HistoryState: its phase and, once ready, the page it shows
    hydrating,  \* the first historyList: "no", "asked", "done"
    answers,    \* pages answered and not yet applied
    records,    \* the Map of records fetched for the detail pane, by call
    get         \* the historyGet on its way: its call and what has come of it

viewVars == <<view, hydrating, answers, records, get>>
allVars == <<vars, viewVars>>

NoGet == [call |-> 0, found |-> "none"]
Loading == [phase |-> "loading", revision |-> 0, rows |-> {}]
Current == [revision |-> revision, rows |-> rows]

ViewInit ==
    /\ Init
    /\ view = Loading
    /\ hydrating = "no"
    /\ answers = {}
    /\ records = {}
    /\ get = NoGet

\* The page after the step is on its way to the webview.
AnswerPage ==
    /\ answers' = answers \cup {[revision |-> revision', rows |-> rows']}
    /\ UNCHANGED <<view, hydrating, records, get>>

\* history_record up to its index, and its page.
RecordWrites ==
    /\ \/ \E c \in Calls : revision < MaxRevision /\ AppendBody(c)
       \/ AppendIndex
    /\ UNCHANGED viewVars

Recorded == AppendFinish /\ AnswerPage

\* A call recorded twice: the page as it is.
RecordedAlready ==
    /\ pc = "idle"
    /\ rows # {}
    /\ UNCHANGED vars
    /\ AnswerPage

ClearStarts ==
    /\ revision < MaxRevision
    /\ ClearDetach
    /\ UNCHANGED viewVars

Cleared == ClearFinish /\ AnswerPage

\* subscribe: the first subscriber asks for the page.
Subscribe ==
    /\ pc # "down"
    /\ hydrating = "no"
    /\ hydrating' = "asked"
    /\ UNCHANGED <<vars, view, answers, records, get>>

\* history_list waits for the writer.
Listed ==
    /\ pc = "idle"
    /\ hydrating = "asked"
    /\ hydrating' = "done"
    /\ answers' = answers \cup {Current}
    /\ UNCHANGED <<vars, view, records, get>>

ListFails ==
    /\ hydrating = "asked"
    /\ hydrating' = "done"
    /\ view' = IF view.phase = "loading" THEN [view EXCEPT !.phase = "failed"] ELSE view
    /\ UNCHANGED <<vars, answers, records, get>>

\* Mutant: pages are applied in the order they come.
BugNewer(p) == TRUE

\* apply: only a page newer than the one shown, and the records it no longer lists go.
Newer(p) == view.phase = "ready" => p.revision > view.revision

Apply(p) ==
    /\ p \in answers
    /\ answers' = answers \ {p}
    /\ IF Newer(p)
       THEN /\ view' = [phase |-> "ready", revision |-> p.revision, rows |-> p.rows]
            /\ records' = records \cap p.rows
       ELSE UNCHANGED <<view, records>>
    /\ UNCHANGED <<vars, hydrating, get>>

\* load of a call that is not cached.
Load(c) ==
    /\ pc # "down"
    /\ get = NoGet
    /\ c \notin records
    /\ get' = [call |-> c, found |-> "asked"]
    /\ UNCHANGED <<vars, view, hydrating, answers, records>>

\* history_get: nothing for a call not in the log, nor for one whose body is gone or unreadable.
Got ==
    /\ pc = "idle"
    /\ get.found = "asked"
    /\ get' = [get EXCEPT !.found = IF get.call \in rows \cap (bodies \ damaged) THEN "yes" ELSE "no"]
    /\ UNCHANGED <<vars, view, hydrating, answers, records>>

\* A page may have been applied while the record was on its way.
StillListed(c) == view.phase = "ready" => c \in view.rows

Loaded ==
    /\ get.found \in {"yes", "no"}
    /\ records' = IF get.found = "yes" /\ StillListed(get.call) THEN records \cup {get.call} ELSE records
    /\ get' = NoGet
    /\ UNCHANGED <<vars, view, hydrating, answers>>

ProcessDies ==
    /\ Crash
    /\ view' = Loading /\ hydrating' = "no" /\ answers' = {} /\ records' = {} /\ get' = NoGet

StoreStarts == (LoadRows \/ LoadIndex) /\ UNCHANGED viewVars

\* What becomes of the files between two runs.
FilesSuffer ==
    /\ \/ \E c \in Calls : DamageBody(c) \/ LoseBody(c)
       \/ LoseIndex
    /\ UNCHANGED viewVars

ViewNext ==
    \/ StoreStarts \/ FilesSuffer \/ ProcessDies
    \/ RecordWrites \/ Recorded \/ RecordedAlready \/ ClearStarts \/ Cleared
    \/ Subscribe \/ Listed \/ ListFails
    \/ \E p \in answers : Apply(p)
    \/ \E c \in Calls : Load(c)
    \/ Got \/ Loaded

ViewSpec == ViewInit /\ [][ViewNext]_allVars

------------------------------------------------------------------------------------
\* The page shown is never an older one than a page shown before, and with every answer
\* applied it is the page core holds, whatever order the answers came in.
PageIsCurrent ==
    /\ view.phase = "ready" => view.revision <= revision
    /\ pc = "idle" /\ answers = {} /\ view.phase = "ready"
         => view.revision = revision /\ view.rows = rows

\* The pages under way to the view, and the one it shows.
Shown == IF view.phase = "ready" THEN {[revision |-> view.revision, rows |-> view.rows]} ELSE {}
Pages == answers \cup Shown

\* A revision names one page, or apply would drop a page the user has not seen.
OnePagePerRevision ==
    \A p, q \in Pages \cup {Current} : p.revision = q.revision => p.rows = q.rows

\* The detail pane never keeps a record the shown page no longer lists, also when it was
\* evicted or cleared while its historyGet was on the way.
CacheIsListed == view.phase = "ready" => records \subseteq view.rows

\* What the webview shows is one page that core held, never an older one once all answers
\* are in, and the detail cache keeps to it (store.ts apply and load).
ViewIsCurrent == TypeOK /\ PageIsCurrent /\ OnePagePerRevision /\ CacheIsListed

Page == [revision : Nat, rows : SUBSET Calls]

ViewTypeOK ==
    /\ view \in [phase : {"loading", "ready", "failed"}, revision : Nat, rows : SUBSET Calls]
    /\ answers \subseteq Page

\* Whatever page the webview has or will get, core has reached it, and once there is one
\* the newest is among them: no answer with it is lost, and none is there before the store
\* is open.
NewestIsKnown ==
    /\ \A p \in Pages : p.revision <= revision
    /\ Pages # {} => \E p \in Pages : p.revision = revision
    /\ pc \in {"down", "loaded"} => Pages = {}

\* The inductive invariant of the history and its view (History_proofs).
ViewInv == IInv /\ ViewTypeOK /\ NewestIsKnown /\ OnePagePerRevision /\ CacheIsListed
====
