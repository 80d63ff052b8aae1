-------------------------------- MODULE HistoryRecord --------------------------------
(***************************************************************************)
(* What a finished call leaves in the history, as pure functions:          *)
(* buildRecord and buildHttpRecord of src/features/history/record.ts turn  *)
(* the finish of a call into an outcome, fit_budget of                     *)
(* crates/handshaker-core/src/history/file_store.rs trims the outcome to   *)
(* the size bounds, and CallRecord::summary of history/mod.rs reads from   *)
(* it the row the log keeps.                                               *)
(*                                                                         *)
(* A JSON text is its size, in units of which a row's is at most           *)
(* MaxSize; a status code, a fault and the other texts a record copies are *)
(* members of small sets.  The request is copied as authored and is in     *)
(* Drafts; the headers and previews are copied and left out.               *)
(***************************************************************************)
EXTENDS Integers, Sequences
LOCAL INSTANCE SequencesExt

CONSTANTS MAX_MESSAGE_ROWS,    \* stream rows a record keeps
          INLINE_JSON_BUDGET,  \* bytes of JSON a record keeps inline
          MaxSize,             \* bound: bytes of one JSON text
          MaxRecordedRows      \* bound: rows of a finished stream

ASSUME RecordAssumption ==
    /\ MAX_MESSAGE_ROWS \in Nat /\ INLINE_JSON_BUDGET \in Nat
    /\ MaxSize \in Nat /\ MaxRecordedRows \in Nat

NoText == -1
Texts == {NoText} \cup 0 .. MaxSize
Codes == {"ok", "unavailable"}
Faults == {"connect"}
StreamKinds == {"server", "client", "bidi"}

------------------------------------------------------------------------------------
\* How a call ends in the webview (CallFinish, HttpCallFinish).  A row of a stream entry is
\* its index and its JSON, NoText for one core did not keep inline.  A terminal entry takes no
\* later event, so it holds an end, a fault, or neither (it was cancelled or let go).
Ends == {"none"} \cup Codes
EntryFaults == {"none"} \cup Faults

Row(n, text) == [index |-> n, json |-> text]
RowsOf(texts) == [n \in DOMAIN texts |-> Row(n, texts[n])]

UnaryFinishes == [type : {"unary"}, code : Codes, text : Texts]
FaultFinishes == [type : {"unary_fault", "http_fault"}, fault : Faults]
                   \cup [type : {"stream_refused"}, kind : StreamKinds, fault : Faults]
StreamFinishes ==
    {finish \in [type : {"stream"}, kind : StreamKinds, end : Ends, fault : EntryFaults,
                 messages : {RowsOf(texts) : texts \in BoundedSeq(Texts, MaxRecordedRows)}] :
        finish.end = "none" \/ finish.fault = "none"}
HttpFinishes == [type : {"response"}, code : Codes, body : {"json", "text", "binary"}, text : 0 .. MaxSize]

\* terminationOf: the end the server sent counts before a fault, and neither is a cancel.
TerminationOf(finish) ==
    IF finish.end # "none" THEN [type |-> "status", code |-> finish.end]
    ELSE IF finish.fault # "none" THEN [type |-> "fault", fault |-> finish.fault]
    ELSE [type |-> "cancelled"]

\* outcomeOf, and the outcome of buildHttpRecord.
OutcomeOf(finish) ==
    CASE finish.type = "unary" ->
           [type |-> "unary", code |-> finish.code,
            response |-> [kind |-> IF finish.text = NoText THEN "absent" ELSE "inline",
                          size |-> finish.text]]
      [] finish.type = "stream" ->
           [type |-> "stream", kind |-> finish.kind, messages |-> finish.messages,
            omitted |-> 0, end |-> TerminationOf(finish)]
      [] finish.type = "response" ->
           [type |-> "response", code |-> finish.code,
            response |-> [kind |-> finish.body, size |-> finish.text]]
      [] OTHER -> finish

------------------------------------------------------------------------------------
\* fit_http, and the unary arm of fit_grpc: a text over the budget goes, its size stays.
FitBody(outcome) ==
    IF outcome.response.kind \in {"inline", "json", "text"} /\ outcome.response.size > INLINE_JSON_BUDGET
    THEN [outcome EXCEPT !.response.kind = "omitted"]
    ELSE outcome

\* The bytes of JSON a sequence of rows holds inline.
Inline(messages) ==
    FoldLeft(LAMBDA sum, row : sum + (IF row.json = NoText THEN 0 ELSE row.json), 0, messages)

\* Mutant: the newest texts go first.
BugDropTexts(messages) == Reverse(
    FoldLeft(LAMBDA acc, row : IF acc.inline <= INLINE_JSON_BUDGET \/ row.json = NoText
                               THEN [acc EXCEPT !.rows = Append(@, row)]
                               ELSE [inline |-> acc.inline - row.json,
                                     rows |-> Append(acc.rows, [row EXCEPT !.json = NoText])],
             [inline |-> Inline(messages), rows |-> << >>], Reverse(messages)).rows)

\* The second loop of fit_grpc: texts go from the oldest row on until the rest is in budget.
DropTexts(messages) ==
    FoldLeft(LAMBDA acc, row : IF acc.inline <= INLINE_JSON_BUDGET \/ row.json = NoText
                               THEN [acc EXCEPT !.rows = Append(@, row)]
                               ELSE [inline |-> acc.inline - row.json,
                                     rows |-> Append(acc.rows, [row EXCEPT !.json = NoText])],
             [inline |-> Inline(messages), rows |-> << >>], messages).rows

\* The stream arm of fit_grpc: the newest rows stay, the others are counted.
FitStream(outcome) ==
    LET length == Len(outcome.messages)
        excess == IF length > MAX_MESSAGE_ROWS THEN length - MAX_MESSAGE_ROWS ELSE 0
    IN  [outcome EXCEPT !.messages = DropTexts(SubSeq(@, excess + 1, length)),
                        !.omitted = @ + excess]

FitBudget(outcome) ==
    CASE outcome.type \in {"unary", "response"} -> FitBody(outcome)
      [] outcome.type = "stream" -> FitStream(outcome)
      [] OTHER -> outcome

------------------------------------------------------------------------------------
\* CallOutcome::kind.
KindOf(outcome) ==
    IF outcome.type \in {"stream", "stream_refused"} THEN outcome.kind
    ELSE IF outcome.type \in {"unary", "unary_fault"} THEN "unary" ELSE "http"

\* CallOutcome::ending and HttpOutcome::ending.
EndingOf(outcome) ==
    IF outcome.type = "stream" THEN outcome.end
    ELSE IF outcome.type \in {"unary", "response"} THEN [type |-> "status", code |-> outcome.code]
    ELSE [type |-> "fault", fault |-> outcome.fault]

\* CallRecord::summary: the row of the log.
SummaryOf(outcome) == [kind |-> KindOf(outcome), ending |-> EndingOf(outcome)]

\* What append keeps of a call that ended.
RecordOf(finish) == FitBudget(OutcomeOf(finish))

------------------------------------------------------------------------------------
\* A stream's record: the newest rows in their order, the count of those before them, and
\* texts only from some row on, the first from which the budget holds them all.
StreamIsFit(finish) ==
    LET kept == RecordOf(finish).messages
        omitted == RecordOf(finish).omitted
        all == finish.messages
    IN  /\ omitted + Len(kept) = Len(all)
        /\ Len(kept) = MAX_MESSAGE_ROWS \/ omitted = 0
        /\ \A n \in DOMAIN kept : kept[n].index = all[omitted + n].index
        /\ Inline(kept) <= INLINE_JSON_BUDGET
        /\ \A n \in DOMAIN kept :
             LET rest == SubSeq(all, omitted + n, Len(all))
             IN  kept[n].json = IF Inline(rest) <= INLINE_JSON_BUDGET THEN all[omitted + n].json ELSE NoText

\* A unary or HTTP body is kept whole or not at all.
BodyIsFit(finish) ==
    LET was == OutcomeOf(finish).response
        is == RecordOf(finish).response
        over == was.kind \in {"inline", "json", "text"} /\ was.size > INLINE_JSON_BUDGET
    IN  is = [kind |-> IF over THEN "omitted" ELSE was.kind, size |-> was.size]

\* The row in the log tells how the call ended as the webview showed it, trimmed or not, and a
\* record written again (a body reloaded and appended) is trimmed no further.
SummaryIsTrue(finish) ==
    /\ FitBudget(RecordOf(finish)) = RecordOf(finish)
    /\ SummaryOf(RecordOf(finish)) = SummaryOf(OutcomeOf(finish))
    /\ finish.type = "stream" =>
         EndingOf(RecordOf(finish)).type = (IF finish.end # "none" THEN "status"
                                            ELSE IF finish.fault # "none" THEN "fault" ELSE "cancelled")

\* For every way a call can end, with texts and rows below, at and above each bound.
RecordsAreFit ==
    /\ \A finish \in StreamFinishes : StreamIsFit(finish) /\ SummaryIsTrue(finish)
    /\ \A finish \in UnaryFinishes \cup HttpFinishes : BodyIsFit(finish) /\ SummaryIsTrue(finish)
    /\ \A finish \in FaultFinishes : SummaryIsTrue(finish)
====
