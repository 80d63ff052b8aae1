------------------------------ MODULE Outbound ------------------------------
(***************************************************************************)
(* What a prepared request carries, as pure functions: the headers of HTTP *)
(* (prepare and with_auth of crates/handshaker-core/src/http/request.rs)   *)
(* and the metadata of gRPC (prepare of send.rs, inject_ascii_metadata of  *)
(* grpc/transport/tonic_impl.rs), from the rows the user wrote and the     *)
(* credential TokenRetry fetched for the attempt.                          *)
(*                                                                         *)
(* A name is a word in some spelling: HTTP and the wire of gRPC do not     *)
(* tell the spellings apart.  A text says whose it is (0: a row's) and     *)
(* whether it has a built-in in it, still literal or already generated.    *)
(***************************************************************************)
EXTENDS Integers, Sequences
LOCAL INSTANCE SequencesExt

CONSTANTS MaxRows,  \* bound: the rows of a request
          MaxDay    \* bound: days after 1970-01-01

Words == {"authorization", "content-type", "other"}
Spellings == [word : Words, upper : BOOLEAN]
Header(name, text) == [name |-> name, value |-> text]
Text(whose, form) == [whose |-> whose, form |-> form]

UserRows == [name : Spellings, value : {Text(0, "plain"), Text(0, "builtin")}, enabled : BOOLEAN]
Bodies == {"none", "json"}

\* A credential, first and fresh.  What a token or a variable of the system says is no template.
NoCredential == Header([word |-> "none", upper |-> FALSE], Text(0, "plain"))
Credentials(n) == [name : Spellings, value : {Text(n, "builtin")}]

\* eq_ignore_ascii_case.
Same(name, other) == name.word = other.word

\* expand_builtins: one pass, over text the user wrote.
Expanded(text) == IF text.form = "builtin" THEN [text EXCEPT !.form = "generated"] ELSE text

\* civil_from_days, which $isoTimestamp writes the date with: 400-year eras from 0000-03-01.
CivilFromDays(day) ==
  LET z == day + 719468
      era == z \div 146097
      doe == z - era * 146097
      yoe == (doe - doe \div 1460 + doe \div 36524 - doe \div 146096) \div 365
      doy == doe - (365 * yoe + yoe \div 4 - yoe \div 100)
      mp == (5 * doy + 2) \div 153
      d == doy - (153 * mp + 2) \div 5 + 1
      m == IF mp < 10 THEN mp + 3 ELSE mp - 9
      y == yoe + era * 400
  IN  <<IF m <= 2 THEN y + 1 ELSE y, m, d>>

-----------------------------------------------------------------------------
(* HTTP. *)

\* The rows that are sent, values expanded, names as they are.
RowHeaders(rows) ==
  LET sent == SelectSeq(rows, LAMBDA row : row.enabled)
  IN  [i \in DOMAIN sent |-> Header(sent[i].name, Expanded(sent[i].value))]

Has(headers, name) == \E i \in DOMAIN headers : Same(headers[i].name, name)

\* implied_content_type, only when the user set none.
ContentType == [word |-> "content-type", upper |-> FALSE]
Implied(headers, body) ==
  IF body = "none" \/ Has(headers, ContentType) THEN << >> ELSE <<Header(ContentType, Text(0, "implied"))>>

\* Mutant: a header spelled differently stays beside the credential.
BugWithAuth(headers, cred) ==
  IF cred = NoCredential THEN headers
  ELSE Append(SelectSeq(headers, LAMBDA h : h.name # cred.name), cred)

\* with_auth: the credential replaces every header of its name.
WithAuth(headers, cred) ==
  IF cred = NoCredential THEN headers
  ELSE Append(SelectSeq(headers, LAMBDA h : ~Same(h.name, cred.name)), cred)

\* http::request::prepare, after settle and the parse of the URL.
HttpHeaders(rows, body, cred) == WithAuth(RowHeaders(rows) \o Implied(RowHeaders(rows), body), cred)

-----------------------------------------------------------------------------
(* gRPC. *)

\* The map of a request: the last enabled row of a key, exactly as it is spelled.
Metadata(rows) ==
  LET sent == RowHeaders(rows)
  IN  [name \in {sent[i].name : i \in DOMAIN sent} |->
         Last(SelectSeq(sent, LAMBDA h : h.name = name)).value]

\* HashMap::insert of the credential, before activate and again for the retry.
Insert(metadata, cred) ==
  IF cred = NoCredential THEN metadata
  ELSE [name \in DOMAIN metadata \cup {cred.name} |-> IF name = cred.name THEN cred.value ELSE metadata[name]]

\* inject_ascii_metadata: the keys are lower-cased in the order of a hash map, so of two
\* spellings either may be the one that goes on the wire.
Wires(metadata) ==
  LET words == {name.word : name \in DOMAIN metadata}
  IN  {wire \in [words -> {metadata[name] : name \in DOMAIN metadata}] :
         \A word \in words : \E name \in DOMAIN metadata : name.word = word /\ wire[word] = metadata[name]}

-----------------------------------------------------------------------------
\* Exactly one header carries the credential, as it was issued; the rows of other names go as
\* the user wrote them, in order; a content type is implied only where there is none; and the
\* retry differs in the credential alone.
HttpIsSigned(rows, body, cred, fresh) ==
  LET sent == HttpHeaders(rows, body, cred)
      mine == SelectSeq(RowHeaders(rows), LAMBDA h : ~Same(h.name, cred.name))
      implied == body # "none" /\ ~Same(cred.name, ContentType)
                   /\ \A row \in ToSet(rows) : row.enabled => ~Same(row.name, ContentType)
      signature == IF cred = NoCredential THEN << >> ELSE <<cred>>
  IN  /\ sent = mine \o (IF implied THEN <<Header(ContentType, Text(0, "implied"))>> ELSE << >>) \o signature
      /\ cred # NoCredential => WithAuth(sent, fresh) = Append(Front(sent), fresh)

\* The wire carries every name the request has; a name in one spelling has the value of its
\* last enabled row, and the credential's, in one spelling, what was fetched last.
GrpcIsSigned(rows, cred, fresh) ==
  LET enabled == {row \in ToSet(rows) : row.enabled}
      names == {row.name : row \in enabled} \cup (IF cred = NoCredential THEN {} ELSE {cred.name})
      OneSpelling(name) == \A other \in names : Same(other, name) => other = name
  IN  \A wire \in Wires(Insert(Insert(Metadata(rows), cred), fresh)) :
        /\ DOMAIN wire = {name.word : name \in names}
        /\ \A name \in {n \in names : OneSpelling(n)} :
             IF name = cred.name THEN wire[name.word] = fresh.value
             ELSE \E i \in DOMAIN rows :
                    /\ rows[i].enabled /\ rows[i].name = name
                    /\ \A j \in i + 1 .. Len(rows) : ~(rows[j].enabled /\ rows[j].name = name)
                    /\ wire[name.word] = Expanded(rows[i].value)

\* For every few rows, with every credential and none.
RequestsAreSigned ==
  \A rows \in BoundedSeq(UserRows, MaxRows), cred \in Credentials(1) \cup {NoCredential} :
    LET fresh == IF cred = NoCredential THEN NoCredential ELSE [cred EXCEPT !.value.whose = 2]
    IN  /\ \A body \in Bodies : HttpIsSigned(rows, body, cred, fresh)
        /\ GrpcIsSigned(rows, cred, fresh)

\* The reference calendar: the day after a date.
Leap(y) == y % 4 = 0 /\ (y % 100 = 0 => y % 400 = 0)
MonthDays(y, m) == IF m = 2 THEN (IF Leap(y) THEN 29 ELSE 28) ELSE IF m \in {4, 6, 9, 11} THEN 30 ELSE 31
DayAfter(date) ==
  LET y == date[1] m == date[2] d == date[3]
  IN  IF d < MonthDays(y, m) THEN <<y, m, d + 1>>
      ELSE IF m < 12 THEN <<y, m + 1, 1>> ELSE <<y + 1, 1, 1>>

\* A generated timestamp has the date of its day, across every kind of year there is.
DatesAreRight ==
  /\ CivilFromDays(0) = <<1970, 1, 1>>
  /\ \A day \in 1 .. MaxDay : CivilFromDays(day) = DayAfter(CivilFromDays(day - 1))
=============================================================================
