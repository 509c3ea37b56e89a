------------------------------- MODULE Reports -------------------------------
(***************************************************************************)
(* Answers made of several queries: the statistics and analytics of        *)
(* notifications and the pages of the list of recipients.  The queries of  *)
(* one answer run side by side (Promise.all), each sees the records of     *)
(* another moment, and clients and workers change them in between.  (The   *)
(* list of notifications counts first and finds afterwards: a special case *)
(* of a page.)                                                             *)
(*                                                                         *)
(* Records are numbered in the order of their createdAt.  A rate is in     *)
(* tenths of a percent, as the code rounds it.                             *)
(***************************************************************************)
EXTENDS Integers, FiniteSets, FiniteSetsExt

CONSTANTS MaxRecords,   \* records ever created
          Channels,     \* channels
          Recipients,   \* recipients a report may be asked for
          ChannelOf,    \* ChannelOf[k]: channel of record k
          OwnerOf,      \* OwnerOf[k]: its recipient
          Recent,       \* records of the last 24 hours
          Limit,        \* records per page
          Anybody,      \* the report is asked for without recipientId
          Budget        \* how often each event may happen

Events == {"ask",     \* a client asks for a report
           "change",  \* a worker or the API saves a record
           "delete",  \* a client deletes a record
           "db"}      \* one query of an answer fails

Records == 1..MaxRecords

ASSUME ParametersAssumption == /\ MaxRecords \in Nat
                               /\ IsFiniteSet(Channels)
                               /\ ChannelOf \in [Records -> Channels]
                               /\ DOMAIN OwnerOf = Records
                               /\ Recent \subseteq Records
                               /\ Limit \in Nat \ {0}
                               /\ Anybody \notin Recipients
                               /\ Budget \in [Events -> Nat]

MaxAttempts == 2
Statuses  == {"pending", "queued", "processing", "sent", "failed"}
Documents == [status : Statuses, attempts : 0..MaxAttempts, timed : BOOLEAN]

\* The queries behind each answer.
QueriesOf == [stats     |-> {"status", "latency", "retry", "total"},
              analytics |-> {"hours", "channels", "success"},
              page      |-> {"find", "count"}]
Kinds == DOMAIN QueriesOf

VARIABLES created,   \* records created so far
          store,     \* store[k]: the records that exist, by number
          asked,     \* the kind of the answer being prepared, or "none"
          owner,     \* the recipient it is asked for, or Anybody
          open,      \* its queries that have not been evaluated yet
          got,       \* got[q]: the result of query q
          page,      \* the page a client walking the list has come to
          listed,    \* listed[k]: how often the pages so far showed k
          from,      \* history: records that were there when a walk began
          moved,     \* history: what happened meanwhile
          spent      \* spent[e]: how often event e happened

recordVars == <<created, store>>
answerVars == <<asked, owner, open, got, page, listed, from>>
vars == <<recordVars, answerVars, moved, spent>>

Spend(e) == /\ spent[e] < Budget[e]
            /\ spent' = [spent EXCEPT ![e] = @ + 1]

-----------------------------------------------------------------------------
(* What the database computes. *)

Existing == DOMAIN store

\* The base filter: all records, or those of one recipient.
Matching == IF owner = Anybody THEN Existing
            ELSE {k \in Existing : OwnerOf[k] = owner}

Sent(S)   == {k \in S : store[k].status = "sent"}
OnChannel(S, c) == {k \in S : ChannelOf[k] = c}

StatusCounts(S) ==
  [st \in Statuses |-> Cardinality({k \in S : store[k].status = st})]

\* Faulty variant: any record with a latency counts.
LatencyKnownOfAny(S) == \E k \in S : store[k].timed

\* There is an average: some record that is sent has a latency.
LatencyKnown(S) == \E k \in Sent(S) : store[k].timed

\* Faulty variant: attempts are counted instead of records.
RetriedAttempts(S) ==
  [total |-> Cardinality(S), retried |-> MapThenSumSet(LAMBDA k : store[k].attempts, S)]

Retried(S) == [total   |-> Cardinality(S),
               retried |-> Cardinality({k \in S : store[k].attempts > 1})]

ChannelCounts(S) == [c \in Channels |-> Cardinality(OnChannel(S, c))]

ChannelSuccess(S) == [c \in Channels |->
                        [total |-> Cardinality(OnChannel(S, c)),
                         sent  |-> Cardinality(Sent(OnChannel(S, c)))]]

\* Faulty variant: pages counted from 0.
SkipFromZero == page * Limit

Skip == (page - 1) * Limit

\* The newest record has position 1 (sort by createdAt, descending).
Position(k) == Cardinality({j \in Existing : j >= k})
OnPage == {k \in Existing : Position(k) \in (Skip + 1)..(Skip + Limit)}

Evaluate(q) == CASE q = "status"   -> StatusCounts(Matching)
                 [] q = "latency"  -> LatencyKnown(Matching)
                 [] q = "retry"    -> Retried(Matching)
                 [] q = "total"    -> Cardinality(Matching)
                 [] q = "hours"    -> Cardinality(Matching \intersect Recent)
                 [] q = "channels" -> ChannelCounts(Matching)
                 [] q = "success"  -> ChannelSuccess(Matching)
                 [] q = "find"     -> OnPage
                 [] q = "count"    -> Cardinality(Existing)

-----------------------------------------------------------------------------
(* The answers. *)

Answered(kind) == asked = kind /\ open = {}

\* Math.round(rate * 10) / 10, rounding halves up; no records, no rate.
Rate(part, whole) == IF whole > 0 THEN (2000 * part + whole) \div (2 * whole)
                                  ELSE 0

DeliveryRate   == Rate(got.status["sent"], got.total)
SuccessRate(c) == Rate(got.success[c].sent, got.success[c].total)

RetryRate == Rate(got.retry.retried, got.retry.total)

TotalPages == (got.count + Limit - 1) \div Limit

-----------------------------------------------------------------------------
(* Clients and workers change records. *)

Keep(k, doc) == [j \in Existing \union {k} |-> IF j = k THEN doc ELSE store[j]]

\* What happens while an answer is prepared, or a list is being walked.
Moves(what) == moved' = IF open # {} \/ asked = "page" THEN moved \union what
                                                       ELSE moved

\* A page whose records are still to be found was counted already.
Create == LET k == created + 1
          IN  /\ created < MaxRecords
              /\ created' = k
              /\ store' = Keep(k, [status |-> "pending", attempts |-> 0,
                                   timed |-> FALSE])
              /\ Moves({"created"} \union
                         (IF asked = "page" /\ open = {"find"}
                          THEN {"createdAfterCount"} ELSE {}))
              /\ UNCHANGED <<answerVars, spent>>

Change(k, doc) == /\ Spend("change")
                  /\ store' = Keep(k, doc)
                  /\ Moves({"changed"})
                  /\ UNCHANGED <<created, answerVars>>

\* The API or a worker saves "queued", maybe over something later.
SaveQueued(k) == /\ store[k].status # "queued"
                 /\ Change(k, [store[k] EXCEPT !.status = "queued"])

\* Faulty variant: an attempt after the last one is begun too.
SaveProcessingBeyond(k) ==
  Change(k, [store[k] EXCEPT !.status = "processing", !.attempts = @ + 1])

\* A handler begins an attempt; there is none after the last (handleFailure).
SaveProcessing(k) == /\ store[k].attempts < MaxAttempts
                     /\ Change(k, [store[k] EXCEPT !.status = "processing",
                                                   !.attempts = @ + 1])

\* Only a handler that has saved its attempt gets here; it writes over whatever
\* another one has saved meanwhile.
SaveSent(k) == /\ store[k].attempts > 0
               /\ Change(k, [store[k] EXCEPT !.status = "sent", !.timed = TRUE])

\* So do the API, when it could not queue, and a worker that gives up.
SaveFailed(k) == Change(k, [store[k] EXCEPT !.status = "failed"])

Delete(k) == /\ Spend("delete")
             /\ store' = [j \in Existing \ {k} |-> store[j]]
             /\ Moves({"deleted"})
             /\ UNCHANGED <<created, answerVars>>

-----------------------------------------------------------------------------
(* A client asks for a report. *)

NoResults == [status   |-> [st \in Statuses |-> 0],
              latency  |-> FALSE,
              retry    |-> [total |-> 0, retried |-> 0],
              total    |-> 0,
              hours    |-> 0,
              channels |-> [c \in Channels |-> 0],
              success  |-> [c \in Channels |-> [total |-> 0, sent |-> 0]],
              find     |-> {},
              count    |-> 0]

Ask(kind, o) == /\ open = {}
                /\ kind = "page" => o = Anybody
                /\ Spend("ask")
                /\ asked' = kind
                /\ owner' = o
                /\ open' = QueriesOf[kind]
                /\ got' = NoResults
                /\ page' = 1
                /\ listed' = [k \in Records |-> 0]
                /\ from' = IF kind = "page" THEN Existing ELSE {}
                /\ moved' = {}
                /\ UNCHANGED recordVars

Query(q) == /\ q \in open
            /\ open' = open \ {q}
            /\ got' = [got EXCEPT ![q] = Evaluate(q)]
            /\ listed' = IF q = "find"
                         THEN [k \in Records |-> IF k \in OnPage
                                                 THEN listed[k] + 1 ELSE listed[k]]
                         ELSE listed
            /\ UNCHANGED <<recordVars, asked, owner, page, from, moved, spent>>

\* One query rejects, and with it Promise.all: the answer is 500, and what the
\* other queries have found is forgotten.
QueryFails == /\ open # {}
              /\ Spend("db")
              /\ asked' = "none"
              /\ owner' = Anybody
              /\ open' = {}
              /\ got' = NoResults
              /\ page' = 1
              /\ listed' = [k \in Records |-> 0]
              /\ from' = {}
              /\ moved' = {}
              /\ UNCHANGED recordVars

HasNext == page < TotalPages

NextPage == /\ Answered("page")
            /\ HasNext
            /\ page' = page + 1
            /\ open' = QueriesOf["page"]
            /\ UNCHANGED <<recordVars, asked, owner, got, listed, from, moved,
                           spent>>

-----------------------------------------------------------------------------
(* The system. *)

Init == /\ created = 0
        /\ store = <<>>
        /\ asked = "none"
        /\ owner = Anybody
        /\ open = {}
        /\ got = NoResults
        /\ page = 1
        /\ listed = [k \in Records |-> 0]
        /\ from = {}
        /\ moved = {}
        /\ spent = [e \in Events |-> 0]

ChangeStep == \/ Create
              \/ \E k \in Existing : \/ SaveQueued(k) \/ SaveProcessing(k)
                                     \/ SaveSent(k) \/ SaveFailed(k) \/ Delete(k)

ReportStep == \/ \E kind \in Kinds, o \in Recipients \union {Anybody} :
                   Ask(kind, o)
              \/ \E q \in open : Query(q)
              \/ QueryFails \/ NextPage

Next == ChangeStep \/ ReportStep

Safe == Init /\ [][Next]_vars

-----------------------------------------------------------------------------
(* Properties. *)

\* Every variable has its type: a walk ends at the last page of a list, which
\* no later creation pushes beyond the records there can be (totalPages).
TypeOK == /\ created \in 0..MaxRecords
          /\ Existing \subseteq 1..created
          /\ \A k \in Existing : store[k] \in Documents
          /\ asked \in Kinds \union {"none"}
          /\ owner \in Recipients \union {Anybody}
          /\ open \subseteq UNION {QueriesOf[kind] : kind \in Kinds}
          /\ page \in 1..(MaxRecords + 1)
          /\ listed \in [Records -> Nat]
          /\ from \subseteq Records
          /\ spent \in [Events -> Nat]

Unless(events) == moved \intersect events = {}

\* Retry and success rates never exceed 100 %, whatever is created, saved or
\* deleted between the queries: each comes from one aggregation that counts
\* the part and the whole.  The delivery rate divides the results of two
\* queries: it exceeds 100 % only if records were created or deleted between
\* them, never by what workers save (getStats, getAnalytics).
RatesWithinRange ==
  /\ Answered("stats") =>
       /\ RetryRate \in 0..1000
       /\ Unless({"created", "deleted"}) => DeliveryRate \in 0..1000
  /\ Answered("analytics") => \A c \in Channels : SuccessRate(c) \in 0..1000

\* The sum of the counts of all channels.
Summed(counts) == Cardinality(UNION {{c} \X (1..counts[c]) : c \in Channels})

\* While no record is created or deleted the figures of one answer agree, and
\* while none is saved either there is an average delivery time exactly if
\* something was delivered.
FiguresAgree ==
  Unless({"created", "deleted"}) =>
    /\ Answered("stats") =>
         /\ got.total = got.retry.total
         /\ got.status["sent"] + got.status["queued"] + got.status["failed"]
              + got.status["processing"] + got.status["pending"] = got.total
         /\ Unless({"changed"}) => (got.latency <=> got.status["sent"] > 0)
    /\ Answered("analytics") =>
         /\ \A c \in Channels : got.channels[c] = got.success[c].total
         /\ got.hours <= Summed(got.channels)

WalkEnded == Answered("page") /\ ~HasNext

\* Who walks a list to its last page has seen every record that was there when
\* the walk began and was not deleted: a creation only moves records to later
\* pages.  The exceptions are a deletion, which moves records to pages already
\* read, and a creation between the count and the find of one page, after
\* which the last record is on a page the count does not know of.  A record
\* is shown twice only if some record was created (list, listRecipients).
WalkShowsEachOnce ==
  /\ WalkEnded /\ Unless({"deleted", "createdAfterCount"})
       => \A k \in from : listed[k] > 0
  /\ asked = "page" /\ Unless({"created"}) => \A k \in Records : listed[k] <= 1
=============================================================================
