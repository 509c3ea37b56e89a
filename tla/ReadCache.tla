----------------------------- MODULE ReadCache -----------------------------
(***************************************************************************)
(* Reading notifications through the Redis cache all API replicas share:   *)
(* GET one, GET list and DELETE, while workers change the records.         *)
(*                                                                         *)
(* A record is its version: 0 before it is created and after it is         *)
(* deleted, counting its saves in between.  A step of a handler runs from  *)
(* one await to the next.  Redis may drop an entry at any moment from its  *)
(* writing on; that it does so in the end is what its TTL is for.          *)
(***************************************************************************)
EXTENDS Integers, FiniteSets

CONSTANTS Ids,          \* notifications
          ChannelFilters,   \* channels a list may be asked for, or "any"
          RecipientFilters, \* recipients a list may be asked for, or "any"
          ChannelOf,    \* the channel of a notification
          RecipientOf,  \* the recipient of a notification
          Readers,      \* concurrent GET requests
          Nothing,      \* no entry, no answer
          MaxVersion,   \* bound on the saves of a record
          Budget        \* how often each kind of call may fail

Events == {"redis",  \* a call of Redis fails
           "db"}     \* a call of the database fails

ASSUME CacheAssumption == /\ IsFiniteSet(Ids)
                          /\ DOMAIN ChannelOf = Ids
                          /\ DOMAIN RecipientOf = Ids
                          /\ MaxVersion \in Nat \ {0}
                          /\ Budget \in [Events -> Nat]

\* What a request asks for: one notification, or the list, perhaps narrowed
\* to a channel and to a recipient.
Queries == [kind : {"one"}, of : Ids, recipient : {"any"}]
             \union [kind : {"list"}, of : ChannelFilters,
                     recipient : RecipientFilters]

Keys == [kind : {"one"}, of : Ids]
          \union [kind : {"list"}, of : ChannelFilters]

OneKey(id) == [kind |-> "one", of |-> id]

\* A body holds the records shown and the total count shown with them.
Bodies == [items : SUBSET [id : Ids, version : 1..MaxVersion],
           total : 0..Cardinality(Ids)]

\* What may be cached under k: one notification's entry shows just that one.
BodiesOf(k) ==
  IF k.kind = "list" THEN Bodies
  ELSE {[items |-> {[id |-> k.of, version |-> v]}, total |-> 0] : v \in 1..MaxVersion}

ReaderStates == {"idle", "lookup", "count", "load", "fill"}

VARIABLES store,     \* store[id]: the version in MongoDB
          deleted,   \* ids that were deleted, which never come back
          removal,   \* removal[id]: where the DELETE handler of id stands
          cache,     \* cache[k]: the entry in Redis
          pc,        \* pc[r]: the step request r is about to take
          query,     \* query[r]: what request r asks for
          body,      \* body[r]: what it has loaded so far
          answer,    \* answer[r]: the last answer 200 to r, with its query
          raced,     \* history: ids a GET had loaded and not yet cached when
                     \* the DELETE invalidated the entry, or could not
          spent      \* spent[e]: how often event e happened

readerVars == <<pc, query, body, answer>>
storeVars  == <<store, deleted, removal, raced>>
vars == <<storeVars, cache, readerVars, spent>>

Spend(e) == /\ spent[e] < Budget[e]
            /\ spent' = [spent EXCEPT ![e] = @ + 1]

EmptyBody == [items |-> {}, total |-> 0]

-----------------------------------------------------------------------------
(* Records come, change and go.  Workers never touch the cache. *)

Create(id) == /\ store[id] = 0
              /\ id \notin deleted
              /\ store' = [store EXCEPT ![id] = 1]
              /\ UNCHANGED <<deleted, removal, raced, cache, readerVars, spent>>

WorkerSaves(id) == /\ store[id] \in 1..(MaxVersion - 1)
                   /\ store' = [store EXCEPT ![id] = @ + 1]
                   /\ UNCHANGED <<deleted, removal, raced, cache, readerVars,
                                  spent>>

\* deleteNotification: the record first, then its entry.
Delete(id) == /\ store[id] > 0
              /\ removal[id] = "none"
              /\ store' = [store EXCEPT ![id] = 0]
              /\ deleted' = deleted \union {id}
              /\ removal' = [removal EXCEPT ![id] = "invalidate"]
              /\ UNCHANGED <<raced, cache, readerVars, spent>>

\* Some GET has loaded the record and is about to cache it.
AboutToFill(id) == \E r \in Readers : /\ pc[r] = "fill"
                                      /\ query[r].kind = "one"
                                      /\ query[r].of = id

\* Faulty variant: removes the entry of the list and not of the notification.
InvalidateList(id) ==
  /\ removal[id] = "invalidate"
  /\ removal' = [removal EXCEPT ![id] = "answered"]
  /\ cache' = [k \in Keys |-> IF k.kind = "list" THEN Nothing ELSE cache[k]]
  /\ raced' = IF AboutToFill(id) THEN raced \union {id} ELSE raced
  /\ UNCHANGED <<store, deleted, readerVars, spent>>

Invalidate(id) ==
  /\ removal[id] = "invalidate"
  /\ removal' = [removal EXCEPT ![id] = "answered"]
  /\ cache' = [cache EXCEPT ![OneKey(id)] = Nothing]
  /\ raced' = IF AboutToFill(id) THEN raced \union {id} ELSE raced
  /\ UNCHANGED <<store, deleted, readerVars, spent>>

\* The error is logged and the DELETE is answered all the same.
InvalidateFails(id) == /\ removal[id] = "invalidate"
                       /\ Spend("redis")
                       /\ removal' = [removal EXCEPT ![id] = "answered"]
                       /\ raced' = raced \union {id}
                       /\ UNCHANGED <<store, deleted, cache, readerVars>>

\* The replica dies with the record deleted and its entry still there.  (One
\* that dies inside a GET leaves nothing behind: it is a GET nobody reads.)
CrashInDelete(id) == /\ removal[id] = "invalidate"
                     /\ removal' = [removal EXCEPT ![id] = "crashed"]
                     /\ UNCHANGED <<store, deleted, raced, cache, readerVars,
                                    spent>>

-----------------------------------------------------------------------------
(* GET /api/notifications/:id and GET /api/notifications. *)

\* Faulty variant: the list key leaves the channel out.
KeyOfAll(q) == IF q.kind = "one" THEN OneKey(q.of)
               ELSE [kind |-> "list", of |-> CHOOSE c \in ChannelFilters : TRUE]

\* buildNotificationKey and buildListKey: the recipient is not part of it.
KeyOf(q) == [kind |-> q.kind, of |-> q.of]

\* The records the database filter of a query selects.
Selected(q) == {id \in Ids :
                  /\ store[id] > 0
                  /\ q.kind = "one" => id = q.of
                  /\ q.kind = "list" => /\ q.of \in {"any", ChannelOf[id]}
                                        /\ q.recipient \in {"any", RecipientOf[id]}}

Ask(r, q) == /\ pc[r] = "idle"
             /\ pc' = [pc EXCEPT ![r] = "lookup"]
             /\ query' = [query EXCEPT ![r] = q]
             /\ answer' = [answer EXCEPT ![r] = Nothing]
             /\ UNCHANGED <<storeVars, cache, body, spent>>

\* Ends a request; an answer other than 200 shows no records.
Respond(r, shown) == /\ pc' = [pc EXCEPT ![r] = "idle"]
                     /\ answer' = [answer EXCEPT ![r] = shown]
                     /\ body' = [body EXCEPT ![r] = EmptyBody]
                     /\ UNCHANGED query

Continue(r, step, loaded) == /\ pc' = [pc EXCEPT ![r] = step]
                             /\ body' = [body EXCEPT ![r] = loaded]
                             /\ UNCHANGED <<query, answer>>

AfterMiss(r) == Continue(r, IF query[r].kind = "one" THEN "load" ELSE "count",
                         EmptyBody)

Lookup(r) ==
  /\ pc[r] = "lookup"
  /\ LET entry == cache[KeyOf(query[r])]
     IN  IF entry = Nothing THEN AfterMiss(r) ELSE Respond(r, entry)
  /\ UNCHANGED <<storeVars, cache, spent>>

\* A read of Redis that fails counts as a miss.
LookupFails(r) == /\ pc[r] = "lookup"
                  /\ Spend("redis")
                  /\ AfterMiss(r)
                  /\ UNCHANGED <<storeVars, cache>>

Count(r) == /\ pc[r] = "count"
            /\ Continue(r, "load", [items |-> {},
                                    total |-> Cardinality(Selected(query[r]))])
            /\ UNCHANGED <<storeVars, cache, spent>>

Found(r) == {[id |-> id, version |-> store[id]] : id \in Selected(query[r])}

\* Faulty variant: goes on to cache a notification that was not found.
LoadAnything(r) ==
  /\ pc[r] = "load"
  /\ Continue(r, "fill", [body[r] EXCEPT !.items = Found(r)])
  /\ UNCHANGED <<storeVars, cache, spent>>

\* A notification that is not there is answered 404 and not cached.
Load(r) ==
  /\ pc[r] = "load"
  /\ IF query[r].kind = "one" /\ Found(r) = {}
     THEN Respond(r, Nothing)
     ELSE Continue(r, "fill", [body[r] EXCEPT !.items = Found(r)])
  /\ UNCHANGED <<storeVars, cache, spent>>

\* The database call throws: 500.
LoadThrows(r) == /\ pc[r] \in {"count", "load"}
                 /\ Spend("db")
                 /\ Respond(r, Nothing)
                 /\ UNCHANGED <<storeVars, cache>>

Fill(r) == /\ pc[r] = "fill"
           /\ cache' = [cache EXCEPT ![KeyOf(query[r])] = body[r]]
           /\ Respond(r, body[r])
           /\ UNCHANGED <<storeVars, spent>>

FillFails(r) == /\ pc[r] = "fill"
                /\ Spend("redis")
                /\ Respond(r, body[r])
                /\ UNCHANGED <<storeVars, cache>>

\* Faulty variant: an entry written without EX stays.
ExpireLists(k) == /\ k.kind = "list"
                  /\ cache[k] # Nothing
                  /\ cache' = [cache EXCEPT ![k] = Nothing]
                  /\ UNCHANGED <<storeVars, readerVars, spent>>

\* The TTL of an entry runs out.
Expire(k) == /\ cache[k] # Nothing
             /\ cache' = [cache EXCEPT ![k] = Nothing]
             /\ UNCHANGED <<storeVars, readerVars, spent>>

-----------------------------------------------------------------------------
Init == /\ store = [id \in Ids |-> 0]
        /\ deleted = {}
        /\ removal = [id \in Ids |-> "none"]
        /\ cache = [k \in Keys |-> Nothing]
        /\ pc = [r \in Readers |-> "idle"]
        /\ query = [r \in Readers |-> Nothing]
        /\ body = [r \in Readers |-> EmptyBody]
        /\ answer = [r \in Readers |-> Nothing]
        /\ raced = {}
        /\ spent = [e \in Events |-> 0]

ReaderStep(r) == \/ Lookup(r) \/ LookupFails(r) \/ Count(r) \/ Load(r)
                 \/ LoadThrows(r) \/ Fill(r) \/ FillFails(r)

RemovalStep(id) == Invalidate(id) \/ InvalidateFails(id)

Next == \/ \E id \in Ids : \/ Create(id) \/ WorkerSaves(id) \/ Delete(id)
                           \/ RemovalStep(id) \/ CrashInDelete(id)
        \/ \E r \in Readers : (\E q \in Queries : Ask(r, q)) \/ ReaderStep(r)
        \/ \E k \in Keys : Expire(k)

Safe == Init /\ [][Next]_vars

\* Requests that were asked go on, and every entry has a TTL.
Spec == /\ Safe
        /\ \A r \in Readers : WF_vars(ReaderStep(r))
        /\ \A id \in Ids : WF_vars(RemovalStep(id))
        /\ \A k \in Keys : WF_vars(Expire(k))

-----------------------------------------------------------------------------
(* Properties. *)

\* Every variable has its type; the entry of one notification always shows
\* that notification, never an empty body (getNotification's 404).
TypeOK == /\ store \in [Ids -> 0..MaxVersion]
          /\ deleted \subseteq Ids
          /\ removal \in [Ids -> {"none", "invalidate", "answered", "crashed"}]
          /\ DOMAIN cache = Keys
          /\ \A k \in Keys : cache[k] \in BodiesOf(k) \union {Nothing}
          /\ pc \in [Readers -> ReaderStates]
          /\ query \in [Readers -> Queries \union {Nothing}]
          /\ body \in [Readers -> Bodies]
          /\ answer \in [Readers -> Bodies \union {Nothing}]
          /\ raced \subseteq Ids
          /\ spent \in [Events -> Nat]

\* Once a DELETE is answered no entry of the notification is left, unless a
\* GET had loaded it and not yet cached it or Redis failed at that moment
\* (deleteNotification: first the record, then the entry).
InvalidationHolds ==
  \A id \in Ids : removal[id] = "answered" /\ id \notin raced
                    => cache[OneKey(id)] = Nothing

\* Whoever filled the entry it came from, an answer shows what was asked for:
\* the very notification, or only notifications of the channel
\* (buildNotificationKey and buildListKey).
AnswersMatchQuery ==
  \A r \in Readers : answer[r] # Nothing =>
    LET q == query[r]
        shown == {item.id : item \in answer[r].items}
    IN  IF q.kind = "one" THEN shown = {q.of}
        ELSE \A id \in shown : q.of \in {"any", ChannelOf[id]}

\* The notifications an entry shows.
Shown(k) == IF cache[k] = Nothing THEN {} ELSE {i.id : i \in cache[k].items}

\* A deleted notification disappears from every entry for good in the end,
\* races with DELETE, failures of Redis and a replica that dies in between
\* included: that is what the TTLs are for.
DeletedFades ==
  \A id \in Ids : id \in deleted ~> [](\A k \in Keys : id \notin Shown(k))

-----------------------------------------------------------------------------
(* What the documentation says and the code does not do. *)

\* README.md:235: the list is filterable by recipientId.
ListsMatchRecipient ==
  \A r \in Readers : answer[r] # Nothing /\ query[r].kind = "list" =>
    \A item \in answer[r].items :
      query[r].recipient \in {"any", RecipientOf[item.id]}
=============================================================================
