----------------------------- MODULE CacheProofs -----------------------------
(***************************************************************************)
(* For every number of notifications, readers, filters and versions: the   *)
(* states of ReadCache are well typed, an answer shows what was asked for, *)
(* and an answered DELETE leaves no entry but for the known exceptions.    *)
(***************************************************************************)
EXTENDS ReadCache, FiniteSetTheorems, TLAPS

-----------------------------------------------------------------------------
(* The inductive invariant. *)

\* Whose DELETE was begun is gone for good.
StoreInv == /\ store \in [Ids -> 0..MaxVersion]
            /\ deleted \subseteq Ids
            /\ removal \in [Ids -> {"none", "invalidate", "answered", "crashed"}]
            /\ raced \subseteq Ids
            /\ \A id \in Ids : removal[id] # "none" => store[id] = 0 /\ id \in deleted

\* A list narrowed to a channel, asked for or cached, shows only that channel.
Matches(b, q) == q.kind = "list" =>
                   \A item \in b.items : q.of \in {"any", ChannelOf[item.id]}

CacheInv == /\ DOMAIN cache = Keys
            /\ \A k \in Keys : cache[k] \in BodiesOf(k) \union {Nothing}
            /\ \A k \in Keys : cache[k] # Nothing => Matches(cache[k], k)

\* b answers q.
Answers(b, q) == /\ q \in Queries
                 /\ b \in BodiesOf(KeyOf(q))
                 /\ Matches(b, q)

\* What a request has loaded so far fits what it asks for.
ReaderInv(r) == /\ pc[r] # "idle" => query[r] \in Queries
                /\ pc[r] = "count" => query[r].kind = "list"
                /\ pc[r] = "load" /\ query[r].kind = "one" => body[r] = EmptyBody
                /\ pc[r] = "fill" => Answers(body[r], query[r])
                /\ answer[r] # Nothing => Answers(answer[r], query[r])

ReadersInv == /\ pc \in [Readers -> ReaderStates]
              /\ query \in [Readers -> Queries \union {Nothing}]
              /\ body \in [Readers -> Bodies]
              /\ answer \in [Readers -> Bodies \union {Nothing}]
              /\ \A r \in Readers : ReaderInv(r)

\* After an answered DELETE there is neither an entry nor a GET about to write
\* one.
RemovalInv == \A id \in Ids : removal[id] = "answered" /\ id \notin raced =>
                /\ cache[OneKey(id)] = Nothing
                /\ ~AboutToFill(id)

TypeInv == /\ StoreInv
           /\ CacheInv
           /\ ReadersInv
           /\ spent \in [Events -> Nat]

Inv == TypeInv /\ RemovalInv

-----------------------------------------------------------------------------
(* Lemmas about keys, bodies and what the database returns. *)

\* The key of a query is a key.
LEMMA KeyTyped == \A q \in Queries : KeyOf(q) \in Keys
BY DEF KeyOf, Queries, Keys

\* The two queries or keys ask for the same thing.
LEMMA MatchesKey ==
  \A q \in Queries : \A b : Matches(b, KeyOf(q)) <=> Matches(b, q)
BY DEF Matches, KeyOf

LEMMA CountTyped == Cardinality(Ids) \in Nat
BY CacheAssumption, FS_CardinalityType

\* Whatever may be cached is a body.
LEMMA BodyTyped == \A k \in Keys : BodiesOf(k) \subseteq Bodies
<1> SUFFICES ASSUME NEW k \in Keys, NEW b \in BodiesOf(k) PROVE b \in Bodies
  OBVIOUS
<1>1. CASE k.kind = "list"
  BY <1>1 DEF BodiesOf
<1>2. CASE k.kind # "list"
  <2>1. PICK v \in 1..MaxVersion :
          b = [items |-> {[id |-> k.of, version |-> v]}, total |-> 0]
    BY <1>2 DEF BodiesOf
  <2>2. k.of \in Ids
    BY <1>2 DEF Keys
  <2>3. {[id |-> k.of, version |-> v]} \in SUBSET [id : Ids, version : 1..MaxVersion]
    BY <2>1, <2>2
  <2> QED
    BY <2>1, <2>3, CountTyped DEF Bodies
<1> QED
  BY <1>1, <1>2

LEMMA EmptyTyped == EmptyBody \in Bodies
BY CountTyped DEF EmptyBody, Bodies

\* The database returns records, each as it is now.
LEMMA FoundTyped ==
  ASSUME StoreInv, NEW r \in Readers, query[r] \in Queries
  PROVE  /\ Found(r) \in SUBSET [id : Ids, version : 1..MaxVersion]
         /\ \A item \in Found(r) : item.id \in Selected(query[r])
<1>1. ASSUME NEW id \in Selected(query[r]) PROVE id \in Ids /\ store[id] \in 1..MaxVersion
  BY CacheAssumption DEF Selected, StoreInv
<1> QED
  BY <1>1 DEF Found

\* A notification that is found is the one that was asked for.
LEMMA FoundOne ==
  ASSUME StoreInv, NEW r \in Readers, query[r] \in Queries,
         query[r].kind = "one", Found(r) # {}
  PROVE  [items |-> Found(r), total |-> 0] \in BodiesOf(KeyOf(query[r]))
<1> DEFINE id == query[r].of
<1>1. \A j \in Selected(query[r]) : j = id /\ store[j] \in 1..MaxVersion
  BY CacheAssumption DEF Selected, StoreInv
<1>2. Selected(query[r]) # {}
  BY DEF Found
<1>3. Selected(query[r]) = {id} /\ store[id] \in 1..MaxVersion
  BY <1>1, <1>2
<1>4. Found(r) = {[id |-> id, version |-> store[id]]}
  BY <1>3 DEF Found
<1>5. KeyOf(query[r]).kind = "one" /\ KeyOf(query[r]).of = id
  BY DEF KeyOf
<1> QED
  BY <1>3, <1>4, <1>5 DEF BodiesOf

\* The count of a list is within the number of notifications.
LEMMA SelectedCount ==
  ASSUME NEW q PROVE Cardinality(Selected(q)) \in 0..Cardinality(Ids)
<1>1. Selected(q) \subseteq Ids
  BY DEF Selected
<1>2. IsFiniteSet(Selected(q)) /\ Cardinality(Selected(q)) <= Cardinality(Ids)
  BY <1>1, CacheAssumption, FS_Subset
<1> QED
  BY <1>2, CountTyped, FS_CardinalityType

LEMMA SpendTyped ==
  ASSUME spent \in [Events -> Nat], NEW e \in Events, Spend(e)
  PROVE  spent' \in [Events -> Nat]
BY DEF Spend

-----------------------------------------------------------------------------
(* The steps, one part of the invariant after the other. *)

\* Steps of a reader, seen from the records and the cache.
ReaderActions(r) == (\E q \in Queries : Ask(r, q)) \/ ReaderStep(r)

LEMMA StepStore == StoreInv /\ [Next]_vars => StoreInv'
<1> SUFFICES ASSUME StoreInv, [Next]_vars PROVE StoreInv'
  OBVIOUS
<1>1. ASSUME UNCHANGED storeVars PROVE StoreInv'
  BY <1>1 DEF StoreInv, storeVars
<1>2. ASSUME NEW id \in Ids, Create(id) PROVE StoreInv'
  BY <1>2, CacheAssumption DEF Create, StoreInv
<1>3. ASSUME NEW id \in Ids, WorkerSaves(id) PROVE StoreInv'
  <2>1. store[id] + 1 \in 0..MaxVersion
    BY <1>3, CacheAssumption DEF WorkerSaves
  <2> QED
    BY <1>3, <2>1, CacheAssumption DEF WorkerSaves, StoreInv
<1>4. ASSUME NEW id \in Ids, Delete(id) PROVE StoreInv'
  BY <1>4, CacheAssumption DEF Delete, StoreInv
<1>5. ASSUME NEW id \in Ids,
             Invalidate(id) \/ InvalidateFails(id) \/ CrashInDelete(id)
      PROVE  StoreInv'
  BY <1>5 DEF Invalidate, InvalidateFails, CrashInDelete, StoreInv
<1>6. ASSUME NEW r \in Readers, ReaderActions(r) PROVE StoreInv'
  BY <1>1, <1>6 DEF ReaderActions, ReaderStep, Ask, Lookup, LookupFails, Count,
                    Load, LoadThrows, Fill, FillFails
<1>7. ASSUME NEW k \in Keys, Expire(k) PROVE StoreInv'
  BY <1>1, <1>7 DEF Expire
<1>8. CASE UNCHANGED vars
  BY <1>1, <1>8 DEF vars
<1> QED
  BY <1>2, <1>3, <1>4, <1>5, <1>6, <1>7, <1>8
     DEF Next, RemovalStep, ReaderActions

LEMMA StepCache == TypeInv /\ [Next]_vars => CacheInv'
<1> SUFFICES ASSUME TypeInv, [Next]_vars PROVE CacheInv'
  OBVIOUS
<1>a. CacheInv /\ ReadersInv
  BY DEF TypeInv
<1>1. ASSUME UNCHANGED cache PROVE CacheInv'
  BY <1>a, <1>1 DEF CacheInv
<1>2. ASSUME NEW j \in Keys, cache' = [cache EXCEPT ![j] = Nothing] PROVE CacheInv'
  BY <1>a, <1>2 DEF CacheInv
<1>3. ASSUME NEW id \in Ids, Invalidate(id) PROVE CacheInv'
  <2>1. OneKey(id) \in Keys
    BY DEF OneKey, Keys
  <2> QED
    BY <1>2, <1>3, <2>1 DEF Invalidate
<1>4. ASSUME NEW r \in Readers, Fill(r) PROVE CacheInv'
  <2>1. Answers(body[r], query[r]) /\ query[r] \in Queries
    BY <1>a, <1>4 DEF Fill, ReadersInv, ReaderInv, Answers
  <2>2. /\ KeyOf(query[r]) \in Keys
        /\ body[r] \in BodiesOf(KeyOf(query[r]))
        /\ Matches(body[r], KeyOf(query[r]))
    BY <2>1, KeyTyped, MatchesKey DEF Answers
  <2>3. cache' = [cache EXCEPT ![KeyOf(query[r])] = body[r]]
    BY <1>4 DEF Fill
  <2> QED
    BY <1>a, <2>2, <2>3 DEF CacheInv
<1>5. ASSUME NEW k \in Keys, Expire(k) PROVE CacheInv'
  BY <1>2, <1>5 DEF Expire
<1>6. ASSUME NEW id \in Ids, \/ Create(id) \/ WorkerSaves(id) \/ Delete(id)
                             \/ InvalidateFails(id) \/ CrashInDelete(id)
      PROVE  CacheInv'
  BY <1>1, <1>6 DEF Create, WorkerSaves, Delete, InvalidateFails, CrashInDelete
<1>7. ASSUME NEW r \in Readers,
             \/ \E q \in Queries : Ask(r, q)
             \/ Lookup(r) \/ LookupFails(r) \/ Count(r) \/ Load(r)
             \/ LoadThrows(r) \/ FillFails(r)
      PROVE  CacheInv'
  BY <1>1, <1>7 DEF Ask, Lookup, LookupFails, Count, Load, LoadThrows, FillFails
<1>8. CASE UNCHANGED vars
  BY <1>1, <1>8 DEF vars
<1> QED
  BY <1>3, <1>4, <1>5, <1>6, <1>7, <1>8 DEF Next, RemovalStep, ReaderStep

\* A reader that is answered.
LEMMA RespondKeeps ==
  ASSUME ReadersInv, NEW r \in Readers, NEW shown \in Bodies \union {Nothing},
         shown # Nothing => Answers(shown, query[r]), Respond(r, shown)
  PROVE  ReadersInv'
<1>1. /\ pc' = [pc EXCEPT ![r] = "idle"]
      /\ answer' = [answer EXCEPT ![r] = shown]
      /\ body' = [body EXCEPT ![r] = EmptyBody]
      /\ query' = query
  BY DEF Respond
<1>2. /\ pc' \in [Readers -> ReaderStates]
      /\ query' \in [Readers -> Queries \union {Nothing}]
      /\ body' \in [Readers -> Bodies]
      /\ answer' \in [Readers -> Bodies \union {Nothing}]
  BY <1>1, EmptyTyped DEF ReadersInv, ReaderStates
<1>3. ASSUME NEW q \in Readers PROVE ReaderInv(q)'
  <2>1. CASE q = r
    <3>1. pc'[q] = "idle" /\ answer'[q] = shown /\ query'[q] = query[r]
      BY <1>1, <2>1 DEF ReadersInv
    <3>2. answer'[q] # Nothing => Answers(answer[q], query[q])'
      BY <3>1 DEF Answers, Matches
    <3> QED
      BY <3>1, <3>2 DEF ReaderInv
  <2>2. CASE q # r
    <3>1. /\ pc'[q] = pc[q] /\ answer'[q] = answer[q]
          /\ body'[q] = body[q] /\ query'[q] = query[q]
      BY <1>1, <2>2 DEF ReadersInv
    <3> QED
      BY <3>1 DEF ReadersInv, ReaderInv, Answers, Matches
  <2> QED
    BY <2>1, <2>2
<1> QED
  BY <1>2, <1>3 DEF ReadersInv

\* A reader that goes on with what it has loaded.
LEMMA ContinueKeeps ==
  ASSUME ReadersInv, NEW r \in Readers, pc[r] # "idle",
         NEW step \in {"count", "load", "fill"}, NEW loaded \in Bodies,
         step = "count" => query[r].kind = "list",
         step = "load" /\ query[r].kind = "one" => loaded = EmptyBody,
         step = "fill" => Answers(loaded, query[r]),
         Continue(r, step, loaded)
  PROVE  ReadersInv'
<1>1. /\ pc' = [pc EXCEPT ![r] = step]
      /\ body' = [body EXCEPT ![r] = loaded]
      /\ query' = query /\ answer' = answer
  BY DEF Continue
<1>2. /\ pc' \in [Readers -> ReaderStates]
      /\ query' \in [Readers -> Queries \union {Nothing}]
      /\ body' \in [Readers -> Bodies]
      /\ answer' \in [Readers -> Bodies \union {Nothing}]
  BY <1>1 DEF ReadersInv, ReaderStates
<1>3. ASSUME NEW q \in Readers PROVE ReaderInv(q)'
  <2>1. CASE q = r
    <3>1. /\ pc'[q] = step /\ body'[q] = loaded
          /\ query'[q] = query[r] /\ answer'[q] = answer[r]
      BY <1>1, <2>1 DEF ReadersInv
    <3>2. ReaderInv(r)
      BY DEF ReadersInv
    <3> QED
      BY <3>1, <3>2 DEF ReaderInv, Answers, Matches, EmptyBody
  <2>2. CASE q # r
    <3>1. /\ pc'[q] = pc[q] /\ answer'[q] = answer[q]
          /\ body'[q] = body[q] /\ query'[q] = query[q]
      BY <1>1, <2>2 DEF ReadersInv
    <3> QED
      BY <3>1 DEF ReadersInv, ReaderInv, Answers, Matches
  <2> QED
    BY <2>1, <2>2
<1> QED
  BY <1>2, <1>3 DEF ReadersInv

\* What a request loads fits what it asks for.
LEMMA LoadKeeps ==
  ASSUME TypeInv, NEW r \in Readers, Load(r)
  PROVE  ReadersInv'
<1>a. StoreInv /\ ReadersInv /\ ReaderInv(r)
  BY DEF TypeInv, ReadersInv
<1>1. pc[r] = "load" /\ query[r] \in Queries /\ body[r] \in Bodies
  BY <1>a DEF Load, ReadersInv, ReaderInv
<1>2. CASE query[r].kind = "one" /\ Found(r) = {}
  <2>1. Respond(r, Nothing)
    BY <1>2 DEF Load
  <2> QED
    BY <1>a, <2>1, RespondKeeps
<1>3. CASE ~(query[r].kind = "one" /\ Found(r) = {})
  <2> DEFINE loaded == [body[r] EXCEPT !.items = Found(r)]
  <2>1. Continue(r, "fill", loaded)
    BY <1>3 DEF Load
  <2>2. loaded.items = Found(r) /\ loaded.total = body[r].total
    BY <1>1 DEF Bodies
  <2>3. loaded \in Bodies
    BY <1>a, <1>1, FoundTyped DEF Bodies
  <2>4. Matches(loaded, query[r])
    <3>1. \A item \in Found(r) : item.id \in Selected(query[r])
      BY <1>a, <1>1, FoundTyped
    <3> QED
      BY <2>2, <3>1 DEF Matches, Selected
  <2>5. loaded \in BodiesOf(KeyOf(query[r]))
    <3>1. CASE query[r].kind = "one"
      <4>1. body[r] = EmptyBody
        BY <1>a, <1>1, <3>1 DEF ReaderInv
      <4>2. loaded = [items |-> Found(r), total |-> 0]
        BY <4>1 DEF EmptyBody
      <4> QED
        BY <1>a, <1>1, <1>3, <3>1, <4>2, FoundOne
    <3>2. CASE query[r].kind # "one"
      <4>1. KeyOf(query[r]).kind = "list"
        BY <1>1, <3>2 DEF KeyOf, Queries
      <4> QED
        BY <2>3, <4>1 DEF BodiesOf
    <3> QED
      BY <3>1, <3>2
  <2>6. Answers(loaded, query[r])
    BY <1>1, <2>4, <2>5 DEF Answers
  <2> HIDE DEF loaded
  <2> QED
    BY <1>a, <1>1, <2>1, <2>3, <2>6, ContinueKeeps
<1> QED
  BY <1>2, <1>3

LEMMA StepReaders == TypeInv /\ [Next]_vars => ReadersInv'
<1> SUFFICES ASSUME TypeInv, [Next]_vars PROVE ReadersInv'
  OBVIOUS
<1>a. StoreInv /\ CacheInv /\ ReadersInv /\ \A r \in Readers : ReaderInv(r)
  BY DEF TypeInv, ReadersInv
<1>1. ASSUME UNCHANGED readerVars PROVE ReadersInv'
  BY <1>a, <1>1 DEF ReadersInv, ReaderInv, Answers, Matches, readerVars
<1>2. ASSUME NEW r \in Readers, NEW q \in Queries, Ask(r, q) PROVE ReadersInv'
  <2>1. /\ pc' = [pc EXCEPT ![r] = "lookup"]
        /\ query' = [query EXCEPT ![r] = q]
        /\ answer' = [answer EXCEPT ![r] = Nothing]
        /\ body' = body
    BY <1>2 DEF Ask
  <2>2. /\ pc' \in [Readers -> ReaderStates]
        /\ query' \in [Readers -> Queries \union {Nothing}]
        /\ body' \in [Readers -> Bodies]
        /\ answer' \in [Readers -> Bodies \union {Nothing}]
    BY <1>a, <2>1 DEF ReadersInv, ReaderStates
  <2>3. ASSUME NEW s \in Readers PROVE ReaderInv(s)'
    <3>1. CASE s = r
      <4>1. pc'[s] = "lookup" /\ query'[s] = q /\ answer'[s] = Nothing
        BY <1>a, <2>1, <3>1 DEF ReadersInv
      <4> QED
        BY <4>1 DEF ReaderInv
    <3>2. CASE s # r
      <4>1. /\ pc'[s] = pc[s] /\ answer'[s] = answer[s]
            /\ body'[s] = body[s] /\ query'[s] = query[s]
        BY <1>a, <2>1, <3>2 DEF ReadersInv
      <4> QED
        BY <1>a, <4>1 DEF ReaderInv, Answers, Matches
    <3> QED
      BY <3>1, <3>2
  <2> QED
    BY <2>2, <2>3 DEF ReadersInv
<1>b. ASSUME NEW r \in Readers, pc[r] # "idle", AfterMiss(r) PROVE ReadersInv'
  <2>1. query[r] \in Queries
    BY <1>a, <1>b DEF ReaderInv
  <2>2. \/ query[r].kind = "one" /\ Continue(r, "load", EmptyBody)
        \/ query[r].kind = "list" /\ Continue(r, "count", EmptyBody)
    BY <1>b, <2>1 DEF AfterMiss, Queries
  <2> QED
    BY <1>a, <1>b, <2>2, EmptyTyped, ContinueKeeps
<1>3. ASSUME NEW r \in Readers, Lookup(r) PROVE ReadersInv'
  <2>1. pc[r] # "idle" /\ query[r] \in Queries
    BY <1>a, <1>3 DEF Lookup, ReaderInv
  <2> DEFINE entry == cache[KeyOf(query[r])]
  <2>2. CASE entry = Nothing
    BY <1>3, <1>b, <2>1, <2>2 DEF Lookup
  <2>3. CASE entry # Nothing
    <3>1. KeyOf(query[r]) \in Keys
      BY <2>1, KeyTyped
    <3>2. entry \in BodiesOf(KeyOf(query[r])) /\ Matches(entry, KeyOf(query[r]))
      BY <1>a, <2>3, <3>1 DEF CacheInv
    <3>3. Answers(entry, query[r]) /\ entry \in Bodies
      BY <2>1, <3>1, <3>2, MatchesKey, BodyTyped DEF Answers
    <3>4. Respond(r, entry)
      BY <1>3, <2>3 DEF Lookup
    <3> HIDE DEF entry
    <3> QED
      BY <1>a, <3>3, <3>4, RespondKeeps
  <2> QED
    BY <2>2, <2>3
<1>4. ASSUME NEW r \in Readers, LookupFails(r) PROVE ReadersInv'
  BY <1>4, <1>b DEF LookupFails
<1>5. ASSUME NEW r \in Readers, Count(r) PROVE ReadersInv'
  <2> DEFINE counted == [items |-> {}, total |-> Cardinality(Selected(query[r]))]
  <2>1. /\ pc[r] = "count" /\ query[r].kind = "list"
        /\ Continue(r, "load", counted)
    BY <1>a, <1>5 DEF Count, ReaderInv
  <2>2. counted \in Bodies
    BY SelectedCount DEF Bodies
  <2> HIDE DEF counted
  <2> QED
    BY <1>a, <2>1, <2>2, ContinueKeeps
<1>6. ASSUME NEW r \in Readers, LoadThrows(r) PROVE ReadersInv'
  BY <1>a, <1>6, RespondKeeps DEF LoadThrows
<1>7. ASSUME NEW r \in Readers, Fill(r) \/ FillFails(r) PROVE ReadersInv'
  <2>1. Respond(r, body[r]) /\ Answers(body[r], query[r]) /\ body[r] \in Bodies
    BY <1>a, <1>7 DEF Fill, FillFails, ReaderInv, ReadersInv
  <2> QED
    BY <1>a, <2>1, RespondKeeps
<1>8. ASSUME NEW id \in Ids, \/ Create(id) \/ WorkerSaves(id) \/ Delete(id)
                             \/ Invalidate(id) \/ InvalidateFails(id)
                             \/ CrashInDelete(id)
      PROVE  ReadersInv'
  BY <1>1, <1>8 DEF Create, WorkerSaves, Delete, Invalidate, InvalidateFails,
                    CrashInDelete
<1>9. ASSUME NEW k \in Keys, Expire(k) PROVE ReadersInv'
  BY <1>1, <1>9 DEF Expire
<1>10. CASE UNCHANGED vars
  BY <1>1, <1>10 DEF vars
<1> QED
  BY <1>2, <1>3, <1>4, <1>5, <1>6, <1>7, <1>8, <1>9, <1>10, LoadKeeps
     DEF Next, RemovalStep, ReaderStep

LEMMA StepSpent == TypeInv /\ [Next]_vars => spent' \in [Events -> Nat]
<1> SUFFICES ASSUME TypeInv, [Next]_vars PROVE spent' \in [Events -> Nat]
  OBVIOUS
<1>1. spent' = spent \/ \E e \in Events : Spend(e)
  BY DEF Next, RemovalStep, ReaderStep, Create, WorkerSaves, Delete, Invalidate,
         InvalidateFails, CrashInDelete, Ask, Lookup, LookupFails, Count, Load,
         LoadThrows, Fill, FillFails, Expire, vars, Events
<1> QED
  BY <1>1, SpendTyped DEF TypeInv

-----------------------------------------------------------------------------
(* No entry is left of what was deleted. *)

\* Two notifications have two keys.
LEMMA KeysDiffer ==
  ASSUME NEW id \in Ids, NEW k \in Keys, k # OneKey(id),
         NEW entry, cache' = [cache EXCEPT ![k] = entry], CacheInv
  PROVE  cache'[OneKey(id)] = cache[OneKey(id)]
BY DEF CacheInv, OneKey, Keys

\* A reader that does not get to its fill makes nobody fill.
LEMMA StillNoFill ==
  ASSUME ReadersInv, NEW r \in Readers, NEW id \in Ids, ~AboutToFill(id),
         \A s \in Readers \ {r} : pc'[s] = pc[s] /\ query'[s] = query[s],
         pc'[r] # "fill" \/ query'[r].kind # "one" \/ query'[r].of # id
  PROVE  ~AboutToFill(id)'
BY DEF AboutToFill

LEMMA StepRemoval == Inv /\ [Next]_vars => RemovalInv'
<1> SUFFICES ASSUME Inv, [Next]_vars PROVE RemovalInv'
  OBVIOUS
<1>a. /\ StoreInv /\ CacheInv /\ ReadersInv /\ RemovalInv
      /\ \A r \in Readers : ReaderInv(r)
  BY DEF Inv, TypeInv, ReadersInv
<1> DEFINE Clean(id) == cache[OneKey(id)] = Nothing /\ ~AboutToFill(id)
           Told(id)  == removal[id] = "answered" /\ id \notin raced
<1>b. ASSUME NEW id \in Ids, Told(id) PROVE Clean(id)
  BY <1>a, <1>b DEF RemovalInv
<1>1. ASSUME UNCHANGED <<removal, raced, pc, query>>,
             \A id \in Ids : cache[OneKey(id)] = Nothing
                               => cache'[OneKey(id)] = Nothing
      PROVE  RemovalInv'
  BY <1>a, <1>1 DEF RemovalInv, AboutToFill
<1>2. ASSUME NEW id \in Ids, Create(id) \/ WorkerSaves(id) PROVE RemovalInv'
  BY <1>1, <1>2 DEF Create, WorkerSaves, readerVars
<1>3. ASSUME NEW id \in Ids, Delete(id) \/ CrashInDelete(id) PROVE RemovalInv'
  <2>1. /\ UNCHANGED <<raced, cache, pc, query>>
        /\ \A j \in Ids : removal'[j] = "answered" => removal[j] = "answered"
    BY <1>a, <1>3 DEF Delete, CrashInDelete, readerVars, StoreInv
  <2> QED
    BY <1>a, <2>1 DEF RemovalInv, AboutToFill
<1>4. ASSUME NEW id \in Ids, Invalidate(id) PROVE RemovalInv'
  <2>1. /\ cache' = [cache EXCEPT ![OneKey(id)] = Nothing]
        /\ raced' = IF AboutToFill(id) THEN raced \union {id} ELSE raced
        /\ UNCHANGED <<pc, query>>
        /\ \A j \in Ids \ {id} : removal'[j] = removal[j]
        /\ OneKey(id) \in Keys
    BY <1>a, <1>4 DEF Invalidate, readerVars, StoreInv, OneKey, Keys
  <2>2. ASSUME NEW j \in Ids, removal'[j] = "answered", j \notin raced'
        PROVE  cache'[OneKey(j)] = Nothing /\ ~AboutToFill(j)'
    <3>1. CASE j = id
      BY <1>a, <2>1, <2>2, <3>1 DEF AboutToFill, CacheInv
    <3>2. CASE j # id
      <4>1. Clean(j)
        BY <1>b, <2>1, <2>2, <3>2
      <4>2. OneKey(j) # OneKey(id)
        BY <3>2 DEF OneKey
      <4> QED
        BY <1>a, <2>1, <4>1, <4>2, KeysDiffer DEF AboutToFill
    <3> QED
      BY <3>1, <3>2
  <2> QED
    BY <2>2 DEF RemovalInv
<1>5. ASSUME NEW id \in Ids, InvalidateFails(id) PROVE RemovalInv'
  <2>1. /\ raced' = raced \union {id} /\ UNCHANGED <<cache, pc, query>>
        /\ \A j \in Ids \ {id} : removal'[j] = removal[j]
    BY <1>a, <1>5 DEF InvalidateFails, readerVars, StoreInv
  <2> QED
    BY <1>a, <2>1 DEF RemovalInv, AboutToFill
<1>6. ASSUME NEW r \in Readers, UNCHANGED <<removal, raced, cache>>,
             \A s \in Readers \ {r} : pc'[s] = pc[s] /\ query'[s] = query[s],
             pc'[r] # "fill"
      PROVE  RemovalInv'
  BY <1>a, <1>6, StillNoFill DEF RemovalInv
<1>7. ASSUME NEW r \in Readers,
             \/ \E q \in Queries : Ask(r, q)
             \/ Lookup(r) \/ LookupFails(r) \/ Count(r)
             \/ LoadThrows(r) \/ FillFails(r)
      PROVE  RemovalInv'
  <2>1. UNCHANGED <<removal, raced, cache>>
    BY <1>7 DEF Ask, Lookup, LookupFails, Count, LoadThrows, FillFails, storeVars
  <2>2. /\ \A s \in Readers \ {r} : pc'[s] = pc[s] /\ query'[s] = query[s]
        /\ pc'[r] # "fill"
    BY <1>a, <1>7 DEF Ask, Lookup, LookupFails, Count, LoadThrows, FillFails,
                      AfterMiss, Respond, Continue, ReadersInv
  <2> QED
    BY <1>6, <2>1, <2>2
<1>8. ASSUME NEW r \in Readers, Load(r) PROVE RemovalInv'
  <2>1. /\ UNCHANGED <<removal, raced, cache, query>>
        /\ \A s \in Readers \ {r} : pc'[s] = pc[s]
        /\ query[r] \in Queries
    BY <1>a, <1>8 DEF Load, Respond, Continue, storeVars, ReadersInv, ReaderInv
  <2>2. ASSUME NEW id \in Ids, Told(id) PROVE Clean(id)'
    <3>1. Clean(id) /\ store[id] = 0
      BY <1>a, <1>b, <2>2 DEF StoreInv
    <3>2. CASE query[r].kind = "one" /\ query[r].of = id
      <4>1. Found(r) = {}
        BY <3>1, <3>2 DEF Found, Selected
      <4>2. pc'[r] # "fill"
        BY <1>a, <1>8, <3>2, <4>1 DEF Load, Respond, ReadersInv
      <4> QED
        BY <1>a, <2>1, <3>1, <4>2, StillNoFill
    <3>3. CASE ~(query[r].kind = "one" /\ query[r].of = id)
      BY <1>a, <2>1, <3>1, <3>3, StillNoFill
    <3> QED
      BY <3>2, <3>3
  <2> QED
    BY <2>1, <2>2 DEF RemovalInv
<1>9. ASSUME NEW r \in Readers, Fill(r) PROVE RemovalInv'
  <2>1. /\ UNCHANGED <<removal, raced, query>>
        /\ \A s \in Readers \ {r} : pc'[s] = pc[s]
        /\ pc[r] = "fill" /\ pc'[r] # "fill"
        /\ cache' = [cache EXCEPT ![KeyOf(query[r])] = body[r]]
        /\ query[r] \in Queries
    BY <1>a, <1>9 DEF Fill, Respond, storeVars, ReadersInv, ReaderInv
  <2>2. ASSUME NEW id \in Ids, Told(id) PROVE Clean(id)'
    <3>1. Clean(id)
      BY <1>b, <2>2
    <3>2. KeyOf(query[r]) # OneKey(id)
      BY <2>1, <3>1 DEF AboutToFill, KeyOf, OneKey
    <3>3. cache'[OneKey(id)] = Nothing
      BY <1>a, <2>1, <3>1, <3>2, KeyTyped, KeysDiffer
    <3> QED
      BY <1>a, <2>1, <3>1, <3>3, StillNoFill
  <2> QED
    BY <2>1, <2>2 DEF RemovalInv
<1>10. ASSUME NEW k \in Keys, Expire(k) PROVE RemovalInv'
  <2>1. /\ UNCHANGED <<removal, raced, pc, query>>
        /\ cache' = [cache EXCEPT ![k] = Nothing]
    BY <1>10 DEF Expire, storeVars, readerVars
  <2>2. \A id \in Ids : cache[OneKey(id)] = Nothing
                          => cache'[OneKey(id)] = Nothing
    BY <1>a, <2>1 DEF CacheInv, OneKey, Keys
  <2> QED
    BY <1>1, <2>1, <2>2
<1>11. CASE UNCHANGED vars
  BY <1>1, <1>11 DEF vars, storeVars, readerVars
<1> QED
  BY <1>2, <1>3, <1>4, <1>5, <1>7, <1>8, <1>9, <1>10, <1>11
     DEF Next, RemovalStep, ReaderStep

-----------------------------------------------------------------------------
(* The theorems. *)

LEMMA InitInv == Init => Inv
<1> SUFFICES ASSUME Init PROVE Inv
  OBVIOUS
<1> USE CacheAssumption DEF Init
<1>1. StoreInv
  BY DEF StoreInv
<1>2. CacheInv
  BY DEF CacheInv
<1>3. ReadersInv
  BY EmptyTyped DEF ReadersInv, ReaderInv, ReaderStates
<1>4. RemovalInv
  BY DEF RemovalInv
<1> QED
  BY <1>1, <1>2, <1>3, <1>4 DEF Inv, TypeInv

LEMMA StepInv == Inv /\ [Next]_vars => Inv'
BY StepStore, StepCache, StepReaders, StepSpent, StepRemoval DEF Inv, TypeInv

\* Every reachable state of ReadCache is well typed: the entry of a notification
\* shows just that notification (getNotification).
THEOREM CacheTyped == Safe => []TypeOK
<1>1. Inv => TypeOK
  BY DEF Inv, TypeInv, StoreInv, CacheInv, ReadersInv, TypeOK
<1> QED
  BY <1>1, InitInv, StepInv, PTL DEF Safe

\* Whoever filled the cache, an answer shows what was asked for
\* (buildNotificationKey, buildListKey).
THEOREM AnswersAreRight == Safe => []AnswersMatchQuery
<1>1. ASSUME Inv, NEW r \in Readers, answer[r] # Nothing
      PROVE  LET q == query[r]
                 shown == {item.id : item \in answer[r].items}
             IN  IF q.kind = "one" THEN shown = {q.of}
                 ELSE \A id \in shown : q.of \in {"any", ChannelOf[id]}
  <2> DEFINE q == query[r]
             b == answer[r]
  <2>1. q \in Queries /\ b \in BodiesOf(KeyOf(q)) /\ Matches(b, q)
    BY <1>1 DEF Inv, TypeInv, ReadersInv, ReaderInv, Answers
  <2>2. CASE q.kind = "one"
    <3>1. KeyOf(q).kind = "one" /\ KeyOf(q).of = q.of
      BY <2>2 DEF KeyOf
    <3>2. PICK v \in 1..MaxVersion :
            b = [items |-> {[id |-> q.of, version |-> v]}, total |-> 0]
      BY <2>1, <3>1 DEF BodiesOf
    <3>3. {item.id : item \in b.items} = {q.of}
      BY <3>2
    <3> QED
      BY <2>2, <3>3
  <2>3. CASE q.kind # "one"
    <3>1. q.kind = "list"
      BY <2>1, <2>3 DEF Queries
    <3> QED
      BY <2>1, <2>3, <3>1 DEF Matches
  <2> QED
    BY <2>2, <2>3
<1>2. Inv => AnswersMatchQuery
  BY <1>1 DEF AnswersMatchQuery
<1> QED
  BY <1>2, InitInv, StepInv, PTL DEF Safe

\* An answered DELETE leaves no entry of its notification, but for the GET that
\* had loaded it and the Redis that failed (deleteNotification).
THEOREM DeletedIsInvalidated == Safe => []InvalidationHolds
<1>1. Inv => InvalidationHolds
  BY DEF Inv, RemovalInv, InvalidationHolds
<1> QED
  BY <1>1, InitInv, StepInv, PTL DEF Safe
=============================================================================
