--------------------------- MODULE RegistryProofs ---------------------------
(***************************************************************************)
(* For every number of requests, spellings and records: RecipientRegistry  *)
(* is well typed, welcomes nobody twice, gives one recipient to everybody  *)
(* who registers one address, and keeps what a PATCH has written.          *)
(***************************************************************************)
EXTENDS RecipientRegistry, TLAPS

-----------------------------------------------------------------------------
(* The inductive invariant. *)

\* Records are created one after the other.
RecordsInOrder ==
  \A k \in Records : k > created => /\ email[k] = None
                                    /\ welcomes[k] = 0
                                    /\ patched[k] = {}

\* A request that has got as far as a recipient names one that was created.
RequestsInOrder ==
  \A r \in Requests :
    /\ pc[r] # "new" => address[r] \in Spellings
    /\ pc[r] \in {"welcome", "200", "201"} => found[r] \in 1..created

TypeInv == TypeOK /\ RecordsInOrder /\ RequestsInOrder

\* A record has had its welcome, or one request is about to queue it.
WelcomePending ==
  \A r \in Requests : pc[r] = "welcome" =>
    /\ welcomes[found[r]] = 0
    /\ \A s \in Requests : pc[s] = "welcome" /\ found[s] = found[r] => s = r

WelcomeInv == WelcomedOnce /\ WelcomePending

\* The unique index.
Unique == \A j, k \in Records : email[j] = email[k] /\ email[j] # None => j = k

\* Unless something is deleted a request works with the record of its address,
\* and the winner of the race it has lost is there.
FoundRight(r) ==
  /\ pc[r] \in {"welcome", "200", "201"} => email[found[r]] = Key(r)
  /\ pc[r] = "refetch" => Stored(Key(r)) # {}
  /\ Without({"db", "unsent"}) => pc[r] # "500"

FoundByAddress == Without({"delete"}) => \A r \in Requests : FoundRight(r)

\* Even so that record is of no other address.
FoundOrGone == \A r \in Requests : pc[r] \in {"welcome", "200", "201"} =>
                 email[found[r]] \in {Key(r), None}

Inv == /\ TypeInv
       /\ WelcomeInv
       /\ Unique
       /\ FoundByAddress
       /\ FoundOrGone
       /\ ProfileKeepsUpdates

-----------------------------------------------------------------------------
(* Lemmas about the parts of a step. *)

\* Nobody stores "no recipient" as an address.
LEMMA CanonicalIsEmail ==
  ASSUME NEW s \in Spellings
  PROVE  Canonical[s] \in Emails /\ Canonical[s] # None
BY RegistryAssumption DEF Emails

\* Spending keeps the type, and what has happened has happened.
LEMMA SpendTyped ==
  ASSUME spent \in [Events -> Nat], NEW e \in Events, Spend(e)
  PROVE  /\ spent' \in [Events -> Nat]
         /\ spent'[e] # 0
         /\ \A d \in Events : spent'[d] = 0 => spent[d] = 0
BY DEF Spend

\* A lookup finds records that were created, under the address it looks for.
LEMMA StoredCreated ==
  ASSUME TypeInv, NEW r \in Requests, pc[r] # "new", NEW k \in Stored(Key(r))
  PROVE  /\ k \in Records
         /\ k \in 1..created
         /\ email[k] = Key(r)
<1>1. k \in Records /\ email[k] = Key(r)
  BY DEF Stored
<1>2. Key(r) # None
  BY CanonicalIsEmail DEF Key, TypeInv, RequestsInOrder
<1>3. ~(k > created)
  BY <1>1, <1>2 DEF TypeInv, RecordsInOrder
<1>4. created \in Nat /\ k \in Nat /\ k >= 1
  BY <1>1, RegistryAssumption DEF TypeInv, TypeOK, Records
<1> QED
  BY <1>1, <1>3, <1>4

\* What an insert leaves behind.
LEMMA RecordAdded ==
  ASSUME TypeInv, NEW r \in Requests, pc[r] # "new", AddRecord(r)
  PROVE  /\ created' = created + 1
         /\ created' \in Records
         /\ created' \in 0..MaxRecords
         /\ 1..created \subseteq 1..created'
         /\ created' \in 1..created'
         /\ email' \in [Records -> Emails \union {None}]
         /\ email'[created'] = Key(r)
         /\ Key(r) # None
         /\ Stored(Key(r)) = {}
         /\ \A k \in Records \ {created'} : email'[k] = email[k]
         /\ profile' = [profile EXCEPT ![created'] = [f \in Fields |-> r]]
         /\ profile' \in [Records -> [Fields -> Requests \union {"patch", None}]]
<1>1. created \in Nat /\ created < MaxRecords /\ MaxRecords \in Nat
  BY RegistryAssumption DEF AddRecord, TypeInv, TypeOK
<1>2. created' = created + 1
  BY DEF AddRecord
<1>3. /\ created' \in Records
      /\ created' \in 0..MaxRecords
      /\ 1..created \subseteq 1..created'
      /\ created' \in 1..created'
  BY <1>1, <1>2 DEF Records
<1>4. Key(r) \in Emails /\ Key(r) # None
  BY CanonicalIsEmail DEF Key, TypeInv, RequestsInOrder
<1>5. email' = [email EXCEPT ![created'] = Key(r)] /\ Stored(Key(r)) = {}
  BY DEF AddRecord, Key
<1>6. email \in [Records -> Emails \union {None}]
  BY DEF TypeInv, TypeOK
<1>7. /\ email' \in [Records -> Emails \union {None}]
      /\ email'[created'] = Key(r)
      /\ \A k \in Records \ {created'} : email'[k] = email[k]
  BY <1>3, <1>4, <1>5, <1>6
<1>8. profile' = [profile EXCEPT ![created'] = [f \in Fields |-> r]]
  BY DEF AddRecord
<1>9. profile' \in [Records -> [Fields -> Requests \union {"patch", None}]]
  BY <1>3, <1>8 DEF TypeInv, TypeOK
<1> QED
  BY <1>2, <1>3, <1>4, <1>5, <1>7, <1>8, <1>9
-----------------------------------------------------------------------------
(* Types, and records and requests in their order. *)

RecordTypes == /\ email \in [Records -> Emails \union {None}]
               /\ profile \in [Records -> [Fields -> Requests \union {"patch", None}]]
               /\ created \in 0..MaxRecords
               /\ welcomes \in [Records -> Nat]
               /\ patched \in [Records -> SUBSET Fields]

RequestTypes == /\ pc \in [Requests -> Steps]
                /\ address \in [Requests -> Spellings \union {None}]
                /\ found \in [Requests -> 1..created \union {None}]

\* The types of the parts make up the whole.
LEMMA TypeParts ==
  TypeInv <=> /\ RecordTypes /\ RecordsInOrder
              /\ RequestTypes /\ RequestsInOrder
              /\ spent \in [Events -> Nat]
BY DEF TypeInv, TypeOK, RecordTypes, RequestTypes

\* A step that writes no record.
LEMMA SameRecords ==
  ASSUME RecordTypes, RecordsInOrder, UNCHANGED recordVars, UNCHANGED historyVars
  PROVE  RecordTypes' /\ RecordsInOrder' /\ created' = created
BY DEF RecordTypes, RecordsInOrder, recordVars, historyVars

\* A request goes on, with a record if its next step needs one.
LEMMA GotoTyped ==
  ASSUME RecordTypes, RequestTypes, RequestsInOrder, RecordTypes',
         1..created \subseteq 1..created',
         NEW r \in Requests, pc[r] # "new", NEW step \in Steps \ {"new"},
         NEW record \in 1..created' \union {None},
         step \in {"welcome", "200", "201"} => record # None,
         Goto(r, step, record)
  PROVE  RequestTypes' /\ RequestsInOrder'
<1>1. None \notin 1..created'
  BY RegistryAssumption DEF RecordTypes, Records
<1>2. /\ pc' = [pc EXCEPT ![r] = step]
      /\ found' = [found EXCEPT ![r] = record]
      /\ address' = address
  BY DEF Goto
<1>3. RequestTypes'
  BY <1>2 DEF RequestTypes
<1>4. ASSUME NEW q \in Requests
      PROVE  /\ pc'[q] # "new" => address'[q] \in Spellings
             /\ pc'[q] \in {"welcome", "200", "201"} => found'[q] \in 1..created'
  <2>1. CASE q = r
    BY <1>1, <1>2, <2>1 DEF RequestTypes, RequestsInOrder
  <2>2. CASE q # r
    <3>1. pc'[q] = pc[q] /\ found'[q] = found[q] /\ address'[q] = address[q]
      BY <1>2, <2>2 DEF RequestTypes
    <3> QED
      BY <3>1 DEF RequestsInOrder
  <2> QED
    BY <2>1, <2>2
<1> QED
  BY <1>3, <1>4 DEF RequestsInOrder

\* Requests that stay where they are.
LEMMA SameRequests ==
  ASSUME RequestTypes, RequestsInOrder, UNCHANGED <<pc, found, address, created>>
  PROVE  RequestTypes' /\ RequestsInOrder'
BY DEF RequestTypes, RequestsInOrder

\* An insert puts the new record in its place.
LEMMA AddTyped ==
  ASSUME TypeInv, NEW r \in Requests, pc[r] # "new", AddRecord(r),
         UNCHANGED historyVars
  PROVE  /\ RecordTypes' /\ RecordsInOrder'
         /\ 1..created \subseteq 1..created'
         /\ created' \in 1..created'
<1>1. RecordTypes /\ RecordsInOrder
  BY TypeParts
<1>2. /\ created' = created + 1 /\ created' \in 0..MaxRecords
      /\ 1..created \subseteq 1..created' /\ created' \in 1..created'
      /\ email' \in [Records -> Emails \union {None}]
      /\ \A k \in Records \ {created'} : email'[k] = email[k]
      /\ profile' \in [Records -> [Fields -> Requests \union {"patch", None}]]
  BY RecordAdded
<1>3. welcomes' = welcomes /\ patched' = patched
  BY DEF historyVars
<1>4. RecordTypes'
  BY <1>1, <1>2, <1>3 DEF RecordTypes
<1>5. ASSUME NEW k \in Records, k > created'
      PROVE  email'[k] = None /\ welcomes'[k] = 0 /\ patched'[k] = {}
  <2>1. k > created /\ k # created'
    BY <1>1, <1>2, <1>5, RegistryAssumption DEF RecordTypes, Records
  <2> QED
    BY <1>1, <1>2, <1>3, <2>1 DEF RecordsInOrder
<1> QED
  BY <1>2, <1>4, <1>5 DEF RecordsInOrder

LEMMA StepTypes == TypeInv /\ [Next]_vars => TypeInv'
<1> SUFFICES ASSUME TypeInv, [Next]_vars PROVE TypeInv'
  OBVIOUS
<1>a. /\ RecordTypes /\ RecordsInOrder /\ RequestTypes /\ RequestsInOrder
      /\ spent \in [Events -> Nat]
  BY TypeParts
<1>b. ASSUME NEW r \in Requests, pc[r] # "new", NEW step \in Steps \ {"new"},
             NEW record \in 1..created \union {None},
             step \in {"welcome", "200", "201"} => record # None,
             Goto(r, step, record), UNCHANGED recordVars, UNCHANGED historyVars,
             spent' \in [Events -> Nat]
      PROVE  TypeInv'
  <2>1. RecordTypes' /\ RecordsInOrder' /\ created' = created
    BY <1>a, <1>b, SameRecords
  <2>2. RequestTypes' /\ RequestsInOrder'
    BY <1>a, <1>b, <2>1, GotoTyped
  <2> QED
    BY <1>b, <2>1, <2>2 DEF TypeInv, TypeOK, RecordTypes, RequestTypes
<1>c. None \notin 1..created
  BY <1>a, RegistryAssumption DEF RecordTypes, Records
<1>1. ASSUME NEW r \in Requests, NEW s \in Spellings, Ask(r, s) PROVE TypeInv'
  <2>1. RecordTypes' /\ RecordsInOrder' /\ created' = created
    BY <1>a, <1>1, SameRecords DEF Ask
  <2>2. RequestTypes' /\ RequestsInOrder'
    BY <1>a, <1>1, <2>1 DEF Ask, RequestTypes, RequestsInOrder, Steps
  <2> QED
    BY <1>a, <1>1, <2>1, <2>2 DEF Ask, TypeInv, TypeOK, RecordTypes, RequestTypes
<1>2. ASSUME NEW r \in Requests, Find(r) \/ Refetch(r) PROVE TypeInv'
  <2>1. /\ pc[r] # "new" /\ UNCHANGED recordVars /\ UNCHANGED historyVars
        /\ spent' \in [Events -> Nat]
    BY <1>a, <1>2 DEF Find, Refetch
  <2>2. CASE Goto(r, "insert", None) \/ Goto(r, "500", None)
    BY <1>b, <2>1, <2>2 DEF Steps
  <2>3. ASSUME NEW k \in Stored(Key(r)), Goto(r, "200", k) PROVE TypeInv'
    <3>1. k \in 1..created
      BY <2>1, StoredCreated
    <3> QED
      BY <1>b, <1>c, <2>1, <2>3, <3>1 DEF Steps
  <2> QED
    BY <1>2, <2>2, <2>3 DEF Find, Refetch
<1>3. ASSUME NEW r \in Requests, Insert(r) PROVE TypeInv'
  <2>1. /\ RecordTypes' /\ RecordsInOrder'
        /\ 1..created \subseteq 1..created' /\ created' \in 1..created'
    BY <1>3, AddTyped DEF Insert
  <2>2. created' # None
    BY <2>1, RegistryAssumption DEF RecordTypes, Records
  <2>3. RequestTypes' /\ RequestsInOrder'
    BY <1>a, <1>3, <2>1, <2>2, GotoTyped DEF Insert, Steps
  <2> QED
    BY <1>a, <1>3, <2>1, <2>3 DEF Insert, TypeInv, TypeOK, RecordTypes, RequestTypes
<1>4. ASSUME NEW r \in Requests, InsertLosesRace(r) PROVE TypeInv'
  BY <1>a, <1>b, <1>4 DEF InsertLosesRace, Steps
<1>5. ASSUME NEW r \in Requests, CallThrows(r) PROVE TypeInv'
  <2>1. pc[r] # "new" /\ spent' \in [Events -> Nat] /\ UNCHANGED historyVars
    BY <1>a, <1>5, SpendTyped DEF CallThrows, Events
  <2>2. CASE UNCHANGED recordVars
    BY <1>b, <1>5, <2>1, <2>2 DEF CallThrows, Steps
  <2>3. CASE AddRecord(r)
    <3>1. RecordTypes' /\ RecordsInOrder' /\ 1..created \subseteq 1..created'
      BY <2>1, <2>3, AddTyped
    <3>2. RequestTypes' /\ RequestsInOrder'
      BY <1>a, <1>5, <2>1, <3>1, GotoTyped DEF CallThrows, Steps
    <3> QED
      BY <2>1, <3>1, <3>2 DEF TypeInv, TypeOK, RecordTypes, RequestTypes
  <2> QED
    BY <1>5, <2>2, <2>3 DEF CallThrows
<1>6. ASSUME NEW r \in Requests,
             Welcome(r) \/ WelcomeNotQueued(r) \/ WelcomeThrows(r)
      PROVE  TypeInv'
  <2>1. /\ pc[r] = "welcome"
        /\ Goto(r, "201", found[r]) \/ Goto(r, "500", found[r])
        /\ UNCHANGED recordVars /\ patched' = patched
        /\ WelcomeQueued(found[r]) \/ UNCHANGED welcomes
        /\ spent' \in [Events -> Nat]
    BY <1>a, <1>6, SpendTyped
       DEF Welcome, WelcomeNotQueued, WelcomeThrows, Events
  <2>2. found[r] \in 1..created
    BY <1>a, <2>1 DEF RequestsInOrder
  <2>3. email' = email /\ profile' = profile /\ created' = created
    BY <2>1 DEF recordVars
  <2>4. welcomes' \in [Records -> Nat]
        /\ \A k \in Records : k > created => welcomes'[k] = 0
    <3>1. CASE welcomes' = welcomes
      BY <1>a, <3>1 DEF RecordTypes, RecordsInOrder
    <3>2. CASE WelcomeQueued(found[r])
      <4>1. welcomes' = [welcomes EXCEPT ![found[r]] = @ + 1]
        BY <3>2 DEF WelcomeQueued
      <4>2. /\ found[r] \in Records
            /\ \A k \in Records : k > created => k # found[r]
        BY <1>a, <2>2, RegistryAssumption DEF RecordTypes, Records
      <4> QED
        BY <1>a, <4>1, <4>2 DEF RecordTypes, RecordsInOrder
    <3> QED
      BY <2>1, <3>1, <3>2
  <2>5. RecordTypes' /\ RecordsInOrder'
    BY <1>a, <2>1, <2>3, <2>4 DEF RecordTypes, RecordsInOrder
  <2>6. RequestTypes' /\ RequestsInOrder'
    BY <1>a, <1>c, <2>1, <2>2, <2>3, <2>5, GotoTyped DEF Steps
  <2> QED
    BY <2>1, <2>5, <2>6 DEF TypeInv, TypeOK, RecordTypes, RequestTypes
<1>7. ASSUME NEW r \in Requests, Crash(r) PROVE TypeInv'
  <2>1. /\ pc[r] # "new" /\ Goto(r, "crashed", None)
        /\ UNCHANGED recordVars /\ UNCHANGED historyVars
        /\ spent' \in [Events -> Nat]
    BY <1>a, <1>7, SpendTyped DEF Crash, Events
  <2> QED
    BY <1>b, <2>1 DEF Steps
<1>8. ASSUME NEW k \in Records, Delete(k) PROVE TypeInv'
  <2>1. /\ email' = [email EXCEPT ![k] = None]
        /\ profile' = [profile EXCEPT ![k] = NoProfile]
        /\ UNCHANGED <<created, welcomes, patched, pc, found, address>>
        /\ spent' \in [Events -> Nat]
    BY <1>a, <1>8, SpendTyped DEF Delete, historyVars, Events
  <2>2. RecordTypes' /\ RecordsInOrder'
    BY <1>a, <2>1 DEF RecordTypes, RecordsInOrder, NoProfile
  <2>3. RequestTypes' /\ RequestsInOrder'
    BY <1>a, <2>1, SameRequests
  <2> QED
    BY <2>1, <2>2, <2>3 DEF TypeInv, TypeOK, RecordTypes, RequestTypes
<1>9. ASSUME NEW k \in Records, NEW fields \in SUBSET Fields, Write(k, fields)
       PROVE  TypeInv'
  <2>1. /\ profile' = [profile EXCEPT ![k] = [f \in Fields |->
                          IF f \in fields THEN "patch" ELSE @[f]]]
        /\ patched' = [patched EXCEPT ![k] = @ \union fields]
        /\ email[k] # None
        /\ UNCHANGED <<email, created, welcomes, pc, found, address>>
        /\ spent' \in [Events -> Nat]
    BY <1>a, <1>9, SpendTyped DEF Write, Events
  <2>2. ~(k > created)
    BY <1>a, <2>1 DEF RecordsInOrder
  <2>3. RecordTypes'
    BY <1>a, <2>1 DEF RecordTypes
  <2>4. RecordsInOrder'
    BY <1>a, <2>1, <2>2 DEF RecordTypes, RecordsInOrder
  <2>5. RequestTypes' /\ RequestsInOrder'
    BY <1>a, <2>1, SameRequests
  <2> QED
    BY <2>1, <2>3, <2>4, <2>5 DEF TypeInv, TypeOK, RecordTypes, RequestTypes
<1>10. ASSUME NEW k \in Records, UpdateRecipient(k) \/ UpdatePushToken(k)
       PROVE  TypeInv'
  BY <1>9, <1>10 DEF UpdateRecipient, UpdatePushToken, Fields, Updatable
<1>11. CASE UNCHANGED vars
  <2>1. UNCHANGED <<recordVars, historyVars, pc, found, address, created, spent>>
    BY <1>11 DEF vars, recordVars
  <2>2. RecordTypes' /\ RecordsInOrder' /\ RequestTypes' /\ RequestsInOrder'
    BY <1>a, <2>1, SameRecords, SameRequests
  <2> QED
    BY <1>a, <2>1, <2>2 DEF TypeInv, TypeOK, RecordTypes, RequestTypes
<1> QED
  BY <1>1, <1>2, <1>3, <1>4, <1>5, <1>6, <1>7, <1>8, <1>10, <1>11
     DEF Next, RequestStep

-----------------------------------------------------------------------------
(* Nobody is welcomed twice. *)

\* A request that goes on to something else than the welcome, while nobody is
\* welcomed.
LEMMA GotoKeepsWelcome ==
  ASSUME RequestTypes, WelcomeInv, NEW r \in Requests,
         NEW step \in Steps \ {"welcome"}, NEW record,
         Goto(r, step, record), UNCHANGED welcomes
  PROVE  WelcomeInv'
<1>1. ASSUME NEW q \in Requests, pc'[q] = "welcome"
      PROVE  pc[q] = "welcome" /\ found'[q] = found[q]
  BY <1>1 DEF Goto, RequestTypes
<1> QED
  BY <1>1 DEF WelcomeInv, WelcomedOnce, WelcomePending

LEMMA StepWelcome == TypeInv /\ WelcomeInv /\ [Next]_vars => WelcomeInv'
<1> SUFFICES ASSUME TypeInv, WelcomeInv, [Next]_vars PROVE WelcomeInv'
  OBVIOUS
<1>a. /\ RecordTypes /\ RecordsInOrder /\ RequestTypes /\ RequestsInOrder
      /\ created \in Nat /\ None \notin 1..created /\ 1..created \subseteq Records
  BY TypeParts, RegistryAssumption DEF RecordTypes, Records
<1>1. ASSUME NEW r \in Requests, NEW s \in Spellings, Ask(r, s) PROVE WelcomeInv'
  <2>1. \A q \in Requests : pc'[q] = "welcome" =>
          pc[q] = "welcome" /\ found'[q] = found[q]
    BY <1>a, <1>1 DEF Ask, RequestTypes
  <2>2. welcomes' = welcomes
    BY <1>1 DEF Ask, historyVars
  <2> QED
    BY <2>1, <2>2 DEF WelcomeInv, WelcomedOnce, WelcomePending
<1>2. ASSUME NEW r \in Requests,
             \/ Find(r) \/ InsertLosesRace(r) \/ Refetch(r) \/ CallThrows(r)
             \/ Crash(r)
      PROVE  WelcomeInv'
  <2>1. /\ welcomes' = welcomes
        /\ \E step \in {"insert", "200", "refetch", "500", "crashed"} :
             \E record : Goto(r, step, record)
    BY <1>2 DEF Find, InsertLosesRace, Refetch, CallThrows, Crash, historyVars
  <2> QED
    BY <1>a, <2>1, GotoKeepsWelcome DEF Steps
<1>3. ASSUME NEW r \in Requests, Insert(r) PROVE WelcomeInv'
  <2>1. /\ created' = created + 1 /\ created' \in Records
        /\ welcomes' = welcomes
        /\ pc' = [pc EXCEPT ![r] = "welcome"]
        /\ found' = [found EXCEPT ![r] = created']
    BY <1>3, RecordAdded DEF Insert, Goto, historyVars
  <2>2. welcomes[created'] = 0
    BY <1>a, <2>1 DEF RecordsInOrder
  <2>3. ASSUME NEW q \in Requests, pc'[q] = "welcome", q # r
        PROVE  pc[q] = "welcome" /\ found'[q] = found[q] /\ found[q] # created'
    <3>1. pc[q] = "welcome" /\ found'[q] = found[q]
      BY <1>a, <2>1, <2>3 DEF RequestTypes
    <3>2. found[q] \in 1..created
      BY <1>a, <3>1 DEF RequestsInOrder
    <3> QED
      BY <1>a, <2>1, <3>1, <3>2
  <2>4. found'[r] = created'
    BY <1>a, <2>1 DEF RequestTypes
  <2>5. WelcomedOnce'
    BY <2>1 DEF WelcomeInv, WelcomedOnce
  <2>6. WelcomePending'
    BY <2>1, <2>2, <2>3, <2>4 DEF WelcomeInv, WelcomePending
  <2> QED
    BY <2>5, <2>6 DEF WelcomeInv
<1>4. ASSUME NEW r \in Requests,
             Welcome(r) \/ WelcomeNotQueued(r) \/ WelcomeThrows(r)
      PROVE  WelcomeInv'
  <2>1. /\ pc[r] = "welcome"
        /\ Goto(r, "201", found[r]) \/ Goto(r, "500", found[r])
        /\ WelcomeQueued(found[r]) \/ UNCHANGED welcomes
    BY <1>4 DEF Welcome, WelcomeNotQueued, WelcomeThrows
  <2>2. CASE UNCHANGED welcomes
    BY <1>a, <2>1, <2>2, GotoKeepsWelcome DEF Steps
  <2>3. CASE WelcomeQueued(found[r])
    <3>1. welcomes' = [welcomes EXCEPT ![found[r]] = @ + 1]
      BY <2>3 DEF WelcomeQueued
    <3>2. welcomes[found[r]] = 0 /\ found[r] \in Records
      BY <1>a, <2>1 DEF WelcomeInv, WelcomePending, RequestsInOrder
    <3>3. welcomes' \in [Records -> Nat] /\ welcomes'[found[r]] = 1
          /\ \A k \in Records \ {found[r]} : welcomes'[k] = welcomes[k]
      BY <1>a, <3>1, <3>2 DEF RecordTypes
    <3>4. WelcomedOnce'
      BY <3>3 DEF WelcomeInv, WelcomedOnce
    <3>5. ASSUME NEW q \in Requests, pc'[q] = "welcome"
          PROVE  /\ pc[q] = "welcome" /\ found'[q] = found[q]
                 /\ found[q] \in Records \ {found[r]}
      <4>1. pc[q] = "welcome" /\ found'[q] = found[q] /\ q # r
        BY <1>a, <2>1, <3>5 DEF Goto, RequestTypes
      <4>2. found[q] \in Records
        BY <1>a, <4>1 DEF RequestsInOrder
      <4> QED
        BY <2>1, <4>1, <4>2 DEF WelcomeInv, WelcomePending
    <3>6. WelcomePending'
      BY <3>3, <3>5 DEF WelcomeInv, WelcomePending
    <3> QED
      BY <3>4, <3>6 DEF WelcomeInv
  <2> QED
    BY <2>1, <2>2, <2>3
<1>5. ASSUME UNCHANGED <<welcomes, pc, found>> PROVE WelcomeInv'
  BY <1>5 DEF WelcomeInv, WelcomedOnce, WelcomePending
<1>6. ASSUME NEW k \in Records,
             Delete(k) \/ UpdateRecipient(k) \/ UpdatePushToken(k)
      PROVE  WelcomeInv'
  BY <1>5, <1>6 DEF Delete, UpdateRecipient, UpdatePushToken, Write, historyVars
<1>7. CASE UNCHANGED vars
  BY <1>5, <1>7 DEF vars, historyVars
<1> QED
  BY <1>1, <1>2, <1>3, <1>4, <1>6, <1>7 DEF Next, RequestStep

-----------------------------------------------------------------------------
(* One record per address. *)

LEMMA AddKeepsUnique ==
  ASSUME TypeInv, Unique, NEW r \in Requests, pc[r] # "new", AddRecord(r)
  PROVE  Unique'
<1>1. /\ created' \in Records
      /\ email'[created'] = Key(r)
      /\ Stored(Key(r)) = {}
      /\ \A k \in Records \ {created'} : email'[k] = email[k]
  BY RecordAdded
<1>2. \A k \in Records : email[k] # Key(r)
  BY <1>1 DEF Stored
<1> QED
  BY <1>1, <1>2 DEF Unique

LEMMA StepUnique == TypeInv /\ Unique /\ [Next]_vars => Unique'
<1> SUFFICES ASSUME TypeInv, Unique, [Next]_vars PROVE Unique'
  OBVIOUS
<1>1. ASSUME email' = email PROVE Unique'
  BY <1>1 DEF Unique
<1>2. ASSUME NEW r \in Requests,
             \/ \E s \in Spellings : Ask(r, s)
             \/ Find(r) \/ InsertLosesRace(r) \/ Refetch(r) \/ Welcome(r)
             \/ WelcomeNotQueued(r) \/ WelcomeThrows(r) \/ Crash(r)
      PROVE  Unique'
  <2>1. UNCHANGED recordVars
    BY <1>2 DEF Ask, Find, InsertLosesRace, Refetch, Welcome, WelcomeNotQueued,
                WelcomeThrows, Crash
  <2> QED
    BY <1>1, <2>1 DEF recordVars
<1>3. ASSUME NEW r \in Requests, Insert(r) \/ CallThrows(r) PROVE Unique'
  <2>1. pc[r] # "new" /\ (UNCHANGED recordVars \/ AddRecord(r))
    BY <1>3 DEF Insert, CallThrows
  <2> QED
    BY <1>1, <2>1, AddKeepsUnique DEF recordVars
<1>4. ASSUME NEW k \in Records, Delete(k) PROVE Unique'
  BY <1>4 DEF Delete, Unique, TypeInv, TypeOK
<1>5. ASSUME NEW k \in Records, UpdateRecipient(k) \/ UpdatePushToken(k)
      PROVE  Unique'
  BY <1>1, <1>5 DEF UpdateRecipient, UpdatePushToken, Write
<1>6. CASE UNCHANGED vars
  BY <1>1, <1>6 DEF vars, recordVars
<1> QED
  BY <1>2, <1>3, <1>4, <1>5, <1>6 DEF Next, RequestStep

-----------------------------------------------------------------------------
(* Everybody gets the recipient of the address. *)

\* No address is taken from a record, and what has happened has happened.
Keeps == /\ \A k \in Records : email[k] # None => email'[k] = email[k]
         /\ Without({"delete"})' => Without({"delete"})
         /\ Without({"db", "unsent"})' => Without({"db", "unsent"})

\* A request that stays where it is.
LEMMA OthersFound ==
  ASSUME TypeInv, FoundByAddress, Keeps, Without({"delete"})',
         NEW q \in Requests,
         pc'[q] = pc[q], found'[q] = found[q], address'[q] = address[q]
  PROVE  FoundRight(q)'
<1>1. FoundRight(q)
  BY DEF Keeps, FoundByAddress
<1>2. Key(q)' = Key(q)
  BY DEF Key
<1>3. created \in Nat /\ 1..created \subseteq Records
  BY RegistryAssumption DEF TypeInv, TypeOK, Records
<1>4. ASSUME pc[q] # "new" PROVE Key(q) # None
  BY <1>4, CanonicalIsEmail DEF Key, TypeInv, RequestsInOrder
<1>5. ASSUME pc[q] \in {"welcome", "200", "201"} PROVE email'[found[q]] = Key(q)
  <2>1. found[q] \in Records
    BY <1>3, <1>5 DEF TypeInv, RequestsInOrder
  <2> QED
    BY <1>1, <1>4, <1>5, <2>1 DEF FoundRight, Keeps
<1>6. ASSUME pc[q] = "refetch" PROVE Stored(Key(q))' # {}
  BY <1>1, <1>2, <1>4, <1>6 DEF FoundRight, Keeps, Stored
<1> QED
  BY <1>1, <1>2, <1>5, <1>6 DEF FoundRight, Keeps

\* A request goes on with the record of its address.
LEMMA GotoFound ==
  ASSUME TypeInv, FoundByAddress, Keeps,
         NEW r \in Requests, NEW step, NEW record, Goto(r, step, record),
         step \in {"welcome", "200", "201"} => email'[record] = Key(r),
         step = "refetch" => Stored(Key(r)) # {} /\ email' = email,
         step = "500" /\ Without({"delete"})' => ~Without({"db", "unsent"})'
  PROVE  FoundByAddress'
<1> SUFFICES ASSUME Without({"delete"})', NEW q \in Requests PROVE FoundRight(q)'
  BY DEF FoundByAddress
<1>1. /\ pc' = [pc EXCEPT ![r] = step]
      /\ found' = [found EXCEPT ![r] = record]
      /\ address' = address
      /\ pc \in [Requests -> Steps]
      /\ r \in DOMAIN found /\ q \in DOMAIN found
  BY DEF Goto, TypeInv, TypeOK
<1>2. CASE q = r
  <2>1. pc'[q] = step /\ found'[q] = record /\ Key(q)' = Key(r)
    BY <1>1, <1>2 DEF Key
  <2>2. step = "refetch" => Stored(Key(q))' # {}
    BY <2>1 DEF Stored
  <2> QED
    BY <2>1, <2>2 DEF FoundRight
<1>3. CASE q # r
  <2>1. pc'[q] = pc[q] /\ found'[q] = found[q] /\ address'[q] = address[q]
    BY <1>1, <1>3 DEF TypeInv, TypeOK
  <2> QED
    BY <2>1, OthersFound
<1> QED
  BY <1>2, <1>3

LEMMA StepFound == TypeInv /\ FoundByAddress /\ [Next]_vars => FoundByAddress'
<1> SUFFICES ASSUME TypeInv, FoundByAddress, [Next]_vars PROVE FoundByAddress'
  OBVIOUS
<1>a. spent \in [Events -> Nat]
  BY DEF TypeInv, TypeOK
<1>b. ASSUME UNCHANGED email, UNCHANGED spent PROVE Keeps
  BY <1>b DEF Keeps, Without
<1>c. ASSUME UNCHANGED email, NEW e \in Events, Spend(e) PROVE Keeps
  BY <1>a, <1>c, SpendTyped DEF Keeps, Without, Events
<1>1. ASSUME NEW r \in Requests, NEW s \in Spellings, Ask(r, s)
      PROVE  FoundByAddress'
  <2>1. Keeps
    BY <1>1, <1>b DEF Ask, recordVars
  <2>2. ASSUME Without({"delete"})', NEW q \in Requests PROVE FoundRight(q)'
    <3>1. CASE q = r
      <4>1. pc'[q] = "find"
        BY <1>1, <3>1 DEF Ask, TypeInv, TypeOK
      <4> QED
        BY <4>1 DEF FoundRight
    <3>2. CASE q # r
      <4>1. pc'[q] = pc[q] /\ found'[q] = found[q] /\ address'[q] = address[q]
        BY <1>1, <3>2 DEF Ask, TypeInv, TypeOK
      <4> QED
        BY <2>1, <2>2, <4>1, OthersFound
    <3> QED
      BY <3>1, <3>2
  <2> QED
    BY <2>2 DEF FoundByAddress
<1>2. ASSUME NEW r \in Requests, Find(r) \/ Refetch(r) PROVE FoundByAddress'
  <2>1. Keeps /\ pc[r] # "new" /\ email' = email /\ spent' = spent
    BY <1>2, <1>b DEF Find, Refetch, recordVars
  <2>2. CASE Goto(r, "insert", None)
    BY <2>1, <2>2, GotoFound
  <2>3. CASE pc[r] = "refetch" /\ Stored(Key(r)) = {} /\ Goto(r, "500", None)
    <3>1. ~Without({"delete"})'
      BY <2>1, <2>3 DEF FoundByAddress, FoundRight, Without
    <3> QED
      BY <3>1 DEF FoundByAddress
  <2>4. ASSUME NEW k \in Stored(Key(r)), Goto(r, "200", k) PROVE FoundByAddress'
    <3>1. email'[k] = Key(r)
      BY <2>1, StoredCreated
    <3> QED
      BY <2>1, <2>4, <3>1, GotoFound
  <2> QED
    BY <1>2, <2>2, <2>3, <2>4 DEF Find, Refetch
<1>d. ASSUME NEW r \in Requests, pc[r] # "new", AddRecord(r)
      PROVE  /\ \A k \in Records : email[k] # None => email'[k] = email[k]
             /\ email'[created'] = Key(r)
  <2>1. /\ created' = created + 1 /\ created' \in Records
        /\ email'[created'] = Key(r)
        /\ \A k \in Records \ {created'} : email'[k] = email[k]
    BY <1>d, RecordAdded
  <2>2. email[created'] = None
    BY <2>1, RegistryAssumption DEF TypeInv, TypeOK, RecordsInOrder
  <2> QED
    BY <2>1, <2>2
<1>3. ASSUME NEW r \in Requests, Insert(r) PROVE FoundByAddress'
  <2>1. Goto(r, "welcome", created') /\ email'[created'] = Key(r)
    BY <1>3, <1>d DEF Insert
  <2>2. Keeps
    BY <1>3, <1>d DEF Insert, Keeps, Without
  <2> QED
    BY <2>1, <2>2, GotoFound
<1>4. ASSUME NEW r \in Requests, InsertLosesRace(r) PROVE FoundByAddress'
  <2>1. /\ Goto(r, "refetch", None) /\ Stored(Key(r)) # {}
        /\ email' = email /\ spent' = spent
    BY <1>4 DEF InsertLosesRace, Key, recordVars
  <2>2. Keeps
    BY <1>b, <2>1
  <2> QED
    BY <2>1, <2>2, GotoFound
<1>5. ASSUME NEW r \in Requests, CallThrows(r) PROVE FoundByAddress'
  <2>1. /\ Goto(r, "500", None) /\ pc[r] # "new" /\ Spend("db")
        /\ UNCHANGED recordVars \/ AddRecord(r)
    BY <1>5 DEF CallThrows
  <2>2. Keeps
    <3>1. CASE UNCHANGED recordVars
      BY <1>c, <2>1, <3>1 DEF recordVars, Events
    <3>2. CASE AddRecord(r)
      BY <1>a, <1>d, <2>1, <3>2, SpendTyped DEF Keeps, Without, Events
    <3> QED
      BY <2>1, <3>1, <3>2
  <2>3. ~Without({"db", "unsent"})'
    BY <1>a, <2>1, SpendTyped DEF Without, Events
  <2> QED
    BY <2>1, <2>2, <2>3, GotoFound
<1>6. ASSUME NEW r \in Requests, Welcome(r) \/ WelcomeNotQueued(r)
      PROVE  FoundByAddress'
  <2>1. /\ pc[r] = "welcome" /\ Goto(r, "201", found[r]) /\ email' = email
        /\ Keeps
    BY <1>6, <1>b, <1>c DEF Welcome, WelcomeNotQueued, recordVars, Events
  <2>2. Without({"delete"}) => email'[found[r]] = Key(r)
    BY <2>1 DEF FoundByAddress, FoundRight
  <2>3. CASE Without({"delete"})
    BY <2>1, <2>2, <2>3, GotoFound
  <2>4. CASE ~Without({"delete"})
    BY <2>1, <2>4 DEF FoundByAddress, Keeps
  <2> QED
    BY <2>3, <2>4
<1>7. ASSUME NEW r \in Requests, WelcomeThrows(r) PROVE FoundByAddress'
  <2>1. /\ Goto(r, "500", found[r])
        /\ Spend("db") \/ Spend("unsent")
        /\ email' = email
    BY <1>7 DEF WelcomeThrows, recordVars
  <2>2. Keeps
    BY <1>c, <2>1 DEF Events
  <2>3. ~Without({"db", "unsent"})'
    BY <1>a, <2>1, SpendTyped DEF Without, Events
  <2> QED
    BY <2>1, <2>2, <2>3, GotoFound
<1>8. ASSUME NEW r \in Requests, Crash(r) PROVE FoundByAddress'
  <2>1. Goto(r, "crashed", None) /\ Spend("crash") /\ email' = email
    BY <1>8 DEF Crash, recordVars
  <2>2. Keeps
    BY <1>c, <2>1 DEF Events
  <2> QED
    BY <2>1, <2>2, GotoFound
<1>9. ASSUME NEW k \in Records, Delete(k) PROVE FoundByAddress'
  <2>1. ~Without({"delete"})'
    BY <1>a, <1>9, SpendTyped DEF Delete, Without, Events
  <2> QED
    BY <2>1 DEF FoundByAddress
<1>e. ASSUME Keeps, UNCHANGED <<pc, found, address>> PROVE FoundByAddress'
  BY <1>e, OthersFound DEF FoundByAddress
<1>10. ASSUME NEW k \in Records, UpdateRecipient(k) \/ UpdatePushToken(k)
       PROVE  FoundByAddress'
  <2>1. Spend("patch") /\ UNCHANGED <<email, pc, found, address>>
    BY <1>10 DEF UpdateRecipient, UpdatePushToken, Write
  <2> QED
    BY <1>c, <1>e, <2>1 DEF Events
<1>11. CASE UNCHANGED vars
  BY <1>b, <1>e, <1>11 DEF vars, recordVars
<1> QED
  BY <1>1, <1>2, <1>3, <1>4, <1>5, <1>6, <1>7, <1>8, <1>9, <1>10, <1>11
     DEF Next, RequestStep

\* Wherever a request goes, and whatever is added or deleted meanwhile.
LEMMA GotoGone ==
  ASSUME TypeInv, FoundOrGone, NEW r \in Requests, NEW step, NEW record,
         Goto(r, step, record),
         \A k \in 1..created : email'[k] = email[k],
         step \in {"welcome", "200", "201"} => email'[record] \in {Key(r), None}
  PROVE  FoundOrGone'
<1> SUFFICES ASSUME NEW q \in Requests, pc'[q] \in {"welcome", "200", "201"}
             PROVE  email'[found'[q]] \in {Key(q)', None}
  BY DEF FoundOrGone
<1>1. Key(q)' = Key(q)
  BY DEF Goto, Key
<1>2. CASE q = r
  <2>1. pc'[q] = step /\ found'[q] = record
    BY <1>2 DEF Goto, TypeInv, TypeOK
  <2> QED
    BY <1>1, <1>2, <2>1
<1>3. CASE q # r
  <2>1. pc'[q] = pc[q] /\ found'[q] = found[q]
    BY <1>3 DEF Goto, TypeInv, TypeOK
  <2>2. found[q] \in 1..created
    BY <2>1 DEF TypeInv, RequestsInOrder
  <2> QED
    BY <1>1, <2>1, <2>2 DEF FoundOrGone
<1> QED
  BY <1>2, <1>3

LEMMA StepGone == TypeInv /\ FoundOrGone /\ [Next]_vars => FoundOrGone'
<1> SUFFICES ASSUME TypeInv, FoundOrGone, [Next]_vars PROVE FoundOrGone'
  OBVIOUS
<1>1. ASSUME NEW r \in Requests, NEW s \in Spellings, Ask(r, s) PROVE FoundOrGone'
  <2>1. email' = email /\ found' = found
    BY <1>1 DEF Ask, recordVars
  <2>2. ASSUME NEW q \in Requests, pc'[q] \in {"welcome", "200", "201"}
        PROVE  pc[q] = pc'[q] /\ Key(q)' = Key(q)
    BY <1>1, <2>2 DEF Ask, Key, TypeInv, TypeOK
  <2> QED
    BY <2>1, <2>2 DEF FoundOrGone
<1>2. ASSUME NEW r \in Requests, Find(r) \/ Refetch(r) PROVE FoundOrGone'
  <2>1. pc[r] # "new" /\ email' = email
    BY <1>2 DEF Find, Refetch, recordVars
  <2>2. CASE Goto(r, "insert", None) \/ Goto(r, "500", None)
    BY <2>1, <2>2, GotoGone
  <2>3. ASSUME NEW k \in Stored(Key(r)), Goto(r, "200", k) PROVE FoundOrGone'
    <3>1. email'[k] = Key(r)
      BY <2>1, StoredCreated
    <3> QED
      BY <2>1, <2>3, <3>1, GotoGone
  <2> QED
    BY <1>2, <2>2, <2>3 DEF Find, Refetch
<1>3. ASSUME NEW r \in Requests, pc[r] # "new", AddRecord(r)
      PROVE  /\ \A k \in 1..created : email'[k] = email[k]
             /\ email'[created'] = Key(r)
  <2>1. /\ created' = created + 1
        /\ email'[created'] = Key(r)
        /\ \A k \in Records \ {created'} : email'[k] = email[k]
    BY <1>3, RecordAdded
  <2>2. 1..created \subseteq Records \ {created'}
    BY <2>1, RegistryAssumption DEF TypeInv, TypeOK, Records
  <2> QED
    BY <2>1, <2>2
<1>4. ASSUME NEW r \in Requests, Insert(r) PROVE FoundOrGone'
  <2>1. Goto(r, "welcome", created') /\ pc[r] # "new" /\ AddRecord(r)
    BY <1>4 DEF Insert
  <2> QED
    BY <1>3, <2>1, GotoGone
<1>5. ASSUME NEW r \in Requests, CallThrows(r) PROVE FoundOrGone'
  <2>1. /\ Goto(r, "500", None) /\ pc[r] # "new"
        /\ email' = email \/ AddRecord(r)
    BY <1>5 DEF CallThrows, recordVars
  <2> QED
    BY <1>3, <2>1, GotoGone
<1>6. ASSUME NEW r \in Requests, InsertLosesRace(r) \/ Crash(r) PROVE FoundOrGone'
  <2>1. /\ Goto(r, "refetch", None) \/ Goto(r, "crashed", None)
        /\ email' = email
    BY <1>6 DEF InsertLosesRace, Crash, recordVars
  <2> QED
    BY <2>1, GotoGone
<1>7. ASSUME NEW r \in Requests,
             Welcome(r) \/ WelcomeNotQueued(r) \/ WelcomeThrows(r)
      PROVE  FoundOrGone'
  <2>1. /\ pc[r] = "welcome" /\ email' = email
        /\ Goto(r, "201", found[r]) \/ Goto(r, "500", found[r])
    BY <1>7 DEF Welcome, WelcomeNotQueued, WelcomeThrows, recordVars
  <2>2. email'[found[r]] \in {Key(r), None}
    BY <2>1 DEF FoundOrGone
  <2> QED
    BY <2>1, <2>2, GotoGone
<1>8. ASSUME NEW k \in Records, Delete(k) PROVE FoundOrGone'
  <2>1. /\ email' = [email EXCEPT ![k] = None]
        /\ UNCHANGED <<pc, found, address>>
    BY <1>8 DEF Delete
  <2>2. \A j \in Records : email'[j] \in {email[j], None}
    BY <2>1 DEF TypeInv, TypeOK
  <2>3. 1..created \subseteq Records
    BY RegistryAssumption DEF TypeInv, TypeOK, Records
  <2> QED
    BY <2>1, <2>2, <2>3 DEF FoundOrGone, Key, TypeInv, RequestsInOrder
<1>9. ASSUME UNCHANGED <<email, pc, found, address>> PROVE FoundOrGone'
  BY <1>9 DEF FoundOrGone, Key
<1>10. ASSUME NEW k \in Records, UpdateRecipient(k) \/ UpdatePushToken(k)
       PROVE  FoundOrGone'
  BY <1>9, <1>10 DEF UpdateRecipient, UpdatePushToken, Write
<1>11. CASE UNCHANGED vars
  BY <1>9, <1>11 DEF vars, recordVars
<1> QED
  BY <1>1, <1>2, <1>4, <1>5, <1>6, <1>7, <1>8, <1>10, <1>11
     DEF Next, RequestStep

-----------------------------------------------------------------------------
(* No registration undoes an update. *)

\* What the property says of one record.
ProfileKept(k) ==
  email[k] # None =>
    /\ \A f \in patched[k] : profile[k][f] = "patch"
    /\ \E r \in Requests : \A f \in Fields \ patched[k] : profile[k][f] = r

LEMMA OtherProfiles ==
  ASSUME ProfileKeepsUpdates, NEW k \in Records,
         email'[k] = email[k], profile'[k] = profile[k], patched'[k] = patched[k]
  PROVE  ProfileKept(k)'
BY DEF ProfileKeepsUpdates, ProfileKept

LEMMA AddKeepsProfiles ==
  ASSUME TypeInv, ProfileKeepsUpdates, NEW r \in Requests, pc[r] # "new",
         AddRecord(r), UNCHANGED historyVars
  PROVE  ProfileKeepsUpdates'
<1>1. /\ created' = created + 1 /\ created' \in Records
      /\ \A k \in Records \ {created'} : email'[k] = email[k]
      /\ profile' = [profile EXCEPT ![created'] = [f \in Fields |-> r]]
      /\ patched' = patched
  BY RecordAdded DEF historyVars
<1>2. patched[created'] = {}
  BY <1>1, RegistryAssumption DEF TypeInv, TypeOK, RecordsInOrder
<1>3. ASSUME NEW k \in Records PROVE ProfileKept(k)'
  <2>1. CASE k = created'
    <3>1. profile'[k] = [f \in Fields |-> r]
      BY <1>1, <2>1 DEF TypeInv, TypeOK
    <3> QED
      BY <1>1, <1>2, <2>1, <3>1 DEF ProfileKept
  <2>2. CASE k # created'
    <3>1. profile'[k] = profile[k]
      BY <1>1, <2>2 DEF TypeInv, TypeOK
    <3> QED
      BY <1>1, <2>2, <3>1, OtherProfiles
  <2> QED
    BY <2>1, <2>2
<1> QED
  BY <1>3 DEF ProfileKeepsUpdates, ProfileKept

LEMMA StepProfiles ==
  TypeInv /\ ProfileKeepsUpdates /\ [Next]_vars => ProfileKeepsUpdates'
<1> SUFFICES ASSUME TypeInv, ProfileKeepsUpdates, [Next]_vars
             PROVE  ProfileKeepsUpdates'
  OBVIOUS
<1>1. ASSUME UNCHANGED <<email, profile, patched>> PROVE ProfileKeepsUpdates'
  BY <1>1 DEF ProfileKeepsUpdates
<1>2. ASSUME NEW r \in Requests,
             \/ \E s \in Spellings : Ask(r, s)
             \/ Find(r) \/ InsertLosesRace(r) \/ Refetch(r) \/ Welcome(r)
             \/ WelcomeNotQueued(r) \/ WelcomeThrows(r) \/ Crash(r)
      PROVE  ProfileKeepsUpdates'
  <2>1. UNCHANGED recordVars /\ UNCHANGED patched
    BY <1>2 DEF Ask, Find, InsertLosesRace, Refetch, Welcome, WelcomeNotQueued,
                WelcomeThrows, Crash, historyVars
  <2> QED
    BY <1>1, <2>1 DEF recordVars
<1>3. ASSUME NEW r \in Requests, Insert(r) \/ CallThrows(r)
      PROVE  ProfileKeepsUpdates'
  <2>1. /\ pc[r] # "new" /\ UNCHANGED historyVars
        /\ UNCHANGED recordVars \/ AddRecord(r)
    BY <1>3 DEF Insert, CallThrows
  <2> QED
    BY <1>1, <2>1, AddKeepsProfiles DEF recordVars, historyVars
<1>4. ASSUME NEW k \in Records, Delete(k) PROVE ProfileKeepsUpdates'
  <2>1. ASSUME NEW j \in Records PROVE ProfileKept(j)'
    <3>1. /\ email' = [email EXCEPT ![k] = None]
          /\ profile' = [profile EXCEPT ![k] = NoProfile]
          /\ patched' = patched
      BY <1>4 DEF Delete, historyVars
    <3>2. CASE j = k
      BY <3>1, <3>2 DEF ProfileKept, TypeInv, TypeOK
    <3>3. CASE j # k
      <4>1. email'[j] = email[j] /\ profile'[j] = profile[j]
        BY <3>1, <3>3 DEF TypeInv, TypeOK
      <4> QED
        BY <3>1, <4>1, OtherProfiles
    <3> QED
      BY <3>2, <3>3
  <2> QED
    BY <2>1 DEF ProfileKeepsUpdates, ProfileKept
<1>5. ASSUME NEW k \in Records, NEW fields \in SUBSET Fields, Write(k, fields)
      PROVE  ProfileKeepsUpdates'
  <2>1. /\ email[k] # None /\ email' = email
        /\ profile' = [profile EXCEPT ![k] = [f \in Fields |->
                          IF f \in fields THEN "patch" ELSE @[f]]]
        /\ patched' = [patched EXCEPT ![k] = @ \union fields]
    BY <1>5 DEF Write
  <2>2. ASSUME NEW j \in Records PROVE ProfileKept(j)'
    <3>1. CASE j = k
      <4>1. /\ \A f \in Fields : profile'[k][f] = IF f \in fields THEN "patch"
                                                  ELSE profile[k][f]
            /\ patched'[k] = patched[k] \union fields
            /\ patched[k] \subseteq Fields
        BY <2>1 DEF TypeInv, TypeOK
      <4>2. /\ \A f \in patched[k] : profile[k][f] = "patch"
            /\ \E r \in Requests :
                 \A f \in Fields \ patched[k] : profile[k][f] = r
        BY <2>1 DEF ProfileKeepsUpdates
      <4> QED
        BY <3>1, <4>1, <4>2 DEF ProfileKept
    <3>2. CASE j # k
      <4>1. profile'[j] = profile[j] /\ patched'[j] = patched[j]
        BY <2>1, <3>2 DEF TypeInv, TypeOK
      <4> QED
        BY <2>1, <4>1, OtherProfiles
    <3> QED
      BY <3>1, <3>2
  <2> QED
    BY <2>2 DEF ProfileKeepsUpdates, ProfileKept
<1>6. ASSUME NEW k \in Records, UpdateRecipient(k) \/ UpdatePushToken(k)
      PROVE  ProfileKeepsUpdates'
  BY <1>5, <1>6 DEF UpdateRecipient, UpdatePushToken, Fields, Updatable
<1>7. CASE UNCHANGED vars
  BY <1>1, <1>7 DEF vars, recordVars, historyVars
<1> QED
  BY <1>2, <1>3, <1>4, <1>6, <1>7 DEF Next, RequestStep

-----------------------------------------------------------------------------
(* The theorems. *)

LEMMA InitInv == Init => Inv
<1> SUFFICES ASSUME Init PROVE Inv
  OBVIOUS
<1> USE RegistryAssumption DEF Init
<1>1. TypeInv
  BY DEF TypeInv, TypeOK, RecordsInOrder, RequestsInOrder, NoProfile, Steps
<1>2. WelcomeInv
  BY DEF WelcomeInv, WelcomedOnce, WelcomePending
<1>3. Unique /\ ProfileKeepsUpdates
  BY DEF Unique, ProfileKeepsUpdates
<1>4. FoundByAddress /\ FoundOrGone
  BY DEF FoundByAddress, FoundRight, FoundOrGone
<1> QED
  BY <1>1, <1>2, <1>3, <1>4 DEF Inv

LEMMA StepInv == Inv /\ [Next]_vars => Inv'
BY StepTypes, StepWelcome, StepUnique, StepFound, StepGone, StepProfiles DEF Inv

\* Every reachable state of RecipientRegistry is well typed; what is stored is
\* the address as the schema writes it, and found names created records only.
THEOREM RegistryTyped == Safe => []TypeOK
<1>1. Inv => TypeOK
  BY DEF Inv, TypeInv
<1> QED
  BY <1>1, InitInv, StepInv, PTL DEF Safe

\* No recipient is welcomed twice (findOrCreateAndWelcome).
THEOREM WelcomeIsUnique == Safe => []WelcomedOnce
<1>1. Inv => WelcomedOnce
  BY DEF Inv, WelcomeInv
<1> QED
  BY <1>1, InitInv, StepInv, PTL DEF Safe

\* Who registers one address gets one recipient; if a deletion came between, one
\* of two answers names a recipient that is gone.  Nobody gets an error without a
\* failing database call, a deleted recipient or a deleted welcome notification
\* (the branch for error 11000).
THEOREM OneRecipientPerAddress == Safe => []SameRecipient
<1>1. ASSUME Inv PROVE SameRecipient
  <2>1. ASSUME NEW r \in Requests, pc[r] \in {"200", "201"}
        PROVE  /\ found[r] \in Records
               /\ email[found[r]] \in {Canonical[address[r]], None}
               /\ Without({"delete"}) => email[found[r]] = Canonical[address[r]]
               /\ Canonical[address[r]] # None
    <3>1. address[r] \in Spellings /\ found[r] \in 1..created
      BY <1>1, <2>1 DEF Inv, TypeInv, RequestsInOrder
    <3>2. found[r] \in Records
      BY <1>1, <3>1, RegistryAssumption DEF Inv, TypeInv, TypeOK, Records
    <3>3. email[found[r]] \in {Canonical[address[r]], None}
      BY <1>1, <2>1 DEF Inv, FoundOrGone, Key
    <3>4. Without({"delete"}) => email[found[r]] = Canonical[address[r]]
      BY <1>1, <2>1 DEF Inv, FoundByAddress, FoundRight, Key
    <3> QED
      BY <3>1, <3>2, <3>3, <3>4, CanonicalIsEmail
  <2>2. ASSUME NEW r \in Requests, NEW s \in Requests,
               pc[r] \in {"200", "201"}, pc[s] \in {"200", "201"},
               Canonical[address[r]] = Canonical[address[s]], found[r] # found[s]
        PROVE  ~Without({"delete"}) /\ None \in {email[found[r]], email[found[s]]}
    <3>1. email[found[r]] # email[found[s]] \/ email[found[r]] = None
      BY <1>1, <2>1, <2>2 DEF Inv, Unique
    <3> QED
      BY <2>1, <2>2, <3>1
  <2>3. ASSUME Without({"delete", "db", "unsent"}), NEW r \in Requests
        PROVE  pc[r] # "500"
    <3>1. Without({"delete"}) /\ Without({"db", "unsent"})
      BY <2>3 DEF Without
    <3> QED
      BY <1>1, <3>1 DEF Inv, FoundByAddress, FoundRight
  <2> QED
    BY <2>2, <2>3 DEF SameRecipient
<1> QED
  BY <1>1, InitInv, StepInv, PTL DEF Safe

\* What a PATCH has written stays, however registrations and updates interleave
\* (findOrCreateAndWelcome, update, updatePushToken).
THEOREM UpdatesSurvive == Safe => []ProfileKeepsUpdates
<1>1. Inv => ProfileKeepsUpdates
  BY DEF Inv
<1> QED
  BY <1>1, InitInv, StepInv, PTL DEF Safe
=============================================================================
