------------------------- MODULE RecipientRegistry -------------------------
(***************************************************************************)
(* POST /api/recipients: several clients register the same e-mail address  *)
(* at once, spelled one way or another, through any API replica, and the   *)
(* one that creates the recipient queues its welcome mail.  PATCH and      *)
(* DELETE cut in between.                                                  *)
(*                                                                         *)
(* A step runs from one await to the next.  What createAndQueue does inside*)
(* is modelled in Delivery; here it queues the mail, reports a queue error *)
(* or throws.                                                              *)
(***************************************************************************)
EXTENDS Integers, FiniteSets

CONSTANTS Requests,    \* POST requests
          Spellings,   \* ways clients write an address
          Canonical,   \* the lower-case, trimmed address of a spelling
          MaxRecords,  \* bound on the recipients ever created
          None,        \* no recipient
          Budget       \* how often each event may happen

Events == {"db",      \* a database call fails
           "broker",  \* the welcome mail cannot be published
           "unsent",  \* its notification is deleted while it is queued
           "crash",   \* the API replica dies inside a request
           "delete",  \* a recipient is deleted
           "patch"}   \* a recipient is updated

Records == 1..MaxRecords
Emails  == {Canonical[s] : s \in Spellings}

\* Fields of PATCH /:id (preferredChannel is set like name), and the one of
\* PATCH /:id/push-token.
Updatable == {"name", "phone"}
Fields    == Updatable \union {"pushToken"}

ASSUME RegistryAssumption == /\ DOMAIN Canonical = Spellings
                             /\ Emails \subseteq Spellings
                             /\ \A e \in Emails : Canonical[e] = e
                             /\ MaxRecords \in Nat \ {0}
                             /\ None \notin Records \union Requests \union Spellings
                             /\ "patch" \notin Requests
                             /\ Budget \in [Events -> Nat]

Steps == {"new", "find", "insert", "welcome", "refetch",
          "200", "201", "500", "crashed"}

VARIABLES email,    \* email[k]: the address stored in record k, or None
          profile,  \* profile[k][f]: who wrote field f, a POST or "patch"
          created,  \* records created so far
          pc,       \* pc[r]: the step request r is about to take, or its end
          address,  \* address[r]: the address request r sent
          found,    \* found[r]: the record request r works with
          welcomes, \* history: welcome mails queued for record k
          patched,  \* history: fields of record k that a PATCH has written
          spent     \* spent[e]: how often event e happened

recordVars  == <<email, profile, created>>
historyVars == <<welcomes, patched>>
vars == <<recordVars, pc, address, found, historyVars, spent>>

Spend(e) == /\ spent[e] < Budget[e]
            /\ spent' = [spent EXCEPT ![e] = @ + 1]

Answered(r) == pc[r] \in {"200", "201", "500", "crashed"}

NoProfile == [f \in Fields |-> None]

\* The records stored under an address.
Stored(e) == {k \in Records : email[k] = e}

-----------------------------------------------------------------------------
(* createRecipient and findOrCreateAndWelcome. *)

Goto(r, step, record) == /\ pc' = [pc EXCEPT ![r] = step]
                         /\ found' = [found EXCEPT ![r] = record]
                         /\ UNCHANGED address

Ask(r, s) == /\ pc[r] = "new"
             /\ pc' = [pc EXCEPT ![r] = "find"]
             /\ address' = [address EXCEPT ![r] = s]
             /\ UNCHANGED <<recordVars, found, historyVars, spent>>

\* Faulty variant: looks the address up as the client wrote it.
KeyAsSent(r) == address[r]

\* Both lookups use the address as the schema stores it.
Key(r) == Canonical[address[r]]

\* Faulty variant: an existing record takes over what the client sent.
FindRefreshes(r) ==
  /\ pc[r] = "find"
  /\ \/ Stored(Key(r)) = {} /\ Goto(r, "insert", None) /\ UNCHANGED profile
     \/ \E k \in Stored(Key(r)) :
          /\ Goto(r, "200", k)
          /\ profile' = [profile EXCEPT ![k] = [f \in Fields |-> r]]
  /\ UNCHANGED <<email, created, historyVars, spent>>

Find(r) ==
  /\ pc[r] = "find"
  /\ \/ Stored(Key(r)) = {} /\ Goto(r, "insert", None)
     \/ \E k \in Stored(Key(r)) : Goto(r, "200", k)
  /\ UNCHANGED <<recordVars, historyVars, spent>>

\* Faulty variant: a schema that stores the address as the client wrote it.
AddRecordAsSent(r) == /\ Stored(address[r]) = {}
                      /\ created < MaxRecords
                      /\ created' = created + 1
                      /\ email' = [email EXCEPT ![created'] = address[r]]
                      /\ profile' = [profile EXCEPT
                                       ![created'] = [f \in Fields |-> r]]

\* A new record under the address as the schema stores it, lower-case.
AddRecord(r) == /\ Stored(Canonical[address[r]]) = {}
                /\ created < MaxRecords
                /\ created' = created + 1
                /\ email' = [email EXCEPT ![created'] = Canonical[address[r]]]
                /\ profile' = [profile EXCEPT
                                 ![created'] = [f \in Fields |-> r]]

\* Faulty variant: answers without the welcome mail.
InsertAnswers(r) == /\ pc[r] = "insert"
                    /\ AddRecord(r)
                    /\ Goto(r, "201", created')
                    /\ UNCHANGED <<historyVars, spent>>

Insert(r) == /\ pc[r] = "insert"
             /\ AddRecord(r)
             /\ Goto(r, "welcome", created')
             /\ UNCHANGED <<historyVars, spent>>

\* The unique index rejects the address: error code 11000.
InsertLosesRace(r) == /\ pc[r] = "insert"
                      /\ Stored(Canonical[address[r]]) # {}
                      /\ Goto(r, "refetch", None)
                      /\ UNCHANGED <<recordVars, historyVars, spent>>

\* Faulty variant: welcomes whoever is registered by now.
RefetchWelcomes(r) ==
  /\ pc[r] = "refetch"
  /\ \/ Stored(Key(r)) = {} /\ Goto(r, "500", None)
     \/ \E k \in Stored(Key(r)) : Goto(r, "welcome", k)
  /\ UNCHANGED <<recordVars, historyVars, spent>>

\* The winner of the race, if it is still there.
Refetch(r) ==
  /\ pc[r] = "refetch"
  /\ \/ Stored(Key(r)) = {} /\ Goto(r, "500", None)
     \/ \E k \in Stored(Key(r)) : Goto(r, "200", k)
  /\ UNCHANGED <<recordVars, historyVars, spent>>

\* A database call throws; an insert may have been carried out all the same.
CallThrows(r) == /\ pc[r] \in {"find", "insert", "refetch"}
                 /\ Spend("db")
                 /\ Goto(r, "500", None)
                 /\ \/ UNCHANGED recordVars
                    \/ pc[r] = "insert" /\ AddRecord(r)
                 /\ UNCHANGED historyVars

WelcomeQueued(k) == welcomes' = [welcomes EXCEPT ![k] = @ + 1]

Welcome(r) == /\ pc[r] = "welcome"
              /\ WelcomeQueued(found[r])
              /\ Goto(r, "201", found[r])
              /\ UNCHANGED <<recordVars, patched, spent>>

\* createAndQueue returns queueError, which is logged: the mail was not
\* published, or it was and saving that once failed.
WelcomeNotQueued(r) == /\ pc[r] = "welcome"
                       /\ \/ Spend("broker") /\ UNCHANGED welcomes
                          \/ Spend("db") /\ WelcomeQueued(found[r])
                       /\ Goto(r, "201", found[r])
                       /\ UNCHANGED <<recordVars, patched>>

\* createAndQueue throws: it cannot store the notification, or save it in the
\* end, which also fails when a client has deleted it meanwhile.  The error is
\* not a duplicate key, so it is thrown on; the recipient stays, and the mail
\* may be on its way.
WelcomeThrows(r) == /\ pc[r] = "welcome"
                    /\ Spend("db") \/ Spend("unsent")
                    /\ WelcomeQueued(found[r]) \/ UNCHANGED welcomes
                    /\ Goto(r, "500", found[r])
                    /\ UNCHANGED <<recordVars, patched>>

Crash(r) == /\ pc[r] # "new"
            /\ ~Answered(r)
            /\ Spend("crash")
            /\ Goto(r, "crashed", None)
            /\ UNCHANGED <<recordVars, historyVars>>

Delete(k) == /\ email[k] # None
             /\ Spend("delete")
             /\ email' = [email EXCEPT ![k] = None]
             /\ profile' = [profile EXCEPT ![k] = NoProfile]
             /\ UNCHANGED <<created, pc, address, found, historyVars>>

\* One call to the database that sets, or unsets, the fields it was given.
Write(k, fields) ==
  /\ email[k] # None
  /\ Spend("patch")
  /\ profile' = [profile EXCEPT ![k] = [f \in Fields |-> IF f \in fields
                                                         THEN "patch" ELSE @[f]]]
  /\ patched' = [patched EXCEPT ![k] = @ \union fields]
  /\ UNCHANGED <<email, created, pc, address, found, welcomes>>

\* PATCH /:id with at least one valid field; other input is refused before
\* the database is asked.
UpdateRecipient(k) == \E fields \in SUBSET Updatable :
                        fields # {} /\ Write(k, fields)

UpdatePushToken(k) == Write(k, {"pushToken"})

-----------------------------------------------------------------------------
Init == /\ email = [k \in Records |-> None]
        /\ profile = [k \in Records |-> NoProfile]
        /\ created = 0
        /\ pc = [r \in Requests |-> "new"]
        /\ address = [r \in Requests |-> None]
        /\ found = [r \in Requests |-> None]
        /\ welcomes = [k \in Records |-> 0]
        /\ patched = [k \in Records |-> {}]
        /\ spent = [e \in Events |-> 0]

RequestStep(r) == \/ Find(r) \/ Insert(r) \/ InsertLosesRace(r) \/ Refetch(r)
                  \/ CallThrows(r)
                  \/ Welcome(r) \/ WelcomeNotQueued(r) \/ WelcomeThrows(r)

Next == \/ \E r \in Requests : \/ \E s \in Spellings : Ask(r, s)
                               \/ RequestStep(r) \/ Crash(r)
        \/ \E k \in Records : Delete(k) \/ UpdateRecipient(k) \/ UpdatePushToken(k)

Safe == Init /\ [][Next]_vars

\* Requests go on unless their process dies.
Spec == Safe /\ \A r \in Requests : WF_vars(RequestStep(r))

-----------------------------------------------------------------------------
(* Properties. *)

Without(events) == \A e \in events : spent[e] = 0

\* Every variable has its type; an address is stored as the schema writes it.
TypeOK == /\ email \in [Records -> Emails \union {None}]
          /\ profile \in [Records -> [Fields -> Requests \union {"patch", None}]]
          /\ created \in 0..MaxRecords
          /\ pc \in [Requests -> Steps]
          /\ address \in [Requests -> Spellings \union {None}]
          /\ found \in [Requests -> 1..created \union {None}]
          /\ welcomes \in [Records -> Nat]
          /\ patched \in [Records -> SUBSET Fields]
          /\ spent \in [Events -> Nat]

\* A recipient is welcomed at most once, however many requests race for the
\* address and whatever fails (findOrCreateAndWelcome).
WelcomedOnce == \A k \in Records : welcomes[k] <= 1

\* Two clients that register one address get the same recipient, whichever of
\* them created it; only a deletion in between gives them two, of which one is
\* gone.  Losing the race is no error: a 500 takes a failing call, a deleted
\* recipient, or a welcome notification that was deleted before it was saved
\* as queued (the 11000 branch, which looks the winner up again).
SameRecipient ==
  /\ \A r, s \in {q \in Requests : pc[q] \in {"200", "201"}} :
       Canonical[address[r]] = Canonical[address[s]] /\ found[r] # found[s] =>
         ~Without({"delete"}) /\ None \in {email[found[r]], email[found[s]]}
  /\ Without({"delete", "db", "unsent"}) => \A r \in Requests : pc[r] # "500"

\* Registering an address again never changes the profile of its recipient:
\* what no PATCH has written is as one POST sent it, and what a PATCH has
\* written stays, however requests and updates interleave.
ProfileKeepsUpdates ==
  \A k \in Records :
    email[k] # None =>
      /\ \A f \in patched[k] : profile[k][f] = "patch"
      /\ \E r \in Requests : \A f \in Fields \ patched[k] : profile[k][f] = r

\* With nothing failing a recipient that was created is welcomed in the end,
\* though it may be deleted meanwhile.
NewcomersWelcomed ==
  \A k \in Records :
    k <= created ~> \/ welcomes[k] = 1
                     \/ ~Without({"db", "broker", "unsent", "crash"})
=============================================================================
