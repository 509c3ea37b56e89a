---------------------------- MODULE ReportsProofs ----------------------------
(***************************************************************************)
(* For every number of records, channels and pages: the rates of a report  *)
(* stay within range, its figures agree as far as its queries can, and who *)
(* walks a list sees every record once unless one is created or deleted.   *)
(***************************************************************************)
EXTENDS Reports, FiniteSetTheorems, TLAPS

-----------------------------------------------------------------------------
(* The inductive invariant. *)

Results == [status   : [Statuses -> Nat],
            latency  : BOOLEAN,
            retry    : [total : Nat, retried : Nat],
            total    : Nat,
            hours    : Nat,
            channels : [Channels -> Nat],
            success  : [Channels -> [total : Nat, sent : Nat]],
            find     : SUBSET Records,
            count    : 0..MaxRecords]

\* Only the queries of the report that was asked for are open.
OpenTyped == IF asked = "none" THEN open = {} ELSE open \subseteq QueriesOf[asked]

TypeInv == TypeOK /\ OpenTyped /\ got \in Results

\* A record that says "sent" has its latency.
SentIsTimed == \A k \in Existing : store[k].status = "sent" => store[k].timed

\* Part and whole of a rate that comes from one query.
PartsInv == /\ got.retry.retried <= got.retry.total
            /\ \A c \in Channels : got.success[c].sent <= got.success[c].total

\* The answer is about the records in M, of which those in D were sent.
StatsAgree(M, D) ==
  /\ "status" \notin open =>
       /\ got.status["sent"] <= Cardinality(M)
       /\ got.status["sent"] + got.status["queued"] + got.status["failed"]
            + got.status["processing"] + got.status["pending"] = Cardinality(M)
       /\ Unless({"changed"}) => got.status["sent"] = Cardinality(D)
  /\ "total" \notin open => got.total = Cardinality(M)
  /\ "retry" \notin open => got.retry.total = Cardinality(M)
  /\ "latency" \notin open /\ Unless({"changed"}) => (got.latency <=> D # {})

AnalyticsAgree(M) ==
  /\ "hours" \notin open => got.hours = Cardinality(M \intersect Recent)
  /\ "channels" \notin open => got.channels = ChannelCounts(M)
  /\ "success" \notin open =>
       \A c \in Channels : got.success[c].total = Cardinality(OnChannel(M, c))

Snapshot(M, D) ==
  /\ open # {} => /\ M = Matching
                  /\ Unless({"changed"}) => D = Sent(Matching)
  /\ asked = "stats" => StatsAgree(M, D)
  /\ asked = "analytics" => AnalyticsAgree(M)

SnapshotInv ==
  Unless({"created", "deleted"}) =>
    \E M, D \in SUBSET Records : D \subseteq M /\ Snapshot(M, D)

\* The positions the pages found so far have covered.
Covered == IF "find" \in open THEN (page - 1) * Limit ELSE page * Limit

\* Creations only move records to later positions, deletions to earlier ones.
WalkInv ==
  asked = "page" =>
    /\ Unless({"created"}) =>
         \A k \in Records : /\ listed[k] <= 1
                            /\ k \in Existing /\ listed[k] = 1
                                 => Position(k) <= Covered
    /\ Unless({"deleted"}) =>
         /\ from \subseteq Existing
         /\ \A k \in from : listed[k] = 0 => Position(k) > Covered
    /\ Unless({"deleted", "createdAfterCount"}) =>
         /\ open = {"find"} => got.count = Cardinality(Existing)
         /\ open = {} => \A k \in from : listed[k] = 0 => got.count > page * Limit

-----------------------------------------------------------------------------
(* Lemmas about numbers. *)

LEMMA DivFacts ==
  ASSUME NEW a \in Nat, NEW b \in Nat \ {0}
  PROVE  /\ a \div b \in Nat
         /\ b * (a \div b) <= a
         /\ a < b * (a \div b) + b
BY Z3

\* A part that does not exceed the whole is at most 100 %.
LEMMA RateInRange ==
  ASSUME NEW part \in Nat, NEW whole \in Nat, part <= whole
  PROVE  Rate(part, whole) \in 0..1000
<1>1. CASE whole = 0
  BY <1>1 DEF Rate
<1>2. CASE whole > 0
  <2> DEFINE a == 2000 * part + whole
             b == 2 * whole
             r == a \div b
  <2>1. a \in Nat /\ b \in Nat \ {0} /\ a < 1001 * b
    BY <1>2
  <2>2. r \in Nat /\ b * r <= a
    <3> HIDE DEF a, b
    <3> QED
      BY <2>1, DivFacts
  <2>3. r <= 1000
    <3> HIDE DEF a, b, r
    <3>1. SUFFICES ASSUME r >= 1001 PROVE FALSE
      BY <2>2
    <3>2. PICK d \in Nat : r = 1001 + d
      <4>1. r - 1001 \in Nat /\ r = 1001 + (r - 1001)
        BY <2>2, <3>1
      <4> QED
        BY <4>1
    <3>3. b * r = 1001 * b + b * d /\ b * d \in Nat
      BY <2>1, <3>2, Z3
    <3>4. b * r \in Nat
      BY <2>1, <2>2
    <3> QED
      BY <2>1, <2>2, <3>3, <3>4
  <2>4. Rate(part, whole) = r
    BY <1>2 DEF Rate
  <2> QED
    BY <2>2, <2>3, <2>4
<1> QED
  BY <1>1, <1>2

\* There are no more pages than records.
LEMMA PagesFewerThanRecords ==
  ASSUME NEW c \in Nat
  PROVE  (c + Limit - 1) \div Limit \in 0..c
<1> DEFINE q == (c + Limit - 1) \div Limit
<1>1. Limit \in Nat \ {0} /\ c + Limit - 1 \in Nat
  BY ParametersAssumption
<1>2. q \in Nat /\ Limit * q <= c + Limit - 1
  BY <1>1, DivFacts
<1>3. q <= c
  <2> HIDE DEF q
  <2>1. SUFFICES ASSUME q >= c + 1 PROVE FALSE
    BY <1>2
  <2>2. PICK d \in Nat : q = c + 1 + d
    <3>1. q - c - 1 \in Nat /\ q = c + 1 + (q - c - 1)
      BY <1>2, <2>1
    <3> QED
      BY <3>1
  <2>3. Limit * q = Limit + Limit * (c + d)
    BY <1>1, <2>2, Z3
  <2>4. Limit * (c + d) >= c + d /\ Limit * (c + d) \in Nat
    BY <1>1, Z3
  <2> QED
    BY <1>1, <1>2, <2>3, <2>4
<1> QED
  BY <1>2, <1>3

\* A record behind the pages up to p is on another page.
LEMMA MorePages ==
  ASSUME NEW c \in Nat, NEW p \in Nat, c > p * Limit
  PROVE  p < (c + Limit - 1) \div Limit
<1> DEFINE q == (c + Limit - 1) \div Limit
<1>1. Limit \in Nat \ {0} /\ c + Limit - 1 \in Nat /\ p * Limit \in Nat
  BY ParametersAssumption, Z3
<1>2. q \in Nat /\ c + Limit - 1 < Limit * q + Limit
  BY <1>1, DivFacts
<1>3. Limit * q \in Nat
  BY <1>1, <1>2, Z3
<1>4. p * Limit < Limit * q
  BY <1>1, <1>2, <1>3
<1>5. p < q
  <2> HIDE DEF q
  <2>1. SUFFICES ASSUME q <= p PROVE FALSE
    BY <1>2
  <2>2. PICK d \in Nat : p = q + d
    <3>1. p - q \in Nat /\ p = q + (p - q)
      BY <1>2, <2>1
    <3> QED
      BY <3>1
  <2>3. p * Limit = Limit * q + d * Limit /\ d * Limit \in Nat
    BY <1>1, <1>2, <2>2, Z3
  <2> QED
    BY <1>3, <1>4, <2>3
<1> QED
  BY <1>5

\* The next page begins where this one ends.
LEMMA PageFacts ==
  ASSUME NEW p \in Nat \ {0}
  PROVE  /\ (p - 1) * Limit \in Nat
         /\ p * Limit \in Nat
         /\ (p - 1) * Limit + Limit = p * Limit
         /\ (p - 1) * Limit <= p * Limit
         /\ (p + 1 - 1) * Limit = p * Limit
         /\ (1 - 1) * Limit = 0
<1>1. Limit \in Nat
  BY ParametersAssumption
<1>2. PICK d \in Nat : p = d + 1
  <2>1. p - 1 \in Nat /\ p = (p - 1) + 1
    OBVIOUS
  <2> QED
    BY <2>1
<1>3. /\ p - 1 = d
      /\ d * Limit \in Nat
      /\ (d + 1) * Limit = d * Limit + Limit
  BY <1>1, <1>2, Z3
<1> QED
  BY <1>1, <1>2, <1>3, Z3

-----------------------------------------------------------------------------
(* Lemmas about sets of records. *)

LEMMA RecordsFinite ==
  /\ IsFiniteSet(Records)
  /\ \A S \in SUBSET Records : /\ IsFiniteSet(S)
                               /\ Cardinality(S) \in 0..MaxRecords
<1>1. MaxRecords \in Nat
  BY ParametersAssumption
<1>2. IsFiniteSet(Records) /\ Cardinality(Records) = MaxRecords
  BY <1>1, FS_Interval DEF Records
<1>3. ASSUME NEW S \in SUBSET Records
      PROVE  IsFiniteSet(S) /\ Cardinality(S) \in 0..MaxRecords
  BY <1>1, <1>2, FS_Subset, FS_CardinalityType
<1> QED
  BY <1>2, <1>3

\* A part of a set of records is smaller than the set.
LEMMA Larger ==
  ASSUME NEW S \in SUBSET Records, NEW T \in SUBSET S
  PROVE  /\ Cardinality(T) <= Cardinality(S)
         /\ Cardinality(T) \in Nat
         /\ Cardinality(S) \in Nat
         /\ T # S => Cardinality(T) < Cardinality(S)
<1>1. T \in SUBSET Records
  OBVIOUS
<1>2. IsFiniteSet(S) /\ Cardinality(S) \in Nat /\ Cardinality(T) \in Nat
  BY <1>1, RecordsFinite, ParametersAssumption
<1> QED
  BY <1>2, FS_Subset

\* Two disjoint parts make the whole.
LEMMA TwoParts ==
  ASSUME NEW S \in SUBSET Records, NEW A \in SUBSET S
  PROVE  Cardinality(S) = Cardinality(A) + Cardinality(S \ A)
<1>1. IsFiniteSet(S) /\ S \cap A = A
  BY RecordsFinite
<1>2. Cardinality(S \ A) = Cardinality(S) - Cardinality(A)
  BY <1>1, FS_Difference
<1> QED
  BY <1>2, Larger

\* Every record has one status.
LEMMA StatusSum ==
  ASSUME NEW S \in SUBSET Records, NEW st,
         \A k \in S : st[k] \in Statuses
  PROVE  Cardinality({k \in S : st[k] = "sent"})
           + Cardinality({k \in S : st[k] = "queued"})
           + Cardinality({k \in S : st[k] = "failed"})
           + Cardinality({k \in S : st[k] = "processing"})
           + Cardinality({k \in S : st[k] = "pending"}) = Cardinality(S)
<1> DEFINE With(s) == {k \in S : st[k] = s}
           s1 == S \ With("sent")
           s2 == s1 \ With("queued")
           s3 == s2 \ With("failed")
           s4 == s3 \ With("processing")
<1>1. /\ With("sent") \subseteq S
      /\ With("queued") \subseteq s1
      /\ With("failed") \subseteq s2
      /\ With("processing") \subseteq s3
      /\ With("pending") = s4
  BY DEF Statuses
<1>2. s1 \subseteq S /\ s2 \subseteq S /\ s3 \subseteq S /\ s4 \subseteq S
  OBVIOUS
<1> HIDE DEF s1, s2, s3, s4, With
<1>3. Cardinality(S) = Cardinality(With("sent")) + Cardinality(s1)
  BY <1>1, TwoParts DEF s1
<1>4. Cardinality(s1) = Cardinality(With("queued")) + Cardinality(s2)
  BY <1>1, <1>2, TwoParts DEF s2
<1>5. Cardinality(s2) = Cardinality(With("failed")) + Cardinality(s3)
  BY <1>1, <1>2, TwoParts DEF s3
<1>6. Cardinality(s3) = Cardinality(With("processing")) + Cardinality(s4)
  BY <1>1, <1>2, TwoParts DEF s4
<1>7. \A s : Cardinality(With(s)) \in Nat
  <2> TAKE s
  <2>1. With(s) \in SUBSET S
    BY DEF With
  <2> QED
    BY <2>1, Larger
<1>8. Cardinality(With("sent")) + Cardinality(With("queued"))
        + Cardinality(With("failed")) + Cardinality(With("processing"))
        + Cardinality(With("pending")) = Cardinality(S)
  <2>1. Cardinality(s4) = Cardinality(With("pending"))
    BY <1>1
  <2>2. /\ Cardinality(With("sent")) \in Nat
        /\ Cardinality(With("queued")) \in Nat
        /\ Cardinality(With("failed")) \in Nat
        /\ Cardinality(With("processing")) \in Nat
        /\ Cardinality(With("pending")) \in Nat
    BY <1>7
  <2> QED
    BY <2>1, <2>2, <1>3, <1>4, <1>5, <1>6
<1> QED
  BY <1>8 DEF With

\* Among the records of a set the later one has more that are not later.
LEMMA RankGrows ==
  ASSUME NEW S \in SUBSET Records, NEW j \in S, NEW k \in S, j < k
  PROVE  Cardinality({i \in S : i <= j}) # Cardinality({i \in S : i <= k})
<1> DEFINE upTo(n) == {i \in S : i <= n}
<1>1. \A i \in S : i \in Int
  BY ParametersAssumption DEF Records
<1>2. upTo(j) \subseteq upTo(k) /\ k \in upTo(k) /\ k \notin upTo(j)
  BY <1>1
<1>3. upTo(k) \in SUBSET Records
  OBVIOUS
<1> HIDE DEF upTo
<1>4. Cardinality(upTo(j)) < Cardinality(upTo(k))
  BY <1>2, <1>3, Larger
<1>5. Cardinality(upTo(j)) \in Nat /\ Cardinality(upTo(k)) \in Nat
  BY <1>2, <1>3, Larger
<1>6. Cardinality(upTo(j)) # Cardinality(upTo(k))
  BY <1>4, <1>5
<1> QED
  BY <1>6 DEF upTo

\* The counts of the channels make up the records: the n-th record of a
\* channel is the n-th one counted for it.
LEMMA ChannelsSum ==
  ASSUME NEW S \in SUBSET Records
  PROVE  /\ Cardinality(S) <= Summed(ChannelCounts(S))
         /\ Summed(ChannelCounts(S)) \in Nat
<1> DEFINE counts == ChannelCounts(S)
           of(c) == {c} \X (1..counts[c])
           parts == {of(c) : c \in Channels}
           rank(k) == Cardinality({i \in OnChannel(S, ChannelOf[k]) : i <= k})
           f == [k \in S |-> <<ChannelOf[k], rank(k)>>]
<1>1. ASSUME NEW k \in S
      PROVE  ChannelOf[k] \in Channels /\ k \in OnChannel(S, ChannelOf[k])
  BY ParametersAssumption DEF OnChannel
<1>2. ASSUME NEW c
      PROVE  OnChannel(S, c) \in SUBSET Records
  BY DEF OnChannel
<1>3. ASSUME NEW c \in Channels
      PROVE  counts[c] = Cardinality(OnChannel(S, c)) /\ counts[c] \in Nat
  BY <1>2, RecordsFinite, ParametersAssumption DEF ChannelCounts
<1>4. IsFiniteSet(UNION parts)
  <2>1. IsFiniteSet(parts)
    <3> DEFINE g == [c \in Channels |-> of(c)]
    <3>1. g \in Surjection(Channels, parts)
      BY DEF Surjection
    <3> HIDE DEF g, parts
    <3> QED
      BY <3>1, ParametersAssumption, FS_Surjection
  <2>2. ASSUME NEW c \in Channels PROVE IsFiniteSet(of(c))
    <3>1. counts[c] \in Int /\ 1 \in Int
      BY <1>3
    <3> HIDE DEF counts
    <3> QED
      BY <3>1, FS_Interval, FS_Singleton, FS_Product
  <2>3. \A T \in parts : IsFiniteSet(T)
    BY <2>2
  <2> QED
    BY <2>1, <2>3, FS_UNION
<1>5. ASSUME NEW k \in S
      PROVE  rank(k) \in 1..counts[ChannelOf[k]]
  <2> DEFINE C == OnChannel(S, ChannelOf[k])
             R == {i \in C : i <= k}
  <2>1. C \in SUBSET Records /\ R \in SUBSET C
    BY <1>2
  <2>2. k \in R
    BY <1>1, ParametersAssumption DEF Records
  <2>3. Cardinality(R) \in Nat /\ Cardinality(R) <= Cardinality(C)
    BY <2>1, Larger
  <2>4. Cardinality(R) # 0
    <3>1. IsFiniteSet(R)
      BY <2>1, RecordsFinite
    <3> QED
      BY <2>2, <3>1, FS_EmptySet
  <2>5. counts[ChannelOf[k]] = Cardinality(C) /\ counts[ChannelOf[k]] \in Nat
    BY <1>1, <1>3
  <2>6. rank(k) = Cardinality(R)
    OBVIOUS
  <2> HIDE DEF C, R, counts, rank
  <2> QED
    BY <2>3, <2>4, <2>5, <2>6
<1>6. ASSUME NEW k \in S
      PROVE  <<ChannelOf[k], rank(k)>> \in UNION parts
  <2>1. ChannelOf[k] \in Channels
    BY <1>1
  <2>2. <<ChannelOf[k], rank(k)>> \in of(ChannelOf[k])
    <3> HIDE DEF counts, rank
    <3> QED
      BY <1>5
  <2>3. of(ChannelOf[k]) \in parts
    BY <2>1
  <2> QED
    BY <2>2, <2>3
<1>7. ASSUME NEW j \in S, NEW k \in S, j # k
      PROVE  <<ChannelOf[j], rank(j)>> # <<ChannelOf[k], rank(k)>>
  <2>1. SUFFICES ASSUME ChannelOf[j] = ChannelOf[k]
                 PROVE  rank(j) # rank(k)
    OBVIOUS
  <2> DEFINE C == OnChannel(S, ChannelOf[k])
  <2>2. C \in SUBSET Records /\ j \in C /\ k \in C
    BY <1>1, <1>2, <2>1
  <2>3. j \in Int /\ k \in Int
    BY ParametersAssumption DEF Records
  <2>4. /\ rank(j) = Cardinality({i \in C : i <= j})
        /\ rank(k) = Cardinality({i \in C : i <= k})
    BY <2>1
  <2> HIDE DEF C, rank
  <2>5. CASE j < k
    BY <2>2, <2>4, <2>5, RankGrows
  <2>6. CASE k < j
    BY <2>2, <2>4, <2>6, RankGrows
  <2> QED
    BY <1>7, <2>3, <2>5, <2>6
<1>8. f \in Injection(S, UNION parts)
  <2> HIDE DEF rank, parts
  <2>1. f \in [S -> UNION parts]
    BY <1>6
  <2>2. \A j, k \in S : f[j] = f[k] => j = k
    BY <1>7
  <2> QED
    BY <2>1, <2>2 DEF Injection, IsInjective
<1>9. Cardinality(S) <= Cardinality(UNION parts)
  <2> HIDE DEF f, parts
  <2> QED
    BY <1>4, <1>8, FS_Injection
<1>10. Summed(counts) = Cardinality(UNION parts)
  BY DEF Summed
<1>11. Cardinality(UNION parts) \in Nat
  BY <1>4, FS_CardinalityType
<1> QED
  BY <1>9, <1>10, <1>11

-----------------------------------------------------------------------------
(* What the queries find. *)

LEMMA ExistingFacts ==
  ASSUME TypeOK
  PROVE  /\ Existing \in SUBSET Records
         /\ Matching \in SUBSET Existing
         /\ Matching \in SUBSET Records
<1>1. 1..created \subseteq Records
  BY ParametersAssumption DEF TypeOK, Records
<1> QED
  BY <1>1 DEF TypeOK, Matching

LEMMA PositionFacts ==
  ASSUME TypeOK, NEW k \in Existing
  PROVE  Position(k) \in 1..Cardinality(Existing)
<1> DEFINE P == {j \in Existing : j >= k}
<1>1. Existing \in SUBSET Records /\ P \in SUBSET Existing
  BY ExistingFacts
<1>2. k \in P
  BY <1>1, ParametersAssumption DEF Records
<1>3. /\ Cardinality(P) \in Nat
      /\ Cardinality(Existing) \in Nat
      /\ Cardinality(P) <= Cardinality(Existing)
  BY <1>1, Larger
<1>4. IsFiniteSet(P)
  BY <1>1, RecordsFinite
<1>5. Cardinality(P) # 0
  BY <1>2, <1>4, FS_EmptySet
<1> QED
  BY <1>3, <1>5 DEF Position

LEMMA EvaluateTyped ==
  ASSUME TypeOK
  PROVE  /\ StatusCounts(Matching) \in [Statuses -> Nat]
         /\ LatencyKnown(Matching) \in BOOLEAN
         /\ Retried(Matching) \in [total : Nat, retried : Nat]
         /\ Cardinality(Matching) \in Nat
         /\ Cardinality(Matching \intersect Recent) \in Nat
         /\ ChannelCounts(Matching) \in [Channels -> Nat]
         /\ ChannelSuccess(Matching) \in [Channels -> [total : Nat, sent : Nat]]
         /\ OnPage \in SUBSET Records
         /\ Cardinality(Existing) \in 0..MaxRecords
<1>1. Existing \in SUBSET Records /\ Matching \in SUBSET Records
  BY ExistingFacts
<1>2. \A S \in SUBSET Records : Cardinality(S) \in Nat
  BY RecordsFinite, ParametersAssumption
<1>3. StatusCounts(Matching) \in [Statuses -> Nat]
  <2>1. \A st : Cardinality({k \in Matching : store[k].status = st}) \in Nat
    <3> TAKE st
    <3>1. {k \in Matching : store[k].status = st} \in SUBSET Records
      BY <1>1
    <3> QED
      BY <3>1, <1>2
  <2> QED
    BY <2>1 DEF StatusCounts
<1>4. LatencyKnown(Matching) \in BOOLEAN
  BY DEF LatencyKnown
<1>5. Retried(Matching) \in [total : Nat, retried : Nat]
  <2>1. {k \in Matching : store[k].attempts > 1} \in SUBSET Records
    BY <1>1
  <2>2. /\ Cardinality(Matching) \in Nat
        /\ Cardinality({k \in Matching : store[k].attempts > 1}) \in Nat
    BY <1>1, <1>2, <2>1
  <2> QED
    BY <2>2 DEF Retried
<1>6. /\ Cardinality(Matching) \in Nat
      /\ Cardinality(Matching \intersect Recent) \in Nat
  BY <1>1, <1>2
<1>7. \A c : /\ Cardinality(OnChannel(Matching, c)) \in Nat
             /\ Cardinality(Sent(OnChannel(Matching, c))) \in Nat
  <2> TAKE c
  <2>1. /\ OnChannel(Matching, c) \in SUBSET Records
        /\ Sent(OnChannel(Matching, c)) \in SUBSET Records
    BY <1>1 DEF OnChannel, Sent
  <2> QED
    BY <2>1, <1>2
<1>8. ChannelCounts(Matching) \in [Channels -> Nat]
  BY <1>7 DEF ChannelCounts
<1>9. ChannelSuccess(Matching) \in [Channels -> [total : Nat, sent : Nat]]
  BY <1>7 DEF ChannelSuccess
<1>10. OnPage \in SUBSET Records
  BY <1>1 DEF OnPage
<1>11. Cardinality(Existing) \in 0..MaxRecords
  BY <1>1, RecordsFinite
<1> QED
  BY <1>3, <1>4, <1>5, <1>6, <1>8, <1>9, <1>10, <1>11

\* The part that a query counts is part of the whole that it counts.
LEMMA PartOfWhole ==
  ASSUME TypeOK
  PROVE  /\ Retried(Matching).retried <= Retried(Matching).total
         /\ \A c \in Channels : ChannelSuccess(Matching)[c].sent
                                  <= ChannelSuccess(Matching)[c].total
<1>1. Matching \in SUBSET Records
  BY ExistingFacts
<1>2. {k \in Matching : store[k].attempts > 1} \in SUBSET Matching
  OBVIOUS
<1>3. Cardinality({k \in Matching : store[k].attempts > 1})
        <= Cardinality(Matching)
  BY <1>1, <1>2, Larger
<1>4. ASSUME NEW c \in Channels
      PROVE  Cardinality(Sent(OnChannel(Matching, c)))
               <= Cardinality(OnChannel(Matching, c))
  <2>1. /\ OnChannel(Matching, c) \in SUBSET Records
        /\ Sent(OnChannel(Matching, c)) \in SUBSET OnChannel(Matching, c)
    BY <1>1 DEF OnChannel, Sent
  <2> QED
    BY <2>1, Larger
<1> QED
  BY <1>3, <1>4 DEF Retried, ChannelSuccess

\* The numbers of records with each status are the number of records.
LEMMA StatusCountsSum ==
  ASSUME TypeOK
  PROVE  LET n == StatusCounts(Matching)
         IN  /\ n["sent"] + n["queued"] + n["failed"] + n["processing"]
                  + n["pending"] = Cardinality(Matching)
             /\ n["sent"] <= Cardinality(Matching)
             /\ n["sent"] = Cardinality(Sent(Matching))
<1> DEFINE n == StatusCounts(Matching)
           st == [k \in Matching |-> store[k].status]
           With(s) == {k \in Matching : store[k].status = s}
<1>1. Matching \in SUBSET Records /\ Matching \in SUBSET Existing
  BY ExistingFacts
<1>2. \A k \in Matching : st[k] \in Statuses
  BY <1>1 DEF TypeOK, Documents
<1>3. Cardinality({k \in Matching : st[k] = "sent"})
        + Cardinality({k \in Matching : st[k] = "queued"})
        + Cardinality({k \in Matching : st[k] = "failed"})
        + Cardinality({k \in Matching : st[k] = "processing"})
        + Cardinality({k \in Matching : st[k] = "pending"})
      = Cardinality(Matching)
  <2> HIDE DEF st
  <2> QED
    BY <1>1, <1>2, StatusSum
<1>4. \A s : {k \in Matching : st[k] = s} = With(s)
  OBVIOUS
<1>5. \A s \in Statuses : n[s] = Cardinality(With(s))
  BY DEF StatusCounts
<1>6. With("sent") = Sent(Matching) /\ With("sent") \in SUBSET Matching
  BY DEF Sent
<1>7. Cardinality(With("sent")) <= Cardinality(Matching)
  BY <1>1, <1>6, Larger
<1>8. {"sent", "queued", "failed", "processing", "pending"} \subseteq Statuses
  BY DEF Statuses
<1> HIDE DEF n, st, With
<1>9. /\ n["sent"] = Cardinality(With("sent"))
      /\ n["queued"] = Cardinality(With("queued"))
      /\ n["failed"] = Cardinality(With("failed"))
      /\ n["processing"] = Cardinality(With("processing"))
      /\ n["pending"] = Cardinality(With("pending"))
  BY <1>5, <1>8
<1> QED
  BY <1>3, <1>4, <1>6, <1>7, <1>9 DEF n

-----------------------------------------------------------------------------
(* What the steps do. *)

Queries == {"status", "latency", "retry", "total", "hours", "channels",
            "success", "find", "count"}

LEMMA QueriesFacts ==
  /\ Kinds = {"stats", "analytics", "page"}
  /\ QueriesOf["stats"] = {"status", "latency", "retry", "total"}
  /\ QueriesOf["analytics"] = {"hours", "channels", "success"}
  /\ QueriesOf["page"] = {"find", "count"}
  /\ UNION {QueriesOf[kind] : kind \in Kinds} = Queries
<1>1. Kinds = {"stats", "analytics", "page"}
  BY DEF Kinds, QueriesOf
<1>2. /\ QueriesOf["stats"] = {"status", "latency", "retry", "total"}
      /\ QueriesOf["analytics"] = {"hours", "channels", "success"}
      /\ QueriesOf["page"] = {"find", "count"}
  BY DEF QueriesOf
<1>3. {QueriesOf[kind] : kind \in Kinds}
        = {QueriesOf["stats"], QueriesOf["analytics"], QueriesOf["page"]}
  BY <1>1
<1>4. UNION {QueriesOf[kind] : kind \in Kinds}
        = QueriesOf["stats"] \union QueriesOf["analytics"] \union QueriesOf["page"]
  BY <1>3
<1> QED
  BY <1>1, <1>2, <1>4 DEF Queries

\* A saved record that says "sent" has its latency, too.
Timed(doc) == doc.status = "sent" => doc.timed

\* Whatever a worker or the API saves, one record is replaced.
LEMMA SavesChange ==
  ASSUME TypeOK, SentIsTimed, NEW k \in Existing,
         SaveQueued(k) \/ SaveProcessing(k) \/ SaveSent(k) \/ SaveFailed(k)
  PROVE  \E doc \in Documents : Timed(doc) /\ Change(k, doc)
<1>1. store[k] \in Documents
  BY DEF TypeOK
<1>2. CASE SaveQueued(k)
  <2> DEFINE doc == [store[k] EXCEPT !.status = "queued"]
  <2>1. doc \in Documents /\ Timed(doc)
    BY <1>1 DEF Documents, Statuses, Timed
  <2>2. Change(k, doc)
    BY <1>2 DEF SaveQueued
  <2> QED
    BY <2>1, <2>2
<1>3. CASE SaveProcessing(k)
  <2> DEFINE doc == [store[k] EXCEPT !.status = "processing", !.attempts = @ + 1]
  <2>1. store[k].attempts \in 0..MaxAttempts /\ store[k].attempts < MaxAttempts
    BY <1>1, <1>3 DEF Documents, SaveProcessing
  <2>2. store[k].attempts + 1 \in 0..MaxAttempts
    BY <2>1 DEF MaxAttempts
  <2>3. doc \in Documents /\ Timed(doc)
    BY <1>1, <2>2 DEF Documents, Statuses, Timed
  <2>4. Change(k, doc)
    BY <1>3 DEF SaveProcessing
  <2> QED
    BY <2>3, <2>4
<1>4. CASE SaveSent(k)
  <2> DEFINE doc == [store[k] EXCEPT !.status = "sent", !.timed = TRUE]
  <2>1. doc \in Documents /\ Timed(doc)
    BY <1>1 DEF Documents, Statuses, Timed
  <2>2. Change(k, doc)
    BY <1>4 DEF SaveSent
  <2> QED
    BY <2>1, <2>2
<1>5. CASE SaveFailed(k)
  <2> DEFINE doc == [store[k] EXCEPT !.status = "failed"]
  <2>1. doc \in Documents /\ Timed(doc)
    BY <1>1 DEF Documents, Statuses, Timed
  <2>2. Change(k, doc)
    BY <1>5 DEF SaveFailed
  <2> QED
    BY <2>1, <2>2
<1> QED
  BY <1>2, <1>3, <1>4, <1>5

LEMMA StepCases ==
  ASSUME TypeOK, SentIsTimed, [Next]_vars
  PROVE  \/ Create
         \/ \E k \in Existing, doc \in Documents : Timed(doc) /\ Change(k, doc)
         \/ \E k \in Existing : Delete(k)
         \/ \E kind \in Kinds, o \in Recipients \union {Anybody} : Ask(kind, o)
         \/ \E q \in open : Query(q)
         \/ QueryFails
         \/ NextPage
         \/ UNCHANGED vars
<1>1. CASE ChangeStep
  BY <1>1, SavesChange DEF ChangeStep
<1>2. CASE ReportStep
  BY <1>2 DEF ReportStep
<1> QED
  BY <1>1, <1>2 DEF Next

LEMMA CreateEffect ==
  ASSUME TypeOK, Create
  PROVE  /\ Existing' = Existing \union {created + 1}
         /\ created + 1 \notin Existing
         /\ created' = created + 1
         /\ created' \in 0..MaxRecords
         /\ \A k \in Existing : store'[k] = store[k]
         /\ store'[created + 1] = [status |-> "pending", attempts |-> 0,
                                   timed |-> FALSE]
         /\ UNCHANGED <<asked, owner, open, got, page, listed, from, spent>>
<1>1. created \in Nat /\ MaxRecords \in Nat /\ Existing \subseteq 1..created
  BY ParametersAssumption DEF TypeOK
<1>2. created + 1 \notin Existing
  BY <1>1
<1>3. created < MaxRecords /\ created' = created + 1
  BY DEF Create
<1>4. store' = Keep(created + 1, [status |-> "pending", attempts |-> 0,
                                  timed |-> FALSE])
  BY DEF Create
<1>5. Existing' = Existing \union {created + 1}
  BY <1>4 DEF Keep, Existing
<1>6. /\ \A k \in Existing : store'[k] = store[k]
      /\ store'[created + 1] = [status |-> "pending", attempts |-> 0,
                                timed |-> FALSE]
  BY <1>2, <1>4 DEF Keep
<1> QED
  BY <1>1, <1>2, <1>3, <1>5, <1>6 DEF Create, answerVars

LEMMA ChangeEffect ==
  ASSUME NEW k \in Existing, NEW doc, Change(k, doc)
  PROVE  /\ Existing' = Existing
         /\ \A j \in Existing : store'[j] = IF j = k THEN doc ELSE store[j]
         /\ UNCHANGED <<created, asked, owner, open, got, page, listed, from>>
<1>1. store' = Keep(k, doc) /\ Existing \union {k} = Existing
  BY DEF Change
<1> QED
  BY <1>1 DEF Change, Keep, Existing, answerVars

LEMMA DeleteEffect ==
  ASSUME NEW k \in Existing, Delete(k)
  PROVE  /\ Existing' = Existing \ {k}
         /\ \A j \in Existing' : store'[j] = store[j]
         /\ UNCHANGED <<created, asked, owner, open, got, page, listed, from>>
BY DEF Delete, Existing, answerVars

\* A query sets its own result, to what the database says now.
LEMMA QueryResults ==
  ASSUME TypeInv, NEW q \in open, Query(q)
  PROVE  /\ q \in Queries
         /\ got' \in Results
         /\ got'.status   = IF q = "status" THEN StatusCounts(Matching) ELSE got.status
         /\ got'.latency  = IF q = "latency" THEN LatencyKnown(Matching) ELSE got.latency
         /\ got'.retry    = IF q = "retry" THEN Retried(Matching) ELSE got.retry
         /\ got'.total    = IF q = "total" THEN Cardinality(Matching) ELSE got.total
         /\ got'.hours    = IF q = "hours" THEN Cardinality(Matching \intersect Recent)
                                           ELSE got.hours
         /\ got'.channels = IF q = "channels" THEN ChannelCounts(Matching)
                                              ELSE got.channels
         /\ got'.success  = IF q = "success" THEN ChannelSuccess(Matching)
                                             ELSE got.success
         /\ got'.count    = IF q = "count" THEN Cardinality(Existing) ELSE got.count
<1>1. q \in Queries
  BY QueriesFacts DEF TypeInv, TypeOK
<1>2. got' = [got EXCEPT ![q] = Evaluate(q)] /\ got \in Results
  BY DEF Query, TypeInv
<1>3. TypeOK
  BY DEF TypeInv
<1>4. CASE q = "status"
  <2>1. got' = [got EXCEPT !["status"] = StatusCounts(Matching)]
    BY <1>2, <1>4 DEF Evaluate
  <2> QED
    BY <1>1, <1>2, <1>3, <1>4, <2>1, EvaluateTyped DEF Results
<1>5. CASE q = "latency"
  <2>1. got' = [got EXCEPT !["latency"] = LatencyKnown(Matching)]
    BY <1>2, <1>5 DEF Evaluate
  <2> QED
    BY <1>1, <1>2, <1>3, <1>5, <2>1, EvaluateTyped DEF Results
<1>6. CASE q = "retry"
  <2>1. got' = [got EXCEPT !["retry"] = Retried(Matching)]
    BY <1>2, <1>6 DEF Evaluate
  <2> QED
    BY <1>1, <1>2, <1>3, <1>6, <2>1, EvaluateTyped DEF Results
<1>7. CASE q = "total"
  <2>1. got' = [got EXCEPT !["total"] = Cardinality(Matching)]
    BY <1>2, <1>7 DEF Evaluate
  <2> QED
    BY <1>1, <1>2, <1>3, <1>7, <2>1, EvaluateTyped DEF Results
<1>8. CASE q = "hours"
  <2>1. got' = [got EXCEPT !["hours"] = Cardinality(Matching \intersect Recent)]
    BY <1>2, <1>8 DEF Evaluate
  <2> QED
    BY <1>1, <1>2, <1>3, <1>8, <2>1, EvaluateTyped DEF Results
<1>9. CASE q = "channels"
  <2>1. got' = [got EXCEPT !["channels"] = ChannelCounts(Matching)]
    BY <1>2, <1>9 DEF Evaluate
  <2> QED
    BY <1>1, <1>2, <1>3, <1>9, <2>1, EvaluateTyped DEF Results
<1>10. CASE q = "success"
  <2>1. got' = [got EXCEPT !["success"] = ChannelSuccess(Matching)]
    BY <1>2, <1>10 DEF Evaluate
  <2> QED
    BY <1>1, <1>2, <1>3, <1>10, <2>1, EvaluateTyped DEF Results
<1>11. CASE q = "find"
  <2>1. got' = [got EXCEPT !["find"] = OnPage]
    BY <1>2, <1>11 DEF Evaluate
  <2> QED
    BY <1>1, <1>2, <1>3, <1>11, <2>1, EvaluateTyped DEF Results
<1>12. CASE q = "count"
  <2>1. got' = [got EXCEPT !["count"] = Cardinality(Existing)]
    BY <1>2, <1>12 DEF Evaluate
  <2> QED
    BY <1>1, <1>2, <1>3, <1>12, <2>1, EvaluateTyped DEF Results
<1> QED
  BY <1>1, <1>4, <1>5, <1>6, <1>7, <1>8, <1>9, <1>10, <1>11, <1>12 DEF Queries

-----------------------------------------------------------------------------
(* The type invariant. *)

LEMMA InitType == Init => TypeInv
<1> SUFFICES ASSUME Init PROVE TypeInv
  OBVIOUS
<1>1. /\ created \in 0..MaxRecords
      /\ page \in 1..(MaxRecords + 1)
      /\ spent \in [Events -> Nat]
      /\ listed \in [Records -> Nat]
  BY ParametersAssumption DEF Init
<1>2. Existing = {}
  BY DEF Init, Existing
<1>3. got \in Results
  BY ParametersAssumption DEF Init, NoResults, Results
<1> QED
  BY <1>1, <1>2, <1>3 DEF Init, TypeInv, TypeOK, OpenTyped

LEMMA SpendTyped ==
  ASSUME TypeOK, NEW e \in Events, Spend(e)
  PROVE  spent' \in [Events -> Nat]
BY DEF TypeOK, Spend

LEMMA StepKeepsType ==
  ASSUME TypeInv, SentIsTimed, [Next]_vars
  PROVE  TypeInv'
<1> USE DEF TypeInv
<1>1. CASE Create
  <2>1. [status |-> "pending", attempts |-> 0, timed |-> FALSE] \in Documents
    BY DEF Documents, Statuses, MaxAttempts
  <2>2. /\ created' \in 0..MaxRecords
        /\ Existing' \subseteq 1..created'
        /\ \A k \in Existing' : store'[k] \in Documents
    <3>1. created \in Nat /\ created' = created + 1
      BY <1>1, CreateEffect DEF TypeOK
    <3>2. 1..created \subseteq 1..created' /\ created + 1 \in 1..created'
      BY <3>1
    <3> QED
      BY <1>1, <2>1, <3>2, CreateEffect DEF TypeOK
  <2> QED
    BY <1>1, <2>2, CreateEffect DEF TypeOK, OpenTyped
<1>2. ASSUME NEW k \in Existing, NEW doc \in Documents, Change(k, doc)
      PROVE  TypeInv'
  <2>1. /\ Existing' \subseteq 1..created'
        /\ \A j \in Existing' : store'[j] \in Documents
    BY <1>2, ChangeEffect DEF TypeOK
  <2>2. spent' \in [Events -> Nat]
    BY <1>2, SpendTyped DEF Change, Events
  <2> QED
    BY <1>2, <2>1, <2>2, ChangeEffect DEF TypeOK, OpenTyped
<1>3. ASSUME NEW k \in Existing, Delete(k)
      PROVE  TypeInv'
  <2>1. /\ Existing' \subseteq 1..created'
        /\ \A j \in Existing' : store'[j] \in Documents
    BY <1>3, DeleteEffect DEF TypeOK
  <2>2. spent' \in [Events -> Nat]
    BY <1>3, SpendTyped DEF Delete, Events
  <2> QED
    BY <1>3, <2>1, <2>2, DeleteEffect DEF TypeOK, OpenTyped
<1>4. ASSUME NEW kind \in Kinds, NEW o \in Recipients \union {Anybody},
             Ask(kind, o)
      PROVE  TypeInv'
  <2>1. spent' \in [Events -> Nat]
    BY <1>4, SpendTyped DEF Ask, Events
  <2>2. Existing' = Existing /\ UNCHANGED <<created, store>>
    BY <1>4 DEF Ask, recordVars, Existing
  <2>3. from' \subseteq Records
    BY <1>4, <2>2, ExistingFacts DEF Ask
  <2>4. got' \in Results
    BY <1>4, ParametersAssumption DEF Ask, NoResults, Results
  <2>5. /\ page' \in 1..(MaxRecords + 1)
        /\ listed' \in [Records -> Nat]
    BY <1>4, ParametersAssumption DEF Ask
  <2>6. kind # "none"
    BY QueriesFacts
  <2> QED
    BY <1>4, <2>1, <2>2, <2>3, <2>4, <2>5, <2>6 DEF Ask, TypeOK, OpenTyped
<1>5. ASSUME NEW q \in open, Query(q)
      PROVE  TypeInv'
  <2>1. got' \in Results
    BY <1>5, QueryResults
  <2>2. listed' \in [Records -> Nat]
    BY <1>5 DEF Query, TypeOK
  <2>3. Existing' = Existing
    BY <1>5 DEF Query, recordVars, Existing
  <2> QED
    BY <1>5, <2>1, <2>2, <2>3 DEF Query, recordVars, TypeOK, OpenTyped
<1>6. CASE QueryFails
  <2>1. spent' \in [Events -> Nat]
    BY <1>6, SpendTyped DEF QueryFails, Events
  <2>2. Existing' = Existing /\ UNCHANGED <<created, store>>
    BY <1>6 DEF QueryFails, recordVars, Existing
  <2>3. got' \in Results
    BY <1>6, ParametersAssumption DEF QueryFails, NoResults, Results
  <2>4. /\ page' \in 1..(MaxRecords + 1)
        /\ listed' \in [Records -> Nat]
    BY <1>6, ParametersAssumption DEF QueryFails
  <2> QED
    BY <1>6, <2>1, <2>2, <2>3, <2>4 DEF QueryFails, TypeOK, OpenTyped
<1>7. CASE NextPage
  <2>1. /\ UNCHANGED <<recordVars, asked, owner, got, listed, from, spent>>
        /\ asked' = "page" /\ open' = QueriesOf["page"]
        /\ "page" \in Kinds
    BY <1>7, QueriesFacts DEF NextPage, Answered
  <2>2. Existing' = Existing
    BY <2>1 DEF recordVars, Existing
  <2>3. page' \in 1..(MaxRecords + 1)
    <3>1. got.count \in 0..MaxRecords
      BY DEF Results
    <3>2. TotalPages \in 0..got.count
      <4>1. got.count \in Nat
        BY <3>1
      <4> QED
        BY <4>1, PagesFewerThanRecords DEF TotalPages
    <3>3. page \in 1..(MaxRecords + 1) /\ page < TotalPages /\ page' = page + 1
      BY <1>7 DEF TypeOK, NextPage, HasNext
    <3>4. MaxRecords \in Nat
      BY ParametersAssumption
    <3> QED
      BY <3>1, <3>2, <3>3, <3>4
  <2> QED
    BY <2>1, <2>2, <2>3 DEF recordVars, TypeOK, OpenTyped
<1>8. CASE UNCHANGED vars
  BY <1>8 DEF vars, recordVars, answerVars, TypeOK, OpenTyped, Existing
<1> QED
  BY <1>1, <1>2, <1>3, <1>4, <1>5, <1>6, <1>7, <1>8, StepCases

-----------------------------------------------------------------------------
(* Latencies, and the parts of a rate. *)

LEMMA InitTimed == Init => SentIsTimed /\ PartsInv
<1> SUFFICES ASSUME Init PROVE SentIsTimed /\ PartsInv
  OBVIOUS
<1>1. Existing = {}
  BY DEF Init, Existing
<1>2. PartsInv
  BY DEF Init, NoResults, PartsInv
<1> QED
  BY <1>1, <1>2 DEF SentIsTimed

LEMMA StepKeepsTimed ==
  ASSUME TypeInv, SentIsTimed, [Next]_vars
  PROVE  SentIsTimed'
<1>1. TypeOK
  BY DEF TypeInv
<1>2. CASE Create
  BY <1>1, <1>2, CreateEffect DEF SentIsTimed
<1>3. ASSUME NEW k \in Existing, NEW doc \in Documents, Timed(doc), Change(k, doc)
      PROVE  SentIsTimed'
  BY <1>3, ChangeEffect DEF SentIsTimed, Timed
<1>4. ASSUME NEW k \in Existing, Delete(k)
      PROVE  SentIsTimed'
  BY <1>4, DeleteEffect DEF SentIsTimed
<1>5. CASE UNCHANGED recordVars
  BY <1>5 DEF recordVars, SentIsTimed, Existing
<1>6. ASSUME NEW kind, NEW o, Ask(kind, o) PROVE UNCHANGED recordVars
  BY <1>6 DEF Ask
<1>7. ASSUME NEW q, Query(q) PROVE UNCHANGED recordVars
  BY <1>7 DEF Query
<1>8. QueryFails \/ NextPage \/ UNCHANGED vars => UNCHANGED recordVars
  BY DEF QueryFails, NextPage, vars
<1> QED
  BY <1>1, <1>2, <1>3, <1>4, <1>5, <1>6, <1>7, <1>8, StepCases

LEMMA StepKeepsParts ==
  ASSUME TypeInv, SentIsTimed, PartsInv, [Next]_vars
  PROVE  PartsInv'
<1>1. TypeOK
  BY DEF TypeInv
<1>2. CASE got' = got
  BY <1>2 DEF PartsInv
<1>3. CASE got' = NoResults
  BY <1>3 DEF PartsInv, NoResults
<1>4. ASSUME NEW q \in open, Query(q)
      PROVE  PartsInv'
  <2>1. /\ got'.retry = IF q = "retry" THEN Retried(Matching) ELSE got.retry
        /\ got'.success = IF q = "success" THEN ChannelSuccess(Matching)
                                           ELSE got.success
    BY <1>4, QueryResults
  <2> QED
    BY <1>1, <2>1, PartOfWhole DEF PartsInv
<1>5. Create => got' = got
  BY <1>1, CreateEffect
<1>6. ASSUME NEW k \in Existing, NEW doc, Change(k, doc) PROVE got' = got
  BY <1>6, ChangeEffect
<1>7. ASSUME NEW k \in Existing, Delete(k) PROVE got' = got
  BY <1>7, DeleteEffect
<1>8. ASSUME NEW kind, NEW o, Ask(kind, o) PROVE got' = NoResults
  BY <1>8 DEF Ask
<1>9. QueryFails => got' = NoResults
  BY DEF QueryFails
<1>10. NextPage \/ UNCHANGED vars => got' = got
  BY DEF NextPage, vars, answerVars
<1> QED
  BY <1>1, <1>2, <1>3, <1>4, <1>5, <1>6, <1>7, <1>8, <1>9, <1>10, StepCases

-----------------------------------------------------------------------------
(* The figures of one answer are about the same records. *)

\* What happened is not forgotten while an answer is prepared.
LEMMA MovesKeep ==
  ASSUME NEW what, Moves(what)
  PROVE  /\ moved \subseteq moved'
         /\ open # {} \/ asked = "page" => what \subseteq moved'
BY DEF Moves

\* A step that leaves the answer alone, and the records as well if queries are
\* still to come, leaves the snapshot alone.
LEMMA SnapshotKept ==
  ASSUME SnapshotInv, moved \subseteq moved',
         UNCHANGED <<asked, owner, open, got>>,
         open # {} /\ Unless({"created", "deleted"})' =>
           /\ Matching' = Matching
           /\ Unless({"changed"})' => Sent(Matching)' = Sent(Matching)
  PROVE  SnapshotInv'
<1> SUFFICES ASSUME Unless({"created", "deleted"})'
             PROVE  \E M, D \in SUBSET Records : D \subseteq M /\ Snapshot(M, D)'
  BY DEF SnapshotInv
<1>1. /\ Unless({"created", "deleted"})
      /\ Unless({"changed"})' => Unless({"changed"})
  BY DEF Unless
<1>2. PICK M, D \in SUBSET Records : D \subseteq M /\ Snapshot(M, D)
  BY <1>1 DEF SnapshotInv
<1>3. open' # {} => /\ M = Matching'
                    /\ Unless({"changed"})' => D = Sent(Matching)'
  BY <1>1, <1>2 DEF Snapshot
<1>4. asked' = "stats" => StatsAgree(M, D)'
  BY <1>1, <1>2 DEF Snapshot, StatsAgree
<1>5. asked' = "analytics" => AnalyticsAgree(M)'
  BY <1>2 DEF Snapshot, AnalyticsAgree, ChannelCounts, OnChannel
<1> QED
  BY <1>2, <1>3, <1>4, <1>5 DEF Snapshot

LEMMA QueryKeepsSnapshot ==
  ASSUME TypeInv, SentIsTimed, SnapshotInv, NEW q \in open, Query(q)
  PROVE  SnapshotInv'
<1> SUFFICES ASSUME Unless({"created", "deleted"})'
             PROVE  \E M, D \in SUBSET Records : D \subseteq M /\ Snapshot(M, D)'
  BY DEF SnapshotInv
<1>1. /\ moved' = moved /\ asked' = asked /\ owner' = owner
      /\ store' = store /\ open' = open \ {q} /\ open # {}
  BY DEF Query, recordVars
<1>2. /\ Unless({"created", "deleted"})
      /\ Unless({"changed"})' <=> Unless({"changed"})
  BY <1>1 DEF Unless
<1>3. PICK M, D \in SUBSET Records : D \subseteq M /\ Snapshot(M, D)
  BY <1>2 DEF SnapshotInv
<1>4. M = Matching /\ (Unless({"changed"}) => D = Sent(Matching))
  BY <1>1, <1>3 DEF Snapshot
<1>5. Matching' = Matching /\ Sent(Matching)' = Sent(Matching)
  BY <1>1 DEF Matching, Existing, Sent
<1>6. TypeOK
  BY DEF TypeInv
<1>7. asked' = "stats" => StatsAgree(M, D)'
  <2> SUFFICES ASSUME asked = "stats" PROVE StatsAgree(M, D)'
    BY <1>1
  <2>1. StatsAgree(M, D)
    BY <1>3 DEF Snapshot
  <2>2. /\ "status" \notin open' =>
             /\ got'.status["sent"] <= Cardinality(M)
             /\ got'.status["sent"] + got'.status["queued"]
                  + got'.status["failed"] + got'.status["processing"]
                  + got'.status["pending"] = Cardinality(M)
             /\ Unless({"changed"}) => got'.status["sent"] = Cardinality(D)
    <3>1. CASE q = "status"
      <4>1. got'.status = StatusCounts(Matching)
        BY <3>1, QueryResults
      <4> QED
        BY <1>4, <1>6, <4>1, StatusCountsSum
    <3>2. CASE q # "status"
      <4>1. got'.status = got.status
        BY <3>2, QueryResults
      <4>2. "status" \notin open' => "status" \notin open
        BY <1>1, <3>2
      <4> QED
        BY <2>1, <4>1, <4>2 DEF StatsAgree
    <3> QED
      BY <3>1, <3>2
  <2>3. "total" \notin open' => got'.total = Cardinality(M)
    <3>1. got'.total = IF q = "total" THEN Cardinality(Matching) ELSE got.total
      BY QueryResults
    <3> QED
      BY <1>1, <1>4, <2>1, <3>1 DEF StatsAgree
  <2>4. "retry" \notin open' => got'.retry.total = Cardinality(M)
    <3>1. got'.retry = IF q = "retry" THEN Retried(Matching) ELSE got.retry
      BY QueryResults
    <3> QED
      BY <1>1, <1>4, <2>1, <3>1 DEF StatsAgree, Retried
  <2>5. "latency" \notin open' /\ Unless({"changed"}) =>
          (got'.latency <=> D # {})
    <3>1. got'.latency = IF q = "latency" THEN LatencyKnown(Matching)
                                          ELSE got.latency
      BY QueryResults
    <3>2. LatencyKnown(Matching) <=> Sent(Matching) # {}
      <4>1. \A k \in Sent(Matching) : store[k].timed
        BY <1>6, ExistingFacts DEF SentIsTimed, Sent
      <4> QED
        BY <4>1 DEF LatencyKnown
    <3>3. CASE q = "latency"
      BY <1>4, <3>1, <3>2, <3>3
    <3>4. CASE q # "latency"
      BY <1>1, <2>1, <3>1, <3>4 DEF StatsAgree
    <3> QED
      BY <3>3, <3>4
  <2> QED
    BY <1>2, <2>2, <2>3, <2>4, <2>5 DEF StatsAgree
<1>8. asked' = "analytics" => AnalyticsAgree(M)'
  <2> SUFFICES ASSUME asked = "analytics" PROVE AnalyticsAgree(M)'
    BY <1>1
  <2>1. AnalyticsAgree(M)
    BY <1>3 DEF Snapshot
  <2>2. "hours" \notin open' => got'.hours = Cardinality(M \intersect Recent)
    <3>1. got'.hours = IF q = "hours" THEN Cardinality(Matching \intersect Recent)
                                      ELSE got.hours
      BY QueryResults
    <3> QED
      BY <1>1, <1>4, <2>1, <3>1 DEF AnalyticsAgree
  <2>3. "channels" \notin open' => got'.channels = ChannelCounts(M)
    <3>1. got'.channels = IF q = "channels" THEN ChannelCounts(Matching)
                                            ELSE got.channels
      BY QueryResults
    <3> QED
      BY <1>1, <1>4, <2>1, <3>1 DEF AnalyticsAgree
  <2>4. "success" \notin open' =>
          \A c \in Channels :
            got'.success[c].total = Cardinality(OnChannel(M, c))
    <3>1. got'.success = IF q = "success" THEN ChannelSuccess(Matching)
                                          ELSE got.success
      BY QueryResults
    <3>2. \A c \in Channels : ChannelSuccess(Matching)[c].total
                                = Cardinality(OnChannel(Matching, c))
      BY DEF ChannelSuccess
    <3> QED
      BY <1>1, <1>4, <2>1, <3>1, <3>2 DEF AnalyticsAgree
  <2>5. /\ ChannelCounts(M)' = ChannelCounts(M)
        /\ \A c : OnChannel(M, c)' = OnChannel(M, c)
    BY DEF ChannelCounts, OnChannel
  <2> QED
    BY <2>2, <2>3, <2>4, <2>5 DEF AnalyticsAgree
<1> QED
  BY <1>2, <1>3, <1>4, <1>5, <1>7, <1>8 DEF Snapshot

LEMMA InitSnapshot == Init => SnapshotInv
<1> SUFFICES ASSUME Init PROVE SnapshotInv
  OBVIOUS
<1>1. Snapshot({}, {})
  BY DEF Init, Snapshot
<1> QED
  BY <1>1 DEF SnapshotInv

\* The records of the moment after a step can be the ones an answer is about.
LEMMA CurrentSnapshot ==
  TypeOK' => \E M, D \in SUBSET Records :
               D \subseteq M /\ M = Matching' /\ D = Sent(Matching)'
<1> SUFFICES ASSUME TypeOK'
             PROVE  Matching' \in SUBSET Records /\ Sent(Matching)' \subseteq Matching'
  OBVIOUS
<1>0. (1..created)' \subseteq Records
  BY ParametersAssumption DEF TypeOK, Records
<1>1. Matching' \in SUBSET Records
  BY <1>0 DEF TypeOK, Matching
<1> QED
  BY <1>1 DEF Sent

LEMMA StepKeepsSnapshot ==
  ASSUME TypeInv, SentIsTimed, SnapshotInv, [Next]_vars
  PROVE  TypeInv' => SnapshotInv'
<1> SUFFICES ASSUME TypeInv' PROVE SnapshotInv'
  OBVIOUS
<1>1. TypeOK /\ TypeOK'
  BY DEF TypeInv
<1>2. CASE Create
  <2>1. /\ moved \subseteq moved'
        /\ open # {} => ~Unless({"created", "deleted"})'
    BY <1>2, MovesKeep DEF Create, Unless
  <2> QED
    BY <1>1, <1>2, <2>1, CreateEffect, SnapshotKept
<1>3. ASSUME NEW k \in Existing, NEW doc, Change(k, doc)
      PROVE  SnapshotInv'
  <2>1. /\ moved \subseteq moved'
        /\ open # {} => ~Unless({"changed"})'
    BY <1>3, MovesKeep DEF Change, Unless
  <2>2. /\ UNCHANGED <<asked, owner, open, got>>
        /\ Matching' = Matching
    BY <1>3, ChangeEffect DEF Matching
  <2> QED
    BY <2>1, <2>2, SnapshotKept
<1>4. ASSUME NEW k \in Existing, Delete(k)
      PROVE  SnapshotInv'
  <2>1. /\ moved \subseteq moved'
        /\ open # {} => ~Unless({"created", "deleted"})'
    BY <1>4, MovesKeep DEF Delete, Unless
  <2> QED
    BY <1>4, <2>1, DeleteEffect, SnapshotKept
<1>5. ASSUME NEW kind \in Kinds, NEW o \in Recipients \union {Anybody},
             Ask(kind, o)
      PROVE  SnapshotInv'
  <2>1. PICK M, D \in SUBSET Records :
          D \subseteq M /\ M = Matching' /\ D = Sent(Matching)'
    BY <1>1, CurrentSnapshot
  <2>2. open' = QueriesOf[kind] /\ asked' = kind
    BY <1>5 DEF Ask
  <2>3. asked' = "stats" => StatsAgree(M, D)'
    BY <2>2, QueriesFacts DEF StatsAgree
  <2>4. asked' = "analytics" => AnalyticsAgree(M)'
    BY <2>2, QueriesFacts DEF AnalyticsAgree
  <2>5. Snapshot(M, D)'
    BY <2>1, <2>3, <2>4 DEF Snapshot
  <2> QED
    BY <2>1, <2>5 DEF SnapshotInv
<1>6. ASSUME NEW q \in open, Query(q)
      PROVE  SnapshotInv'
  BY <1>6, QueryKeepsSnapshot
<1>7. CASE QueryFails
  <2>1. Snapshot({}, {})'
    BY <1>7 DEF QueryFails, Snapshot
  <2> QED
    BY <2>1 DEF SnapshotInv
<1>8. CASE NextPage
  <2>1. PICK M, D \in SUBSET Records :
          D \subseteq M /\ M = Matching' /\ D = Sent(Matching)'
    BY <1>1, CurrentSnapshot
  <2>2. Snapshot(M, D)'
    BY <1>8, <2>1 DEF NextPage, Answered, Snapshot
  <2> QED
    BY <2>1, <2>2 DEF SnapshotInv
<1>9. CASE UNCHANGED vars
  <2>1. /\ moved' = moved
        /\ UNCHANGED <<asked, owner, open, got, store>>
    BY <1>9 DEF vars, recordVars, answerVars
  <2>2. Matching' = Matching /\ Sent(Matching)' = Sent(Matching)
    BY <2>1 DEF Matching, Existing, Sent
  <2> QED
    BY <2>1, <2>2, SnapshotKept
<1> QED
  BY <1>1, <1>2, <1>3, <1>4, <1>5, <1>6, <1>7, <1>8, <1>9, StepCases

-----------------------------------------------------------------------------
(* The positions of records while a list is walked. *)

\* Records only move to later positions when others are added, and only to
\* earlier ones when others go.
LEMMA PositionGrows ==
  ASSUME TypeOK, TypeOK', NEW k,
         Existing \subseteq Existing'
  PROVE  Position(k) <= Position(k)'
<1>1. (1..created)' \subseteq Records
  BY ParametersAssumption DEF TypeOK, Records
<1>2. Existing' \in SUBSET Records
  BY <1>1 DEF TypeOK
<1>3. {j \in Existing' : j >= k} \in SUBSET Records
  BY <1>2
<1>4. {j \in Existing : j >= k} \in SUBSET {j \in Existing' : j >= k}
  OBVIOUS
<1> QED
  BY <1>3, <1>4, Larger DEF Position

LEMMA PositionShrinks ==
  ASSUME TypeOK, NEW k, Existing' \subseteq Existing
  PROVE  Position(k)' <= Position(k)
<1>1. {j \in Existing : j >= k} \in SUBSET Records
  BY ExistingFacts
<1>2. {j \in Existing' : j >= k} \in SUBSET {j \in Existing : j >= k}
  OBVIOUS
<1> QED
  BY <1>1, <1>2, Larger DEF Position

LEMMA PositionTyped ==
  ASSUME TypeOK, NEW k
  PROVE  Position(k) \in Nat
<1>1. {j \in Existing : j >= k} \in SUBSET Records
  BY ExistingFacts
<1> QED
  BY <1>1, Larger DEF Position

LEMMA CoveredTyped ==
  ASSUME TypeOK
  PROVE  page \in Nat \ {0} /\ Covered \in Nat
<1>1. page \in Nat \ {0}
  BY DEF TypeOK
<1> QED
  BY <1>1, PageFacts DEF Covered

\* The page of the walk does not change: only what is counted and found.
LEMMA QueryKeepsWalk ==
  ASSUME TypeInv, WalkInv, NEW q \in open, Query(q)
  PROVE  WalkInv'
<1> SUFFICES ASSUME asked = "page" PROVE WalkInv'
  BY DEF WalkInv, Query
<1>1. /\ UNCHANGED <<store, asked, owner, page, from, moved>>
      /\ open' = open \ {q} /\ open \subseteq {"find", "count"}
      /\ Existing' = Existing
  BY QueriesFacts DEF Query, recordVars, TypeInv, OpenTyped, Existing
<1>2. TypeOK /\ got \in Results /\ listed \in [Records -> Nat]
  BY DEF TypeInv, TypeOK
<1>3. /\ \A k : Position(k)' = Position(k)
      /\ \A S : Unless(S)' <=> Unless(S)
  BY <1>1 DEF Position, Unless
<1>4. \A k \in Existing : /\ Position(k) \in Nat
                          /\ Position(k) <= Cardinality(Existing)
                          /\ Cardinality(Existing) \in Nat
                          /\ k \in Records
  BY <1>2, PositionFacts, ExistingFacts, EvaluateTyped, ParametersAssumption
<1>5. /\ (page - 1) * Limit \in Nat
      /\ page * Limit \in Nat
      /\ (page - 1) * Limit + Limit = page * Limit
      /\ (page - 1) * Limit <= page * Limit
  BY <1>2, CoveredTyped, PageFacts
<1>6. CASE q = "find"
  <2>1. /\ "find" \in open /\ "find" \notin open'
        /\ Covered = (page - 1) * Limit
        /\ Covered' = page * Limit
    BY <1>1, <1>6 DEF Covered
  <2>2. \A k \in Records : listed'[k] = IF k \in OnPage THEN listed[k] + 1
                                                        ELSE listed[k]
    BY <1>6 DEF Query
  <2>3. \A k : k \in OnPage <=> /\ k \in Existing
                                /\ Position(k) > (page - 1) * Limit
                                /\ Position(k) <= page * Limit
    <3> TAKE k
    <3>1. CASE k \in Existing
      <4>1. Position(k) \in Nat /\ Skip = (page - 1) * Limit
        BY <1>4, <3>1 DEF Skip
      <4>2. Limit \in Nat
        BY ParametersAssumption
      <4> QED
        BY <1>5, <3>1, <4>1, <4>2 DEF OnPage
    <3>2. CASE k \notin Existing
      BY <3>2 DEF OnPage
    <3> QED
      BY <3>1, <3>2
  <2>4. ASSUME Unless({"created"}), NEW k \in Records
        PROVE  /\ listed'[k] <= 1
               /\ k \in Existing /\ listed'[k] = 1 => Position(k) <= page * Limit
    <3>1. /\ listed[k] <= 1
          /\ k \in Existing /\ listed[k] = 1 => Position(k) <= (page - 1) * Limit
          /\ listed[k] \in Nat
      BY <1>2, <2>1, <2>4 DEF WalkInv
    <3>2. CASE k \in OnPage
      <4>1. listed[k] = 0
        BY <1>4, <1>5, <2>3, <3>1, <3>2
      <4> QED
        BY <2>2, <2>3, <3>2, <4>1
    <3>3. CASE k \notin OnPage
      BY <1>4, <1>5, <2>2, <3>1, <3>3
    <3> QED
      BY <3>2, <3>3
  <2>5. ASSUME Unless({"deleted"}), NEW k \in from, listed'[k] = 0
        PROVE  /\ listed[k] = 0 /\ k \in Existing
               /\ Position(k) > page * Limit
    <3>1. from \subseteq Existing
      BY <2>5 DEF WalkInv
    <3>2. k \in Existing /\ k \in Records
      BY <1>4, <3>1
    <3>3. k \notin OnPage /\ listed[k] = 0
      BY <1>2, <2>2, <2>5, <3>2
    <3>4. Position(k) > (page - 1) * Limit
      BY <2>1, <2>5, <3>3 DEF WalkInv
    <3> QED
      BY <1>4, <1>5, <2>3, <3>2, <3>3, <3>4
  <2>6. ASSUME Unless({"deleted", "createdAfterCount"}), open' = {},
               NEW k \in from, listed'[k] = 0
        PROVE  got'.count > page * Limit
    <3>1. open = {"find"} /\ Unless({"deleted"})
      BY <1>1, <1>6, <2>6 DEF Unless
    <3>2. got.count = Cardinality(Existing)
      BY <2>6, <3>1 DEF WalkInv
    <3>3. got'.count = got.count
      BY <1>6, QueryResults
    <3>4. k \in Existing /\ Position(k) > page * Limit
      BY <2>5, <2>6, <3>1
    <3> QED
      BY <1>4, <1>5, <3>2, <3>3, <3>4
  <2>7. from' \subseteq Existing' \/ ~Unless({"deleted"})
    BY <1>1 DEF WalkInv
  <2>8. open' # {"find"}
    BY <2>1
  <2> QED
    BY <1>1, <1>3, <2>1, <2>4, <2>5, <2>6, <2>7, <2>8 DEF WalkInv
<1>7. CASE q = "count"
  <2>1. /\ "find" \in open' <=> "find" \in open
        /\ Covered' = Covered
        /\ listed' = listed
    BY <1>1, <1>7 DEF Covered, Query
  <2>2. got'.count = Cardinality(Existing)
    BY <1>7, QueryResults
  <2>3. ASSUME Unless({"deleted", "createdAfterCount"}), open' = {},
               NEW k \in from, listed[k] = 0
        PROVE  got'.count > page * Limit
    <3>1. "find" \notin open /\ Unless({"deleted"})
      BY <2>1, <2>3 DEF Unless
    <3>2. k \in Existing /\ Position(k) > page * Limit
      BY <2>3, <3>1 DEF WalkInv, Covered
    <3> QED
      BY <1>4, <1>5, <2>2, <3>2
  <2> QED
    BY <1>1, <1>3, <2>1, <2>2, <2>3 DEF WalkInv
<1> QED
  BY <1>1, <1>6, <1>7

LEMMA AskKeepsWalk ==
  ASSUME TypeInv, TypeInv', NEW kind \in Kinds, NEW o, Ask(kind, o)
  PROVE  WalkInv'
<1> SUFFICES ASSUME kind = "page" PROVE WalkInv'
  BY DEF Ask, WalkInv
<1>1. /\ listed' = [k \in Records |-> 0]
      /\ page' = 1 /\ open' = {"find", "count"} /\ from' = Existing
      /\ Existing' = Existing
  BY QueriesFacts DEF Ask, recordVars, Existing
<1>2. Covered' = 0
  <2>1. Covered' = (1 - 1) * Limit
    BY <1>1 DEF Covered
  <2> QED
    BY <2>1, PageFacts
<1>3. \A k \in Existing : Position(k)' = Position(k) /\ Position(k) \in Nat \ {0}
  <2>1. TypeOK
    BY DEF TypeInv
  <2>2. \A k : Position(k)' = Position(k)
    BY <1>1 DEF Position
  <2> QED
    BY <2>1, <2>2, PositionFacts, EvaluateTyped, ParametersAssumption
<1>4. \A k \in Records : listed'[k] = 0
  BY <1>1
<1>5. open' # {"find"} /\ open' # {}
  BY <1>1
<1>6. \A k \in from' : Position(k)' > Covered'
  BY <1>1, <1>2, <1>3
<1> QED
  BY <1>1, <1>4, <1>5, <1>6 DEF WalkInv

LEMMA StepKeepsWalk ==
  ASSUME TypeInv, TypeInv', SentIsTimed, WalkInv, [Next]_vars
  PROVE  WalkInv'
<1>1. /\ TypeOK /\ TypeOK' /\ Covered \in Nat
      /\ \A k : Position(k) \in Nat
  BY CoveredTyped, PositionTyped DEF TypeInv
<1>2. CASE Create
  <2> SUFFICES ASSUME asked = "page" PROVE WalkInv'
    BY <1>1, <1>2, CreateEffect DEF WalkInv
  <2>1. /\ UNCHANGED <<asked, owner, open, got, page, listed, from>>
        /\ Existing \subseteq Existing'
        /\ Covered' = Covered
    BY <1>1, <1>2, CreateEffect DEF Covered
  <2>2. /\ moved \subseteq moved'
        /\ "created" \in moved'
        /\ open = {"find"} => "createdAfterCount" \in moved'
    BY <1>2, MovesKeep DEF Create
  <2>3. /\ ~Unless({"created"})'
        /\ Unless({"deleted"})' => Unless({"deleted"})
        /\ Unless({"deleted", "createdAfterCount"})'
             => Unless({"deleted", "createdAfterCount"}) /\ open # {"find"}
    BY <2>2 DEF Unless
  <2>4. \A k : Position(k) <= Position(k)'
    BY <1>1, <2>1, PositionGrows
  <2>5. \A k : Position(k)' \in Nat
    <3> TAKE k
    <3>1. {j \in Existing' : j >= k} \in SUBSET Records
      <4>1. (1..created)' \subseteq Records
        BY <1>1, ParametersAssumption DEF TypeOK, Records
      <4> QED
        BY <1>1, <4>1 DEF TypeOK
    <3> QED
      BY <3>1, Larger DEF Position
  <2>6. Unless({"deleted"})' => \A k \in from : listed[k] = 0 => Position(k)' > Covered
    BY <1>1, <2>3, <2>4, <2>5 DEF WalkInv
  <2> QED
    BY <2>1, <2>3, <2>6 DEF WalkInv
<1>3. ASSUME NEW k \in Existing, NEW doc, Change(k, doc)
      PROVE  WalkInv'
  <2> SUFFICES ASSUME asked = "page" PROVE WalkInv'
    BY <1>3, ChangeEffect DEF WalkInv
  <2>1. /\ UNCHANGED <<asked, owner, open, got, page, listed, from>>
        /\ Existing' = Existing
        /\ Covered' = Covered
    BY <1>3, ChangeEffect DEF Covered
  <2>2. /\ \A j : Position(j)' = Position(j)
        /\ \A S : Unless(S)' => Unless(S)
    BY <1>3, <2>1, MovesKeep DEF Change, Position, Unless
  <2> QED
    BY <2>1, <2>2 DEF WalkInv
<1>4. ASSUME NEW k \in Existing, Delete(k)
      PROVE  WalkInv'
  <2> SUFFICES ASSUME asked = "page" PROVE WalkInv'
    BY <1>4, DeleteEffect DEF WalkInv
  <2>1. /\ UNCHANGED <<asked, owner, open, got, page, listed, from>>
        /\ Existing' \subseteq Existing
        /\ Covered' = Covered
    BY <1>4, DeleteEffect DEF Covered
  <2>2. /\ ~Unless({"deleted"})'
        /\ ~Unless({"deleted", "createdAfterCount"})'
        /\ Unless({"created"})' => Unless({"created"})
    BY <1>4, MovesKeep DEF Delete, Unless
  <2>3. \A j : Position(j)' <= Position(j)
    BY <1>1, <2>1, PositionShrinks
  <2>4. \A j : Position(j)' \in Nat
    <3> TAKE j
    <3>1. {i \in Existing' : i >= j} \in SUBSET Records
      BY <1>1, <2>1, ExistingFacts
    <3> QED
      BY <3>1, Larger DEF Position
  <2>5. Unless({"created"})' =>
          \A j \in Records : /\ listed[j] <= 1
                             /\ j \in Existing' /\ listed[j] = 1
                                  => Position(j)' <= Covered
    BY <1>1, <2>1, <2>2, <2>3, <2>4 DEF WalkInv
  <2> QED
    BY <2>1, <2>2, <2>5 DEF WalkInv
<1>5. ASSUME NEW kind \in Kinds, NEW o, Ask(kind, o)
      PROVE  WalkInv'
  BY <1>5, AskKeepsWalk
<1>6. ASSUME NEW q \in open, Query(q)
      PROVE  WalkInv'
  BY <1>6, QueryKeepsWalk
<1>7. CASE QueryFails
  BY <1>7 DEF QueryFails, WalkInv
<1>8. CASE NextPage
  <2>1. /\ UNCHANGED <<store, asked, owner, got, listed, from, moved>>
        /\ asked = "page" /\ open = {} /\ page' = page + 1
        /\ open' = {"find", "count"}
        /\ Existing' = Existing
    BY <1>8, QueriesFacts DEF NextPage, Answered, recordVars, Existing
  <2>2. Covered' = Covered
    <3>1. page \in Nat \ {0} /\ page' = page + 1
      BY <1>1, <2>1, CoveredTyped
    <3>2. "find" \notin open /\ "find" \in open'
      BY <2>1
    <3>3. Covered = page * Limit
      BY <3>2 DEF Covered
    <3>4. Covered' = (page' - 1) * Limit
      BY <3>2 DEF Covered
    <3>5. page' - 1 = page
      BY <3>1
    <3> QED
      BY <3>3, <3>4, <3>5
  <2>3. /\ \A k : Position(k)' = Position(k)
        /\ \A S : Unless(S)' <=> Unless(S)
    BY <2>1 DEF Position, Unless
  <2>4. open' # {"find"} /\ open' # {}
    BY <2>1
  <2> QED
    BY <2>1, <2>2, <2>3, <2>4 DEF WalkInv
<1>9. CASE UNCHANGED vars
  BY <1>9 DEF vars, recordVars, answerVars, WalkInv, Existing, Position,
              Covered, Unless
<1> QED
  BY <1>1, <1>2, <1>3, <1>4, <1>5, <1>6, <1>7, <1>8, <1>9, StepCases

-----------------------------------------------------------------------------
(* The theorems. *)

\* Everything that holds between two steps.
IInv == TypeInv /\ SentIsTimed /\ PartsInv /\ SnapshotInv /\ WalkInv

LEMMA Inductive == Safe => []IInv
<1>1. Init => IInv
  <2>1. Init => WalkInv
    BY DEF Init, WalkInv
  <2> QED
    BY <2>1, InitType, InitTimed, InitSnapshot DEF IInv
<1>2. IInv /\ [Next]_vars => IInv'
  BY StepKeepsType, StepKeepsTimed, StepKeepsParts, StepKeepsSnapshot,
     StepKeepsWalk DEF IInv
<1> QED
  BY <1>1, <1>2, PTL DEF Safe

\* Every variable has its type; no list has more pages than there can be
\* records.
THEOREM TypeCorrect == Safe => []TypeOK
<1>1. IInv => TypeOK
  BY DEF IInv, TypeInv
<1> QED
  BY <1>1, Inductive, PTL

\* No rate of an answer exceeds 100 %, with the one exception the model names
\* (getStats, getAnalytics).
THEOREM RatesInRange == Safe => []RatesWithinRange
<1> SUFFICES ASSUME IInv PROVE RatesWithinRange
  BY Inductive, PTL
<1>1. got \in Results
  BY DEF IInv, TypeInv
<1>2. RetryRate \in 0..1000
  <2>1. /\ got.retry.retried \in Nat /\ got.retry.total \in Nat
        /\ got.retry.retried <= got.retry.total
    BY <1>1 DEF IInv, PartsInv, Results
  <2> QED
    BY <2>1, RateInRange DEF RetryRate
<1>3. ASSUME NEW c \in Channels PROVE SuccessRate(c) \in 0..1000
  <2>1. /\ got.success[c].sent \in Nat /\ got.success[c].total \in Nat
        /\ got.success[c].sent <= got.success[c].total
    BY <1>1 DEF IInv, PartsInv, Results
  <2> QED
    BY <2>1, RateInRange DEF SuccessRate
<1>4. ASSUME Answered("stats"), Unless({"created", "deleted"})
      PROVE  DeliveryRate \in 0..1000
  <2>1. PICK M, D \in SUBSET Records : Snapshot(M, D)
    BY <1>4 DEF IInv, SnapshotInv
  <2>2. got.status["sent"] <= Cardinality(M) /\ got.total = Cardinality(M)
    BY <1>4, <2>1 DEF Answered, Snapshot, StatsAgree
  <2>3. got.status["sent"] \in Nat /\ got.total \in Nat
    BY <1>1 DEF Results, Statuses
  <2>4. got.status["sent"] <= got.total
    BY <2>2, <2>3
  <2>5. Rate(got.status["sent"], got.total) \in 0..1000
    BY <2>3, <2>4, RateInRange
  <2> QED
    BY <2>5 DEF DeliveryRate
<1> QED
  BY <1>2, <1>3, <1>4 DEF RatesWithinRange

\* The figures of one answer agree while its records do not change under it
\* (getStats, getAnalytics).
THEOREM FiguresDoAgree == Safe => []FiguresAgree
<1> SUFFICES ASSUME IInv PROVE FiguresAgree
  BY Inductive, PTL
<1> SUFFICES ASSUME Unless({"created", "deleted"}) PROVE FiguresAgree
  BY DEF FiguresAgree
<1>1. PICK M, D \in SUBSET Records : D \subseteq M /\ Snapshot(M, D)
  BY DEF IInv, SnapshotInv
<1>2. ASSUME Answered("stats")
      PROVE  /\ got.total = got.retry.total
             /\ got.status["sent"] + got.status["queued"] + got.status["failed"]
                  + got.status["processing"] + got.status["pending"] = got.total
             /\ Unless({"changed"}) => (got.latency <=> got.status["sent"] > 0)
  <2>1. open = {} /\ StatsAgree(M, D)
    BY <1>1, <1>2 DEF Answered, Snapshot
  <2>2. Cardinality(D) \in Nat /\ (Cardinality(D) = 0 <=> D = {})
    BY RecordsFinite, FS_EmptySet, ParametersAssumption
  <2> QED
    BY <2>1, <2>2 DEF StatsAgree
<1>3. ASSUME Answered("analytics")
      PROVE  /\ \A c \in Channels : got.channels[c] = got.success[c].total
             /\ got.hours <= Summed(got.channels)
  <2>1. /\ got.hours = Cardinality(M \intersect Recent)
        /\ got.channels = ChannelCounts(M)
        /\ \A c \in Channels : got.success[c].total = Cardinality(OnChannel(M, c))
    BY <1>1, <1>3 DEF Answered, Snapshot, AnalyticsAgree
  <2>2. \A c \in Channels : got.channels[c] = got.success[c].total
    BY <2>1 DEF ChannelCounts
  <2>3. /\ Cardinality(M \intersect Recent) <= Cardinality(M)
        /\ Cardinality(M \intersect Recent) \in Nat
        /\ Cardinality(M) \in Nat
    <3>1. M \intersect Recent \in SUBSET M
      OBVIOUS
    <3> QED
      BY <3>1, Larger
  <2>4. got.hours <= Summed(got.channels)
    BY <2>1, <2>3, ChannelsSum
  <2> QED
    BY <2>2, <2>4
<1> QED
  BY <1>2, <1>3 DEF FiguresAgree

\* As long as no record at all is deleted, and none is created between the count
\* and the find of one page, who walks a list to its end has seen every record
\* that was there; as long as none is created nothing is shown twice
\* (listRecipients, list).
THEOREM WalkShowsAll == Safe => []WalkShowsEachOnce
<1> SUFFICES ASSUME IInv PROVE WalkShowsEachOnce
  BY Inductive, PTL
<1>1. ASSUME WalkEnded, Unless({"deleted", "createdAfterCount"}),
             NEW k \in from
      PROVE  listed[k] > 0
  <2>1. listed[k] \in Nat /\ got.count \in Nat /\ page \in Nat
    BY ParametersAssumption DEF IInv, TypeInv, TypeOK, Results
  <2>2. asked = "page" /\ open = {} /\ ~(page < TotalPages)
    BY <1>1 DEF WalkEnded, Answered, HasNext
  <2>3. SUFFICES ASSUME listed[k] = 0 PROVE FALSE
    BY <2>1
  <2>4. got.count > page * Limit
    BY <1>1, <2>2, <2>3 DEF IInv, WalkInv
  <2>5. page < TotalPages
    BY <2>1, <2>4, MorePages DEF TotalPages
  <2> QED
    BY <2>2, <2>5
<1>2. ASSUME asked = "page", Unless({"created"}), NEW k \in Records
      PROVE  listed[k] <= 1
  BY <1>2 DEF IInv, WalkInv
<1> QED
  BY <1>1, <1>2 DEF WalkShowsEachOnce
=============================================================================
