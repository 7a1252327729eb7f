------------------------- MODULE TableReadersProofs -------------------------
(***************************************************************************)
(* Theorems about TableReaders, for tables of any size, any number of      *)
(* syncs and any parameters of the requests: the types, and what the       *)
(* answers say of the tables although each is read in several statements.  *)
(***************************************************************************)
EXTENDS TableReaders, FiniteSetTheorems, TLAPS

-----------------------------------------------------------------------------
(* The inductive invariants.                                               *)

Statements ==
    [ai |-> {"count", "page", "recount"},
     latest |-> {"ids", "metadata", "strikes"},
     prefix |-> {"rows", "batch"}]

\* A request is at a statement of its route and holds rows of the table that
\* the route lists; only GET /cve/latest reads the details one by one.
InRoute ==
    /\ pc \in {"idle"} \union Statements[query.route]
    /\ IF query.route = "ai"
          THEN found \subseteq AiStrikes /\ gathered \subseteq AiStrikes
          ELSE found \subseteq Cves /\ gathered \subseteq Cves
    /\ todo # {} <=> pc \in {"metadata", "strikes"}
    /\ pc = "recount" => query.filter

RouteInv == TypeOK /\ InRoute

\* A CVE that is kept is mapped.  A listing in one page holds all of them from
\* its first statement on.
KeptInPage ==
    /\ kept \subseteq store.cve
    /\ /\ query.route = "latest" /\ query.page = 1 /\ ~ query.filter
       /\ query.limit >= Cardinality(Cves)
       => /\ pc \in {"metadata", "strikes"} => kept \subseteq found
          /\ pc = "idle" => kept \subseteq gathered

\* What a request for AI strikes holds between its statements while no table
\* changes.
AiHolds ==
    ~ moved /\ query.route = "ai" =>
        /\ pc = "page" => total = Cardinality(OfType)
        /\ pc \in {"recount", "idle"} =>
              /\ found \subseteq WantedAi
              /\ query.page = 1 /\ query.limit >= Cardinality(store.ai) => found = WantedAi
        /\ pc = "idle" => total = Cardinality(WantedAi)

\* While no table changes, the details belong to CVEs that are still mapped.
DetailsHold ==
    ~ moved =>
        /\ pc \in {"metadata", "strikes"} => found \subseteq store.cve
        /\ \A r \in records : r.testable = (r.id \in store.cve) /\ r.profiled = r.testable

\* The place of a CVE among those of a set, from 0.
Place(ids, c) == Cardinality({d \in ids : d < c})

\* The first n of them.
Leading(ids, n) == {c \in ids : Place(ids, c) < n}

\* While no table changes, a walk has shown the CVEs of its pages so far.
WalkHolds ==
    ~ moved /\ query.route = "latest" /\ ~ query.filter =>
        /\ ~ twice
        /\ pc # "idle" => gathered = Leading(store.cve, Offset(query))
        /\ pc \in {"metadata", "strikes", "idle"} => found = Slice(store.cve)
        /\ pc = "idle" => gathered = Leading(store.cve, Offset(query) + PageLength(query))

-----------------------------------------------------------------------------
(* Facts about the operators.                                              *)

\* A finite set of naturals has a least element, so the loop over the ids has
\* a next one: the set of the ids up to it is minimal among those sets.
LEMMA LeastExists ==
  ASSUME NEW S, S \subseteq Nat, IsFiniteSet(S), S # {}
  PROVE  \E c \in S : \A d \in S : c <= d
<1> DEFINE Upto(c) == {e \in S : e <= c}
           F == {Upto(c) : c \in S}
<1>1. F \subseteq FiniteSubsetsOf(S) /\ F # {}
  <2>1. F \subseteq SUBSET S /\ F # {}
    OBVIOUS
  <2> QED
    BY <2>1, FS_FiniteSubsetsOfFinite
<1> HIDE DEF F
<1>2. PICK M \in F : \A N \in F : ~ (<<N, M>> \in StrictSubsetOrdering(S))
  BY <1>1, WFMin, FS_StrictSubsetOrderingWellFounded
<1>3. PICK c \in S : M = Upto(c)
  BY <1>2 DEF F
<1>4. ASSUME NEW d \in S
      PROVE  c <= d
  <2> SUFFICES ASSUME d < c
               PROVE  FALSE
    OBVIOUS
  <2>1. \A e \in S : e \in Nat
    OBVIOUS
  <2>2. \A e \in S : e <= d => e <= c
    BY <2>1
  <2>3. Upto(d) \subseteq M
    BY <1>3, <2>2
  <2>4. c \in M /\ c \notin Upto(d)
    BY <1>3, <2>1
  <2>5. Upto(d) \in F /\ M \subseteq S
    BY <1>3 DEF F
  <2> HIDE DEF Upto
  <2>6. <<Upto(d), M>> \in StrictSubsetOrdering(S)
    BY <2>3, <2>4, <2>5 DEF StrictSubsetOrdering
  <2> QED
    BY <1>2, <2>5, <2>6
<1> QED
  BY <1>4

\* NextId is one of the ids that are still to be read.
LEMMA NextIdInTodo ==
  ASSUME todo \subseteq Cves, todo # {}
  PROVE  NextId \in todo
BY LeastExists, FS_Subset, ReadersAssumption DEF NextId

\* The places of n CVEs are below n.
LEMMA PlaceType ==
  ASSUME NEW S, S \subseteq Nat, IsFiniteSet(S), NEW c \in S
  PROVE  Place(S, c) \in Nat /\ Cardinality(S) \in Nat /\ Place(S, c) < Cardinality(S)
<1> DEFINE B == {d \in S : d < c}
<1>1. B \subseteq S /\ c \notin B
  OBVIOUS
<1>2. IsFiniteSet(B) /\ Cardinality(B) \in Nat /\ Cardinality(S) \in Nat
  BY <1>1, FS_Subset, FS_CardinalityType
<1>3. Cardinality(B) <= Cardinality(S) /\ Cardinality(B) # Cardinality(S)
  BY <1>1, FS_Subset
<1> QED
  BY <1>2, <1>3 DEF Place

\* The places follow the order of the ids.
LEMMA PlaceOrder ==
  ASSUME NEW S, S \subseteq Nat, IsFiniteSet(S), NEW c \in S, NEW d \in S, c < d
  PROVE  Place(S, c) < Place(S, d)
<1> DEFINE B == {e \in S : e < c}
           D == {e \in S : e < d}
<1>1. \A e \in S : e < c => e < d
  <2> TAKE e \in S
  <2>1. e \in Nat /\ c \in Nat /\ d \in Nat
    OBVIOUS
  <2> QED
    BY <2>1
<1>2. c \in Nat /\ ~ (c < c)
  OBVIOUS
<1>3. B \subseteq D /\ c \in D /\ c \notin B /\ D \subseteq S
  BY <1>1, <1>2
<1>4. IsFiniteSet(D) /\ IsFiniteSet(B)
  BY <1>3, FS_Subset
<1>5. Cardinality(D) \in Nat /\ Cardinality(B) \in Nat
  BY <1>4, FS_CardinalityType
<1>6. Cardinality(B) <= Cardinality(D) /\ Cardinality(B) # Cardinality(D)
  BY <1>3, <1>4, FS_Subset
<1> QED
  BY <1>5, <1>6 DEF Place

\* No two CVEs have the same place.
LEMMA PlaceInjective ==
  ASSUME NEW S, S \subseteq Nat, IsFiniteSet(S), NEW c \in S, NEW d \in S,
         Place(S, c) = Place(S, d)
  PROVE  c = d
<1>1. /\ c \in Nat /\ d \in Nat
      /\ Place(S, c) \in Nat /\ Place(S, d) \in Nat
  BY PlaceType
<1>2. c < d => Place(S, c) < Place(S, d)
  BY PlaceOrder
<1>3. d < c => Place(S, d) < Place(S, c)
  BY PlaceOrder
<1> QED
  BY <1>1, <1>2, <1>3

\* Every place below the number of CVEs is taken.
LEMMA PlacesAreTaken ==
  ASSUME NEW S, S \subseteq Nat, IsFiniteSet(S), NEW n \in Nat, n < Cardinality(S)
  PROVE  \E c \in S : Place(S, c) = n
<1> DEFINE T == 0 .. Cardinality(S) - 1
           f == [c \in S |-> Place(S, c)]
<1>1. Cardinality(S) \in Nat
  BY FS_CardinalityType
<1>2. Cardinality(S) >= 1 /\ Cardinality(S) - 1 \in Int
  BY <1>1
<1>3. IsFiniteSet(T) /\ Cardinality(T) = Cardinality(S)
  BY <1>1, <1>2, FS_Interval
<1>4. \A c \in S : Place(S, c) \in T
  <2> TAKE c \in S
  <2>1. Place(S, c) \in Nat /\ Place(S, c) < Cardinality(S)
    BY PlaceType
  <2> QED
    BY <1>1, <2>1
<1>5. f \in [S -> T]
  BY <1>4
<1>6. \A c, d \in S : f[c] = f[d] => c = d
  BY PlaceInjective
<1> HIDE DEF f
<1>7. f \in Injection(S, T)
  BY <1>5, <1>6 DEF Injection, IsInjective
<1> HIDE DEF T
<1>8. f \in Surjection(S, T)
  BY <1>3, <1>7, FS_Injection
<1>9. n \in T
  BY <1>1 DEF T
<1>10. PICK c \in S : f[c] = n
  BY <1>8, <1>9 DEF Surjection
<1> QED
  BY <1>10 DEF f

\* The offset of a page is a number, and that of the next page follows the
\* last row of this one.
LEMMA OffsetType ==
  ASSUME NEW q \in Queries
  PROVE  /\ q.limit \in Nat \ {0} /\ q.page \in Nat \ {0}
         /\ Offset(q) \in Nat /\ PageLength(q) = q.limit
         /\ q.page = 1 => Offset(q) = 0
         /\ Offset([q EXCEPT !.page = q.page + 1]) = Offset(q) + PageLength(q)
<1>1. q.limit \in Nat \ {0} /\ q.page \in Nat \ {0}
  <2>1. q.limit \in Limits /\ q.page \in 1 .. MaxPage
    BY DEF Queries
  <2>2. \A m \in Nat : \A i \in 1 .. m : i \in Nat \ {0}
    OBVIOUS
  <2>3. MaxPage \in Nat /\ Limits \subseteq Nat \ {0}
    BY ReadersAssumption
  <2>4. q.page \in Nat \ {0}
    BY <2>1, <2>2, <2>3
  <2> QED
    BY <2>1, <2>3, <2>4
<1> DEFINE p == q.page
           l == q.limit
<1>2. p \in Nat \ {0} /\ l \in Nat \ {0}
  BY <1>1
<1>3. Offset(q) = (p - 1) * l /\ PageLength(q) = l
  BY DEF Offset, PageLength
<1>4. Offset([q EXCEPT !.page = q.page + 1]) = (p + 1 - 1) * l
  BY DEF Offset, Queries
<1> HIDE DEF p, l
<1>5. PICK k \in Nat : p = k + 1
  BY <1>2
<1>6. (p - 1) * l = k * l /\ (p + 1 - 1) * l = (k + 1) * l
  BY <1>2, <1>5
<1>7. k * l \in Nat /\ (k + 1) * l = k * l + l /\ 0 * l = 0
  BY <1>2
<1>8. k = 0 => k * l = 0
  BY <1>7
<1>9. (p - 1) * l \in Nat /\ (p = 1 => (p - 1) * l = 0)
      /\ (p + 1 - 1) * l = (p - 1) * l + l
  BY <1>5, <1>6, <1>7, <1>8
<1> QED
  BY <1>1, <1>3, <1>4, <1>9 DEF p, l

\* The places of the ids of a page.
LEMMA SliceMember ==
  ASSUME NEW S
  PROVE  Slice(S) = {c \in S : /\ Offset(query) <= Place(S, c)
                               /\ Place(S, c) < Offset(query) + PageLength(query)}
BY DEF Slice, Place

\* A page has no more ids than its limit.
LEMMA SliceBound ==
  ASSUME NEW S \in SUBSET Cves, query \in Queries
  PROVE  /\ Slice(S) \subseteq S
         /\ IsFiniteSet(Slice(S)) /\ Cardinality(Slice(S)) <= query.limit
<1> DEFINE o == Offset(query)
           l == query.limit
           T == o .. (o + l - 1)
           f == [c \in Slice(S) |-> Place(S, c)]
<1>1. S \subseteq Nat /\ IsFiniteSet(S)
  BY ReadersAssumption, FS_Subset
<1>2. o \in Nat /\ l \in Nat \ {0} /\ PageLength(query) = l
  BY OffsetType DEF PageLength
<1>3. /\ Slice(S) \subseteq S
      /\ \A c \in Slice(S) : o <= Place(S, c) /\ Place(S, c) < o + l
  BY <1>2, SliceMember
<1> HIDE DEF o, l
<1>4. IsFiniteSet(T) /\ Cardinality(T) = l
  <2>1. o \in Int /\ o + l - 1 \in Int /\ o <= o + l - 1 /\ (o + l - 1) - o + 1 = l
    BY <1>2
  <2> QED
    BY <2>1, FS_Interval
<1>5. ASSUME NEW c \in Slice(S)
      PROVE  Place(S, c) \in T
  <2>1. Place(S, c) \in Nat
    BY <1>1, <1>3, PlaceType
  <2> QED
    BY <1>2, <1>3, <2>1
<1>6. \A c, d \in Slice(S) : f[c] = f[d] => c = d
  BY <1>1, <1>3, PlaceInjective
<1> HIDE DEF T
<1>7. f \in [Slice(S) -> T]
  BY <1>5
<1> HIDE DEF f
<1>8. f \in Injection(Slice(S), T)
  BY <1>6, <1>7 DEF Injection, IsInjective
<1> QED
  BY <1>3, <1>4, <1>8, FS_Injection DEF l

\* A first page that is long enough shows all of them.
LEMMA WholeSlice ==
  ASSUME NEW S \in SUBSET Cves, query \in Queries, query.page = 1,
         query.limit >= Cardinality(Cves)
  PROVE  Slice(S) = S
<1>1. S \subseteq Nat /\ IsFiniteSet(S) /\ Cardinality(S) <= Cardinality(Cves)
      /\ Cardinality(Cves) \in Nat
  BY ReadersAssumption, FS_Subset, FS_CardinalityType
<1>2. Offset(query) = 0 /\ query.limit \in Nat /\ PageLength(query) = query.limit
  BY OffsetType DEF PageLength
<1>3. ASSUME NEW c \in S
      PROVE  0 <= Place(S, c) /\ Place(S, c) < 0 + query.limit
  <2>1. Place(S, c) \in Nat /\ Cardinality(S) \in Nat /\ Place(S, c) < Cardinality(S)
    BY <1>1, PlaceType
  <2> QED
    BY <1>1, <1>2, <2>1
<1> QED
  BY <1>2, <1>3, SliceMember

\* The pages up to this one and the page itself are the ids up to the next.
LEMMA SliceExtends ==
  ASSUME NEW S \in SUBSET Cves, query \in Queries
  PROVE  LET n == Offset(query) + PageLength(query) IN
         /\ Leading(S, Offset(query)) \union Slice(S) = Leading(S, n)
         /\ Leading(S, Offset(query)) \intersect Slice(S) = {}
<1> DEFINE o == Offset(query)
           n == o + PageLength(query)
<1>1. S \subseteq Nat /\ IsFiniteSet(S)
  BY ReadersAssumption, FS_Subset
<1>2. o \in Nat /\ n \in Nat /\ o <= n
  <2>1. o \in Nat /\ PageLength(query) \in Nat \ {0}
    BY OffsetType
  <2> HIDE DEF o
  <2> QED
    BY <2>1
<1>3. Slice(S) = {c \in S : o <= Place(S, c) /\ Place(S, c) < n}
  BY SliceMember
<1> HIDE DEF o, n
<1>4. ASSUME NEW c \in S
      PROVE  /\ Place(S, c) < o => Place(S, c) < n
             /\ Place(S, c) < o <=> ~ (o <= Place(S, c))
  <2>1. Place(S, c) \in Nat
    BY <1>1, PlaceType
  <2> QED
    BY <1>2, <2>1
<1>5. Leading(S, o) \union Slice(S) = Leading(S, n)
  BY <1>3, <1>4 DEF Leading
<1>6. Leading(S, o) \intersect Slice(S) = {}
  BY <1>3, <1>4 DEF Leading
<1> QED
  BY <1>5, <1>6 DEF o, n

\* An empty page means that the pages before it have shown all.
LEMMA EmptySliceEnds ==
  ASSUME NEW S \in SUBSET Cves, query \in Queries, Slice(S) = {}
  PROVE  Leading(S, Offset(query) + PageLength(query)) = S
<1> DEFINE o == Offset(query)
           n == o + PageLength(query)
<1>1. S \subseteq Nat /\ IsFiniteSet(S) /\ Cardinality(S) \in Nat
  BY ReadersAssumption, FS_Subset, FS_CardinalityType
<1>2. o \in Nat /\ n \in Nat /\ o < n
  <2>1. o \in Nat /\ PageLength(query) \in Nat \ {0}
    BY OffsetType
  <2> HIDE DEF o
  <2> QED
    BY <2>1
<1>3. Slice(S) = {c \in S : o <= Place(S, c) /\ Place(S, c) < n}
  BY SliceMember
<1> HIDE DEF o, n
<1>4. ~ (o < Cardinality(S))
  <2> SUFFICES ASSUME o < Cardinality(S)
               PROVE  FALSE
    OBVIOUS
  <2>1. PICK c \in S : Place(S, c) = o
    BY <1>1, <1>2, PlacesAreTaken
  <2> QED
    BY <1>2, <1>3, <2>1
<1>5. ASSUME NEW c \in S
      PROVE  Place(S, c) < n
  <2>1. Place(S, c) \in Nat /\ Place(S, c) < Cardinality(S)
    BY <1>1, PlaceType
  <2> QED
    BY <1>1, <1>2, <1>4, <2>1
<1> QED
  BY <1>5 DEF Leading, n, o

\* Nothing comes before the first page.
LEMMA LeadingNone ==
  ASSUME NEW S \in SUBSET Cves
  PROVE  Leading(S, 0) = {}
<1>1. S \subseteq Nat /\ IsFiniteSet(S)
  BY ReadersAssumption, FS_Subset
<1>2. \A c \in S : Place(S, c) \in Nat
  BY <1>1, PlaceType
<1> QED
  BY <1>2 DEF Leading

-----------------------------------------------------------------------------
(* Types and routes.                                                       *)

\* The rows of a page are finitely many.
LEMMA FoundFinite ==
  ASSUME TypeOK
  PROVE  IsFiniteSet(found) /\ Cardinality(found) \in Nat
<1>1. IsFiniteSet(found)
  BY ReadersAssumption, FS_Subset DEF TypeOK
<1> QED
  BY <1>1, FS_CardinalityType

\* So are the AI strikes that are asked for, and a page of them is no longer
\* than its limit.
LEMMA StrikesFinite ==
  ASSUME TypeOK
  PROVE  /\ store.ai \subseteq AiStrikes /\ IsFiniteSet(store.ai)
         /\ OfType \subseteq store.ai /\ IsFiniteSet(OfType)
         /\ Cardinality(OfType) \in 0 .. Cardinality(AiStrikes)
         /\ Cardinality(OfType \intersect Genuine) \in 0 .. Cardinality(AiStrikes)
         /\ Cardinality(OfType) \in Nat
         /\ RowsLeft(query, Cardinality(OfType)) <= query.limit
<1>1. store.ai \subseteq AiStrikes /\ OfType \subseteq store.ai
  BY DEF TypeOK, Contents, OfType
<1>2. IsFiniteSet(AiStrikes) /\ Cardinality(AiStrikes) \in Nat
  BY ReadersAssumption, FS_CardinalityType
<1>3. ASSUME NEW S \in SUBSET AiStrikes
      PROVE  IsFiniteSet(S) /\ Cardinality(S) \in Nat /\ Cardinality(S) \in 0 .. Cardinality(AiStrikes)
  <2>1. IsFiniteSet(S) /\ Cardinality(S) <= Cardinality(AiStrikes)
    BY <1>2, FS_Subset
  <2>2. Cardinality(S) \in Nat
    BY <2>1, FS_CardinalityType
  <2> QED
    BY <1>2, <2>1, <2>2
<1>4. RowsLeft(query, Cardinality(OfType)) <= query.limit
  <2>1. Offset(query) \in Nat /\ PageLength(query) = query.limit /\ query.limit \in Nat
    BY OffsetType DEF TypeOK
  <2>2. Cardinality(OfType) \in Nat
    BY <1>1, <1>3
  <2> HIDE DEF Offset
  <2> QED
    BY <2>1, <2>2 DEF RowsLeft
<1> QED
  BY <1>1, <1>3, <1>4

\* The first states have the types.
LEMMA RouteInit == Init => RouteInv
<1> SUFFICES ASSUME Init
             PROVE  RouteInv
  OBVIOUS
<1>1. store \in Contents /\ phase \in [Syncs -> Sync!Phases]
  BY DEF Init, Sync!Init, Sync!Phases, NoRows, Contents
<1>2. query \in Queries
  <2>1. PICK l \in Limits : TRUE
    BY ReadersAssumption
  <2>2. MaxPage \in Nat \ {0}
    BY ReadersAssumption
  <2>3. 1 \in 1 .. MaxPage
    BY <2>2
  <2>4. [route |-> "ai", page |-> 1, limit |-> l, filter |-> FALSE, typed |-> FALSE] \in Queries
    BY <2>3 DEF Queries
  <2>5. \E q \in Queries : q.page = 1
    BY <2>4
  <2> QED
    BY <2>5 DEF Init
<1>3. Cardinality(found) = 0 /\ query.limit \in Nat
  BY <1>2, FS_EmptySet, OffsetType DEF Init
<1>4. Cardinality(AiStrikes) \in Nat
  BY ReadersAssumption, FS_CardinalityType
<1>5. total \in 0 .. Cardinality(AiStrikes)
  BY <1>4 DEF Init
<1>6. /\ known \subseteq Cves /\ pc = "idle"
      /\ found = {} /\ todo = {} /\ records = {} /\ gathered = {} /\ kept = {}
      /\ metadata = FALSE /\ twice = FALSE /\ moved = FALSE
  BY DEF Init
<1>7. Cardinality(found) <= query.limit
  BY <1>3
<1>8. TypeOK
  BY <1>1, <1>2, <1>5, <1>6, <1>7 DEF TypeOK
<1> QED
  BY <1>6, <1>8 DEF RouteInv, InRoute

\* A request starts at the first statement of its route with nothing found.
LEMMA AskTyped ==
  ASSUME RouteInv, NEW q \in Queries, Ask(q),
         gathered' \subseteq IF q.route = "ai" THEN AiStrikes ELSE Cves,
         twice' \in BOOLEAN, moved' \in BOOLEAN, kept' \subseteq Cves
  PROVE  RouteInv'
<1>1. q.route \in {"ai", "latest", "prefix"} /\ q.limit \in Nat
  BY OffsetType DEF Queries
<1>2. Cardinality({}) = 0
  BY FS_EmptySet
<1>3. pc' \in Statements[q.route] /\ pc' \in {"count", "ids", "rows"}
  BY <1>1 DEF Ask, FirstStatement, Statements
<1>4. TypeOK'
  BY <1>1, <1>2, <1>3 DEF RouteInv, TypeOK, Ask, tables
<1> QED
  BY <1>3, <1>4 DEF RouteInv, InRoute, Ask

\* A response leaves a request that shows rows of its route.
LEMMA AnswerTyped ==
  ASSUME RouteInv, NEW shown, Answer(shown),
         shown \subseteq IF query.route = "ai" THEN AiStrikes ELSE Cves,
         found' \subseteq IF query.route = "ai" THEN AiStrikes ELSE Cves,
         query.route # "prefix" => Cardinality(found') <= query.limit,
         records' \subseteq Record, total' \in 0 .. Cardinality(AiStrikes)
  PROVE  RouteInv'
<1>1. TypeOK'
  <2>1. {metadata', twice', moved'} \subseteq BOOLEAN
    BY DEF RouteInv, TypeOK, Answer
  <2>2. gathered' \subseteq Cves \/ gathered' \subseteq AiStrikes
    BY DEF RouteInv, InRoute, Answer
  <2> QED
    BY <2>1, <2>2 DEF RouteInv, TypeOK, Answer, tables
<1> QED
  BY <1>1 DEF RouteInv, InRoute, Answer

\* The syncs put what a usable fetch holds into the tables.
LEMMA SyncTyped ==
  ASSUME TypeOK, Sync!Next
  PROVE  store' \in Contents /\ phase' \in [Syncs -> Sync!Phases]
<1> USE DEF TypeOK, Sync!Phases
<1>1. CASE Sync!Restart
  BY <1>1 DEF Sync!Restart
<1>2. ASSUME NEW s \in Syncs, Sync!Start(s) \/ Sync!Publish(s) \/ Sync!Finish(s)
      PROVE  store' \in Contents /\ phase' \in [Syncs -> Sync!Phases]
  BY <1>2, ReadersAssumption DEF Sync!Start, Sync!Publish, Sync!Finish
<1> QED
  BY <1>1, <1>2 DEF Sync!Next

\* What the record of a CVE is made of.
LEMMA RecordType ==
  ASSUME NEW c \in Cves, NEW a \in BOOLEAN, NEW b \in BOOLEAN
  PROVE  [id |-> c, profiled |-> a, testable |-> b] \in Record
BY DEF Record

\* Every step keeps the types and the routes.
LEMMA RouteStep == RouteInv /\ [Next]_vars => RouteInv'
<1> SUFFICES ASSUME RouteInv, [Next]_vars
             PROVE  RouteInv'
  OBVIOUS
<1>0. TypeOK /\ InRoute
  BY DEF RouteInv
<1>1. CASE FirstPage
  <2>1. PICK q \in Queries : Ask(q)
    BY <1>1 DEF FirstPage
  <2>2. gathered' = {} /\ twice' = FALSE /\ kept' = store.cve /\ moved' = FALSE
    BY <1>1 DEF FirstPage
  <2>3. kept' \subseteq Cves
    BY <1>0, <2>2 DEF TypeOK, Contents
  <2> QED
    BY <2>1, <2>2, <2>3, AskTyped
<1>2. CASE NextPage
  <2> DEFINE q == [query EXCEPT !.page = query.page + 1]
  <2>1. Ask(q) /\ UNCHANGED walk /\ query.page < MaxPage
    BY <1>2 DEF NextPage
  <2>2. q \in Queries /\ q.route = query.route
    <3>1. query \in Queries /\ query.page \in Nat \ {0} /\ MaxPage \in Nat
      BY <1>0, OffsetType, ReadersAssumption DEF TypeOK
    <3>2. query.page + 1 \in 1 .. MaxPage
      BY <2>1, <3>1
    <3> QED
      BY <3>1, <3>2 DEF Queries
  <2>3. /\ gathered' \subseteq IF q.route = "ai" THEN AiStrikes ELSE Cves
        /\ twice' \in BOOLEAN /\ moved' \in BOOLEAN /\ kept' \subseteq Cves
    BY <1>0, <2>1, <2>2 DEF TypeOK, InRoute, walk
  <2> HIDE DEF q
  <2> QED
    BY <2>1, <2>2, <2>3, AskTyped
<1>3. CASE Count
  <2>1. total' \in 0 .. Cardinality(AiStrikes) /\ query.route = "ai"
    BY <1>0, <1>3, StrikesFinite DEF Count, InRoute, Statements, TypeOK, Queries
  <2> QED
    BY <1>0, <1>3, <2>1 DEF Count, RouteInv, TypeOK, InRoute, Statements, tables, walk
<1>4. CASE Page
  <2>1. query.route = "ai"
    BY <1>0, <1>4 DEF Page, InRoute, Statements, TypeOK, Queries
  <2>2. PICK rows \in SUBSET OfType :
          /\ Cardinality(rows) = RowsLeft(query, Cardinality(OfType))
          /\ \/ query.filter /\ found' = rows \intersect Genuine /\ pc' = "recount"
                   /\ UNCHANGED <<tables, walk, query, todo, metadata>>
             \/ ~ query.filter /\ found' = rows /\ Answer(rows)
    BY <1>4 DEF Page
  <2>3. rows \subseteq AiStrikes /\ IsFiniteSet(rows) /\ Cardinality(rows) <= query.limit
    BY <1>0, <2>2, StrikesFinite, FS_Subset
  <2>4. UNCHANGED <<records, total>>
    BY <1>4 DEF Page
  <2>5. CASE query.filter /\ found' = rows \intersect Genuine /\ pc' = "recount"
             /\ UNCHANGED <<tables, walk, query, todo, metadata>>
    <3>1. Cardinality(rows \intersect Genuine) <= Cardinality(rows)
      BY <2>3, FS_Intersection
    <3>2. /\ Cardinality(rows \intersect Genuine) \in Nat /\ Cardinality(rows) \in Nat
          /\ query.limit \in Nat
      BY <1>0, <2>3, FS_Intersection, FS_CardinalityType, OffsetType DEF TypeOK
    <3>3. Cardinality(found') <= query.limit
      BY <2>3, <2>5, <3>1, <3>2
    <3>4. todo = {}
      BY <1>0, <1>4 DEF InRoute, Page
    <3> QED
      BY <1>0, <1>4, <2>1, <2>3, <2>4, <2>5, <3>3, <3>4
      DEF Page, RouteInv, TypeOK, InRoute, Statements, tables, walk
  <2>6. CASE ~ query.filter /\ found' = rows /\ Answer(rows)
    BY <1>0, <2>1, <2>3, <2>4, <2>6, AnswerTyped DEF TypeOK
  <2> QED
    BY <2>2, <2>5, <2>6
<1>5. CASE Recount
  <2>1. query.route = "ai"
    BY <1>0, <1>5 DEF Recount, InRoute, Statements, TypeOK, Queries
  <2>2. total' \in 0 .. Cardinality(AiStrikes)
    BY <1>0, <1>5, StrikesFinite DEF Recount, Recounted
  <2> QED
    BY <1>0, <1>5, <2>1, <2>2, AnswerTyped DEF Recount, TypeOK, InRoute
<1>6. CASE Ids
  <2>1. query.route = "latest" /\ store.cve \in SUBSET Cves /\ query \in Queries
    BY <1>0, <1>6 DEF Ids, InRoute, Statements, TypeOK, Queries, Contents
  <2>2. found' = Slice(store.cve) /\ UNCHANGED <<records, total>>
    BY <1>6 DEF Ids
  <2>3. found' \subseteq Cves /\ Cardinality(found') <= query.limit
    BY <2>1, <2>2, SliceBound
  <2>4. CASE Answer({})
    BY <1>0, <2>1, <2>2, <2>3, <2>4, AnswerTyped DEF TypeOK
  <2>5. CASE found' # {} /\ todo' = found' /\ pc' = "metadata"
             /\ UNCHANGED <<tables, walk, query, metadata>>
    BY <1>0, <2>1, <2>2, <2>3, <2>5
    DEF RouteInv, TypeOK, InRoute, Statements, tables, walk
  <2> QED
    BY <1>6, <2>4, <2>5 DEF Ids
<1>7. CASE ReadMetadata
  <2>1. query.route = "latest"
    BY <1>0, <1>7 DEF ReadMetadata, InRoute, Statements, TypeOK, Queries
  <2>2. metadata' \in BOOLEAN
    BY <1>7 DEF ReadMetadata
  <2> QED
    BY <1>0, <1>7, <2>1, <2>2
    DEF ReadMetadata, RouteInv, TypeOK, InRoute, Statements, tables, walk
<1>8. CASE ReadStrikes
  <2>1. query.route = "latest" /\ todo # {} /\ todo \subseteq found /\ found \subseteq Cves
    BY <1>0, <1>8 DEF ReadStrikes, InRoute, Statements, TypeOK, Queries
  <2>2. NextId \in todo /\ NextId \in Cves
    BY <2>1, NextIdInTodo
  <2>3. /\ \/ records' = records \union {Latest(NextId)} /\ found' = found
           \/ records' = records /\ found' = found \ {NextId}
        /\ total' = total
    BY <1>8 DEF ReadStrikes
  <2>4. records' \subseteq Record
    <3>1. Latest(NextId) \in Record
      <4> DEFINE a == NextId \in store.cve
                 b == IF metadata THEN NextId \in store.cve ELSE TRUE
      <4>1. a \in BOOLEAN
        OBVIOUS
      <4>2. b = a \/ b = TRUE
        OBVIOUS
      <4>3. a \in BOOLEAN /\ b \in BOOLEAN
        BY <4>1, <4>2
      <4>4. Latest(NextId) = [id |-> NextId, profiled |-> a, testable |-> b]
        BY DEF Latest
      <4> HIDE DEF a, b
      <4> QED
        BY <2>2, <4>3, <4>4, RecordType
    <3> QED
      BY <1>0, <2>3, <3>1 DEF TypeOK
  <2>5. found' \subseteq found /\ Cardinality(found') <= query.limit
    <3>1. found' \subseteq found /\ found \ {NextId} \subseteq found
      BY <2>3
    <3>2. /\ IsFiniteSet(found) /\ Cardinality(found) \in Nat /\ query.limit \in Nat
          /\ Cardinality(found) <= query.limit
      BY <1>0, <2>1, FoundFinite, OffsetType DEF TypeOK
    <3>3. IsFiniteSet(found') /\ Cardinality(found') <= Cardinality(found)
      BY <3>1, <3>2, FS_Subset
    <3>4. Cardinality(found') \in Nat
      BY <3>3, FS_CardinalityType
    <3> QED
      BY <3>1, <3>2, <3>3, <3>4
  <2>6. CASE Answer(found')
    BY <1>0, <2>1, <2>3, <2>4, <2>5, <2>6, AnswerTyped DEF TypeOK
  <2>7. CASE todo # {NextId} /\ todo' = todo \ {NextId} /\ pc' = "metadata"
             /\ UNCHANGED <<tables, walk, query, metadata>>
    <3>1. todo' # {} /\ todo' \subseteq found'
      BY <2>1, <2>2, <2>3, <2>7
    <3> QED
      BY <1>0, <2>1, <2>3, <2>4, <2>5, <2>7, <3>1
      DEF RouteInv, TypeOK, InRoute, Statements, tables, walk
  <2> QED
    BY <1>8, <2>6, <2>7 DEF ReadStrikes
<1>9. CASE Rows
  <2>1. query.route = "prefix" /\ todo = {}
    BY <1>0, <1>9 DEF Rows, InRoute, Statements, TypeOK, Queries
  <2>2. found' \subseteq Cves /\ UNCHANGED <<records, total>>
    BY <1>0, <1>9 DEF Rows, Matching, TypeOK
  <2>3. CASE Answer({})
    BY <1>0, <2>1, <2>2, <2>3, AnswerTyped DEF TypeOK
  <2>4. CASE pc' = "batch" /\ UNCHANGED <<tables, walk, query, todo, metadata>>
    BY <1>0, <2>1, <2>2, <2>4 DEF RouteInv, TypeOK, InRoute, Statements, tables, walk
  <2> QED
    BY <1>9, <2>3, <2>4 DEF Rows
<1>10. CASE Batch
  <2>1. query.route = "prefix" /\ found \subseteq Cves
    BY <1>0, <1>10 DEF Batch, InRoute, Statements, TypeOK, Queries
  <2>2. found' \subseteq Cves /\ Answer(found') /\ total' = total
    BY <1>10, <2>1 DEF Batch
  <2>3. records' \subseteq Record
    <3> DEFINE a(c) == c \in Mapped(found)
               R(c) == [id |-> c, profiled |-> a(c), testable |-> a(c)]
    <3>1. records' = {R(c) : c \in found'}
      BY <1>10 DEF Batch
    <3>2. ASSUME NEW c \in Cves
          PROVE  R(c) \in Record
      <4>1. a(c) \in BOOLEAN
        OBVIOUS
      <4> HIDE DEF a
      <4> QED
        BY <4>1, RecordType
    <3> HIDE DEF R
    <3> QED
      BY <2>2, <3>1, <3>2
  <2> QED
    BY <1>0, <2>1, <2>2, <2>3, AnswerTyped DEF TypeOK
<1>11. CASE SyncStep
  <2>1. store' \in Contents /\ phase' \in [Syncs -> Sync!Phases]
    BY <1>0, <1>11, SyncTyped DEF SyncStep
  <2>2. moved' \in BOOLEAN /\ kept' \subseteq Cves
    BY <1>0, <1>11 DEF SyncStep, TypeOK
  <2> QED
    BY <1>0, <1>11, <2>1, <2>2 DEF SyncStep, RouteInv, TypeOK, InRoute
<1>12. CASE Learn
  BY <1>0, <1>12 DEF Learn, RouteInv, TypeOK, InRoute
<1>13. CASE UNCHANGED vars
  BY <1>0, <1>13 DEF RouteInv, TypeOK, InRoute, vars, tables, walk
<1> QED
  BY <1>1, <1>2, <1>3, <1>4, <1>5, <1>6, <1>7, <1>8, <1>9, <1>10, <1>11, <1>12, <1>13 DEF Next

\* The types of the reading routes (routes/ai_cves.py, routes/cve.py), for
\* tables of any size: no page has more rows than its limit, the rows are of
\* the table of the route, and the total stays within the table.
THEOREM ReadersTypeCorrect == Spec => []TypeOK
<1>1. RouteInv => TypeOK
  BY DEF RouteInv
<1> QED
  BY <1>1, RouteInit, RouteStep, PTL DEF Spec

-----------------------------------------------------------------------------
(* What the answers say of the tables.                                     *)

\* Operators over the tables and the request keep their values with them.
LEMMA SameTables ==
  ASSUME store' = store, query' = query
  PROVE  /\ Slice(store.cve)' = Slice(store.cve)
         /\ Offset(query)' = Offset(query) /\ PageLength(query)' = PageLength(query)
         /\ OfType' = OfType /\ WantedAi' = WantedAi
BY DEF Slice, Offset, PageLength, OfType, WantedAi

\* The statement a request is at tells its route.
LEMMA RouteOf ==
  ASSUME RouteInv
  PROVE  /\ pc \in {"count", "page", "recount"} => query.route = "ai"
         /\ pc \in {"ids", "metadata", "strikes"} => query.route = "latest"
         /\ pc \in {"rows", "batch"} => query.route = "prefix"
BY DEF RouteInv, InRoute, Statements, TypeOK, Queries

\* The next request is at its first statement.
LEMMA AskStarts ==
  ASSUME NEW q \in Queries, Ask(q)
  PROVE  /\ query' = q /\ pc = "idle" /\ pc' \in {"count", "ids", "rows"}
         /\ q.route = "latest" => pc' = "ids"
         /\ found' = {} /\ records' = {} /\ store' = store
BY DEF Ask, FirstStatement, Queries, tables

\* The next page of a walk is asked for with the same parameters.
LEMMA NextPageAsks ==
  ASSUME RouteInv, NextPage
  PROVE  LET q == [query EXCEPT !.page = query.page + 1] IN
         /\ q \in Queries /\ Ask(q)
         /\ q.route = query.route /\ q.filter = query.filter
<1> DEFINE q == [query EXCEPT !.page = query.page + 1]
<1>1. Ask(q) /\ query.page < MaxPage
  BY DEF NextPage
<1>2. query \in Queries /\ query.page \in Nat \ {0} /\ MaxPage \in Nat
  BY OffsetType, ReadersAssumption DEF RouteInv, TypeOK
<1>3. query.page + 1 \in 1 .. MaxPage
  BY <1>1, <1>2
<1>4. q \in Queries /\ q.route = query.route /\ q.filter = query.filter
  BY <1>2, <1>3 DEF Queries
<1> QED
  BY <1>1, <1>4

\* A response shows what it is given.
LEMMA AnswerShows ==
  ASSUME NEW shown, Answer(shown)
  PROVE  /\ pc' = "idle" /\ gathered' = gathered \union shown
         /\ UNCHANGED <<store, query, kept, moved>>
BY DEF Answer, tables

\* Without a severity to filter by, every CVE passes.
LEMMA UnfilteredPass ==
  ASSUME ReadStrikes, ~ query.filter
  PROVE  found' = found
BY DEF ReadStrikes, Passes

\* Every step keeps the CVEs that a listing in one page has to show.
LEMMA KeptStep == RouteInv /\ KeptInPage /\ [Next]_vars => KeptInPage'
<1> SUFFICES ASSUME RouteInv, KeptInPage, [Next]_vars
             PROVE  KeptInPage'
  OBVIOUS
<1>1. CASE FirstPage
  <2>1. PICK q \in Queries : Ask(q)
    BY <1>1 DEF FirstPage
  <2> QED
    BY <1>1, <2>1, AskStarts DEF FirstPage, KeptInPage
<1>2. CASE NextPage
  <2> DEFINE q == [query EXCEPT !.page = query.page + 1]
  <2>1. q \in Queries /\ Ask(q) /\ UNCHANGED walk
    BY <1>2, NextPageAsks DEF NextPage
  <2> HIDE DEF q
  <2> QED
    BY <2>1, AskStarts DEF KeptInPage, walk
<1>3. CASE Count \/ Page \/ Recount \/ Rows \/ Batch
  <2>1. query.route # "latest"
    BY <1>3, RouteOf DEF Count, Page, Recount, Rows, Batch
  <2>2. query' = query /\ store' = store /\ kept' = kept
    BY <1>3 DEF Count, Page, Recount, Rows, Batch, Answer, tables, walk
  <2> QED
    BY <2>1, <2>2 DEF KeptInPage
<1>4. CASE Ids
  <2>1. store.cve \in SUBSET Cves /\ query \in Queries
    BY DEF RouteInv, TypeOK, Contents
  <2>2. found' = Slice(store.cve) /\ query' = query /\ store' = store /\ kept' = kept
    BY <1>4 DEF Ids, Answer, tables, walk
  <2>3. query.page = 1 /\ query.limit >= Cardinality(Cves) => kept \subseteq found'
    BY <2>1, <2>2, WholeSlice DEF KeptInPage
  <2>4. pc' = "metadata" \/ (pc' = "idle" /\ found' = {})
    <3>1. CASE found' = {} /\ Answer({})
      BY <3>1, AnswerShows
    <3>2. CASE pc' = "metadata"
      BY <3>2
    <3> QED
      BY <1>4, <3>1, <3>2 DEF Ids
  <2> QED
    BY <2>2, <2>3, <2>4 DEF KeptInPage
<1>5. CASE ReadMetadata
  BY <1>5 DEF ReadMetadata, KeptInPage, tables, walk
<1>6. CASE ReadStrikes
  <2>1. query' = query /\ store' = store /\ kept' = kept
    BY <1>6 DEF ReadStrikes, Answer, tables, walk
  <2>2. ~ query.filter => found' = found
    BY <1>6, UnfilteredPass
  <2>3. pc = "strikes" /\ (pc' = "metadata" \/ (pc' = "idle" /\ found' \subseteq gathered'))
    <3>1. CASE Answer(found')
      BY <1>6, <3>1, AnswerShows DEF ReadStrikes
    <3>2. CASE pc' = "metadata"
      BY <1>6, <3>2 DEF ReadStrikes
    <3> QED
      BY <1>6, <3>1, <3>2 DEF ReadStrikes
  <2> QED
    BY <2>1, <2>2, <2>3 DEF KeptInPage
<1>7. CASE SyncStep
  BY <1>7 DEF SyncStep, KeptInPage
<1>8. CASE Learn
  BY <1>8 DEF Learn, KeptInPage
<1>9. CASE UNCHANGED vars
  BY <1>9 DEF vars, tables, walk, KeptInPage
<1> QED
  BY <1>1, <1>2, <1>3, <1>4, <1>5, <1>6, <1>7, <1>8, <1>9 DEF Next

\* "Get all" (routes/cve.py:161), for tables of any size and whatever syncs
\* replace the mappings between the statements of the listing: every CVE that
\* has been mapped all the while is shown.
THEOREM GetAllAlwaysShowsKept == Spec => []GetAllShowsKept
<1>1. Init => RouteInv /\ KeptInPage
  BY RouteInit DEF Init, KeptInPage, Sync!Init
<1>2. RouteInv /\ KeptInPage => GetAllShowsKept
  BY DEF KeptInPage, GetAllShowsKept, Answered
<1> QED
  BY <1>1, <1>2, RouteStep, KeptStep, PTL DEF Spec

\* Every step keeps what is said of AI strikes.
LEMMA AiStep == RouteInv /\ AiHolds /\ [Next]_vars => AiHolds'
<1> SUFFICES ASSUME RouteInv, AiHolds, [Next]_vars
             PROVE  AiHolds'
  OBVIOUS
<1>0. TypeOK /\ InRoute
  BY DEF RouteInv
<1>1. CASE FirstPage \/ NextPage
  <2>1. pc' \in {"count", "ids", "rows"}
    BY <1>1, AskStarts, NextPageAsks DEF FirstPage
  <2> QED
    BY <2>1 DEF AiHolds
<1>2. CASE Count
  <2>1. /\ store' = store /\ query' = query /\ pc' = "page"
        /\ total' = Cardinality(OfType)
    BY <1>2 DEF Count, tables
  <2> QED
    BY <2>1, SameTables DEF AiHolds
<1>3. CASE Page
  <2>1. /\ store' = store /\ query' = query /\ moved' = moved
        /\ pc = "page" /\ total' = total
    BY <1>3 DEF Page, Answer, tables, walk
  <2>2. PICK rows \in SUBSET OfType :
          /\ Cardinality(rows) = RowsLeft(query, Cardinality(OfType))
          /\ \/ query.filter /\ found' = rows \intersect Genuine /\ pc' = "recount"
             \/ ~ query.filter /\ found' = rows /\ pc' = "idle"
    BY <1>3 DEF Page, Answer
  <2>3. found' \subseteq WantedAi
    BY <2>2 DEF WantedAi
  <2>4. ASSUME query.page = 1, query.limit >= Cardinality(store.ai)
        PROVE  found' = WantedAi
    <3>1. /\ IsFiniteSet(store.ai) /\ IsFiniteSet(OfType)
          /\ OfType \in SUBSET store.ai
      BY <1>0, StrikesFinite
    <3>2. Cardinality(OfType) \in Nat /\ Cardinality(store.ai) \in Nat
      BY <3>1, FS_CardinalityType
    <3>3. Cardinality(OfType) <= Cardinality(store.ai)
      BY <3>1, FS_Subset
    <3>4. Offset(query) = 0 /\ PageLength(query) = query.limit /\ query.limit \in Nat
      BY <1>0, <2>4, OffsetType DEF TypeOK
    <3>5. RowsLeft(query, Cardinality(OfType)) = Cardinality(OfType)
      BY <2>4, <3>2, <3>3, <3>4 DEF RowsLeft
    <3>6. rows = OfType
      BY <2>2, <3>1, <3>5, FS_Subset
    <3> QED
      BY <2>2, <3>6 DEF WantedAi
  <2>5. pc' = "idle" => WantedAi = OfType
    BY <2>2 DEF WantedAi
  <2>6. pc' \in {"recount", "idle"}
    BY <2>2
  <2> QED
    BY <2>1, <2>3, <2>4, <2>5, <2>6, SameTables DEF AiHolds
<1>4. CASE Recount
  <2>1. /\ store' = store /\ query' = query /\ moved' = moved /\ found' = found
        /\ pc = "recount" /\ pc' = "idle" /\ total' = Recounted
    BY <1>4 DEF Recount, Answer, tables
  <2>2. Recounted = Cardinality(WantedAi)
    BY <1>0, <2>1 DEF Recounted, WantedAi, InRoute
  <2> QED
    BY <2>1, <2>2, SameTables DEF AiHolds
<1>5. CASE Ids \/ ReadMetadata \/ ReadStrikes \/ Rows \/ Batch
  <2>1. query.route # "ai"
    BY <1>5, RouteOf DEF Ids, ReadMetadata, ReadStrikes, Rows, Batch
  <2>2. query' = query
    BY <1>5 DEF Ids, ReadMetadata, ReadStrikes, Rows, Batch, Answer
  <2> QED
    BY <2>1, <2>2 DEF AiHolds
<1>6. CASE SyncStep
  <2>1. UNCHANGED <<query, pc, found, total>> /\ (moved' = (moved \/ store' # store))
    BY <1>6 DEF SyncStep
  <2>2. ~ moved' => ~ moved /\ store' = store
    BY <2>1
  <2> QED
    BY <2>1, <2>2, SameTables DEF AiHolds
<1>7. CASE Learn
  BY <1>7 DEF Learn, AiHolds
<1>8. CASE UNCHANGED vars
  BY <1>8, SameTables DEF vars, tables, walk, AiHolds
<1> QED
  BY <1>1, <1>2, <1>3, <1>4, <1>5, <1>6, <1>7, <1>8 DEF Next

\* GET /ai-cves (routes/ai_cves.py:76-103), for any number of strikes: without
\* a sync in between, the total counts the whole table with both filters, and
\* a page that can hold the table shows all that is counted.
THEOREM AiTotalAlwaysCountsAll == Spec => []AiTotalCountsAll
<1>1. Init => RouteInv /\ AiHolds
  <2> SUFFICES ASSUME Init
               PROVE  AiHolds
    BY RouteInit
  <2>1. store = NoRows /\ found = {} /\ total = 0 /\ pc = "idle"
    BY DEF Init, Sync!Init
  <2>2. OfType = {} /\ WantedAi = {}
    BY <2>1 DEF OfType, WantedAi, NoRows
  <2> QED
    BY <2>1, <2>2, FS_EmptySet DEF AiHolds
<1>2. AiHolds => AiTotalCountsAll
  BY DEF AiHolds, AiTotalCountsAll, Answered
<1> QED
  BY <1>1, <1>2, RouteStep, AiStep, PTL DEF Spec

\* A record agrees with the mappings.
Truthful(r) == r.testable = (r.id \in store.cve) /\ r.profiled = r.testable

\* Every step keeps what is said of the details.
LEMMA DetailsStep == RouteInv /\ DetailsHold /\ [Next]_vars => DetailsHold'
<1> SUFFICES ASSUME RouteInv, DetailsHold, [Next]_vars
             PROVE  DetailsHold'
  OBVIOUS
<1>0. TypeOK /\ InRoute
  BY DEF RouteInv
<1>1. CASE FirstPage \/ NextPage
  <2>1. pc' \in {"count", "ids", "rows"} /\ records' = {}
    BY <1>1, AskStarts, NextPageAsks DEF FirstPage
  <2> QED
    BY <2>1 DEF DetailsHold
<1>2. CASE Count \/ Page \/ Recount \/ Rows
  <2>1. records' = records /\ store' = store /\ moved' = moved
    BY <1>2 DEF Count, Page, Recount, Rows, Answer, tables, walk
  <2>2. pc' \in {"page", "recount", "idle", "batch"}
    BY <1>2, AnswerShows DEF Count, Page, Recount, Rows
  <2> QED
    BY <2>1, <2>2 DEF DetailsHold
<1>3. CASE Ids
  <2>1. records' = records /\ store' = store /\ moved' = moved
    BY <1>3 DEF Ids, Answer, tables, walk
  <2>2. found' \subseteq store.cve
    BY <1>3 DEF Ids, Slice
  <2> QED
    BY <2>1, <2>2 DEF DetailsHold
<1>4. CASE ReadMetadata
  BY <1>4 DEF ReadMetadata, DetailsHold, tables, walk
<1>5. CASE ReadStrikes
  <2>1. store' = store /\ moved' = moved /\ pc = "strikes"
    BY <1>5 DEF ReadStrikes, Answer, tables, walk
  <2>2. NextId \in found
    <3>1. todo # {} /\ todo \subseteq found /\ todo \subseteq Cves
      BY <1>0, <2>1, RouteOf DEF TypeOK, InRoute
    <3> QED
      BY <3>1, NextIdInTodo
  <2>3. found' \subseteq found /\ records' \subseteq records \union {Latest(NextId)}
    BY <1>5 DEF ReadStrikes
  <2>4. ASSUME ~ moved
        PROVE  Truthful(Latest(NextId)) /\ found \subseteq store.cve
    <3>1. found \subseteq store.cve /\ NextId \in store.cve
      BY <2>1, <2>2, <2>4 DEF DetailsHold
    <3>2. /\ Latest(NextId).id = NextId
          /\ Latest(NextId).profiled = (NextId \in store.cve)
          /\ Latest(NextId).testable = IF metadata THEN NextId \in store.cve ELSE TRUE
      BY DEF Latest
    <3> QED
      BY <3>1, <3>2 DEF Truthful
  <2>5. ~ moved => \A r \in records' : Truthful(r)
    BY <2>3, <2>4 DEF DetailsHold, Truthful
  <2> QED
    BY <2>1, <2>3, <2>4, <2>5 DEF DetailsHold, Truthful
<1>6. CASE Batch
  <2>1. store' = store /\ moved' = moved /\ pc' = "idle"
    BY <1>6 DEF Batch, Answer, tables
  <2>2. ASSUME NEW r \in records'
        PROVE  r.testable = (r.id \in store.cve) /\ r.profiled = r.testable
    <3>1. PICK c \in found' :
            r = [id |-> c, profiled |-> c \in Mapped(found), testable |-> c \in Mapped(found)]
      BY <1>6, <2>2 DEF Batch
    <3>2. c \in found
      BY <1>6 DEF Batch
    <3>3. r.id = c /\ r.profiled = (c \in Mapped(found)) /\ r.testable = (c \in Mapped(found))
      BY <3>1
    <3>4. (c \in Mapped(found)) <=> (c \in store.cve)
      BY <3>2 DEF Mapped
    <3> QED
      BY <3>3, <3>4
  <2> QED
    BY <2>1, <2>2 DEF DetailsHold
<1>7. CASE SyncStep
  <2>1. UNCHANGED <<pc, found, records>> /\ (moved' = (moved \/ store' # store))
    BY <1>7 DEF SyncStep
  <2>2. ~ moved' => ~ moved /\ store' = store
    BY <2>1
  <2> QED
    BY <2>1, <2>2 DEF DetailsHold
<1>8. CASE Learn
  BY <1>8 DEF Learn, DetailsHold
<1>9. CASE UNCHANGED vars
  BY <1>9 DEF vars, tables, walk, DetailsHold
<1> QED
  BY <1>1, <1>2, <1>3, <1>4, <1>5, <1>6, <1>7, <1>8, <1>9 DEF Next

\* The details of the listings and of the wildcard search
\* (cve_service.py:158-183, 263-292), for tables of any size: without a change
\* in between, a CVE is said to be testable exactly if it has a strike, and its
\* strikes are listed exactly then.
THEOREM TestableAlwaysMeansMapped == Spec => []TestableMeansMapped
<1>1. Init => RouteInv /\ DetailsHold
  BY RouteInit DEF Init, DetailsHold
<1>2. DetailsHold => TestableMeansMapped
  BY DEF DetailsHold, TestableMeansMapped
<1> QED
  BY <1>1, <1>2, RouteStep, DetailsStep, PTL DEF Spec

\* A response without a CVE seen before leaves none shown twice.
LEMMA AnswerTwice ==
  ASSUME NEW shown, Answer(shown), ~ twice, gathered \intersect shown = {}
  PROVE  ~ twice'
BY DEF Answer

\* Every step keeps what is said of a walk over the pages.
LEMMA WalkStep == RouteInv /\ WalkHolds /\ [Next]_vars => WalkHolds'
<1> SUFFICES ASSUME RouteInv, WalkHolds, [Next]_vars
             PROVE  WalkHolds'
  OBVIOUS
<1> DEFINE ids == store.cve
           o == Offset(query)
           n == o + PageLength(query)
<1>0. ids \in SUBSET Cves /\ query \in Queries
  BY DEF RouteInv, TypeOK, Contents
<1>1. CASE FirstPage
  <2>1. PICK q \in Queries : q.page = 1 /\ Ask(q)
    BY <1>1 DEF FirstPage
  <2>2. twice' = FALSE /\ gathered' = {}
    BY <1>1 DEF FirstPage
  <2>3. /\ query' = q /\ store' = store
        /\ query'.route = "latest" => pc' = "ids"
    BY <2>1, AskStarts
  <2>4. Offset(query)' = 0
    <3>1. Offset(q) = 0
      BY <2>1, OffsetType
    <3> QED
      BY <2>3, <3>1 DEF Offset
  <2>5. gathered' = Leading(store'.cve, Offset(query)')
    BY <1>0, <2>2, <2>3, <2>4, LeadingNone
  <2> QED
    BY <2>2, <2>3, <2>5 DEF WalkHolds
<1>2. CASE NextPage
  <2> DEFINE q == [query EXCEPT !.page = query.page + 1]
  <2>1. /\ q \in Queries /\ Ask(q)
        /\ q.route = query.route /\ q.filter = query.filter
    BY <1>2, NextPageAsks
  <2>2. Offset(q) = n
    BY <1>0, OffsetType
  <2> HIDE DEF q
  <2>3. /\ query' = q /\ store' = store /\ pc = "idle"
        /\ query'.route = "latest" => pc' = "ids"
    BY <2>1, AskStarts
  <2>4. Offset(query)' = n
    BY <2>2, <2>3 DEF Offset
  <2>5. twice' = twice /\ gathered' = gathered /\ moved' = moved
    BY <1>2 DEF NextPage, walk
  <2> HIDE DEF n
  <2>6. ASSUME ~ moved, query.route = "latest", ~ query.filter
        PROVE  ~ twice' /\ gathered' = Leading(store'.cve, Offset(query)')
    BY <2>3, <2>4, <2>5, <2>6 DEF WalkHolds, n
  <2> QED
    BY <2>1, <2>3, <2>5, <2>6 DEF WalkHolds
<1>3. CASE Count \/ Page \/ Recount \/ Rows \/ Batch
  <2>1. query.route # "latest"
    BY <1>3, RouteOf DEF Count, Page, Recount, Rows, Batch
  <2>2. query' = query
    BY <1>3 DEF Count, Page, Recount, Rows, Batch, Answer
  <2> QED
    BY <2>1, <2>2 DEF WalkHolds
<1>4. CASE Ids
  <2>1. pc = "ids" /\ found' = Slice(ids)
    BY <1>4 DEF Ids
  <2>2. CASE found' = {} /\ Answer({})
    <3>1. UNCHANGED <<store, query, moved>> /\ pc' = "idle" /\ gathered' = gathered
      BY <2>2, AnswerShows
    <3>2. twice' = (twice \/ gathered \intersect {} # {})
      BY <2>2 DEF Answer
    <3>3. Leading(ids, o) = Leading(ids, n)
      BY <1>0, <2>1, <2>2, SliceExtends
    <3>4. ASSUME ~ moved, query.route = "latest", ~ query.filter
          PROVE  ~ twice' /\ gathered' = Leading(ids, n)
      BY <2>1, <3>1, <3>2, <3>3, <3>4 DEF WalkHolds
    <3> QED
      BY <2>1, <3>1, <3>4, SameTables DEF WalkHolds
  <2>3. CASE pc' = "metadata" /\ UNCHANGED <<tables, walk, query, metadata>>
    <3>1. UNCHANGED <<store, query, moved, gathered, twice>>
      BY <2>3 DEF tables, walk
    <3> QED
      BY <2>1, <2>3, <3>1, SameTables DEF WalkHolds
  <2> QED
    BY <1>4, <2>2, <2>3 DEF Ids
<1>5. CASE ReadMetadata
  <2>1. /\ UNCHANGED <<store, query, moved, gathered, twice, found>>
        /\ pc = "metadata" /\ pc' = "strikes"
    BY <1>5 DEF ReadMetadata, tables, walk
  <2> QED
    BY <2>1, SameTables DEF WalkHolds
<1>6. CASE ReadStrikes
  <2>1. pc = "strikes" /\ (~ query.filter => found' = found)
    BY <1>6, UnfilteredPass DEF ReadStrikes
  <2>2. CASE Answer(found')
    <3>1. /\ UNCHANGED <<store, query, moved>> /\ pc' = "idle"
          /\ gathered' = gathered \union found'
      BY <2>2, AnswerShows
    <3>2. ASSUME ~ moved, query.route = "latest", ~ query.filter
          PROVE  ~ twice' /\ found' = Slice(ids) /\ gathered' = Leading(ids, n)
      <4>1. ~ twice /\ gathered = Leading(ids, o) /\ found' = Slice(ids)
        BY <2>1, <3>2 DEF WalkHolds
      <4>2. gathered \union found' = Leading(ids, n) /\ gathered \intersect found' = {}
        BY <1>0, <4>1, SliceExtends
      <4> QED
        BY <2>2, <3>1, <4>1, <4>2, AnswerTwice
    <3> QED
      BY <3>1, <3>2, SameTables DEF WalkHolds
  <2>3. CASE pc' = "metadata" /\ UNCHANGED <<tables, walk, query, metadata>>
    <3>1. UNCHANGED <<store, query, moved, gathered, twice>>
      BY <2>3 DEF tables, walk
    <3> QED
      BY <2>1, <2>3, <3>1, SameTables DEF WalkHolds
  <2> QED
    BY <1>6, <2>2, <2>3 DEF ReadStrikes
<1>7. CASE SyncStep
  <2>1. /\ UNCHANGED <<query, pc, found, gathered, twice>>
        /\ moved' = (moved \/ store' # store)
    BY <1>7 DEF SyncStep
  <2>2. ~ moved' => ~ moved /\ store' = store
    BY <2>1
  <2> QED
    BY <2>1, <2>2, SameTables DEF WalkHolds
<1>8. CASE Learn
  BY <1>8 DEF Learn, WalkHolds
<1>9. CASE UNCHANGED vars
  BY <1>9, SameTables DEF vars, tables, walk, WalkHolds
<1> QED
  BY <1>1, <1>2, <1>3, <1>4, <1>5, <1>6, <1>7, <1>8, <1>9 DEF Next

\* The pages of GET /cve/latest (cve_service.py:139-150), for any number of
\* CVEs and any page size: without a sync in between, asking for page after
\* page until one is empty shows every mapped CVE, and none on two pages.
THEOREM LatestWalkAlwaysComplete == Spec => []LatestWalkComplete
<1>1. Init => RouteInv /\ WalkHolds
  <2> SUFFICES ASSUME Init
               PROVE  WalkHolds
    BY RouteInit
  <2>1. /\ store.cve = {} /\ found = {} /\ gathered = {}
        /\ twice = FALSE /\ pc = "idle"
    BY DEF Init, Sync!Init, NoRows
  <2>2. Slice({}) = {} /\ \A m : Leading({}, m) = {}
    BY DEF Slice, Leading
  <2> QED
    BY <2>1, <2>2 DEF WalkHolds
<1>2. RouteInv /\ WalkHolds => LatestWalkComplete
  <2> SUFFICES ASSUME RouteInv, WalkHolds, Answered("latest"), found = {},
                      ~ query.filter, ~ moved
               PROVE  gathered = store.cve /\ ~ twice
    BY DEF LatestWalkComplete
  <2>1. store.cve \in SUBSET Cves /\ query \in Queries
    BY DEF RouteInv, TypeOK, Contents
  <2>2. /\ ~ twice /\ Slice(store.cve) = {}
        /\ gathered = Leading(store.cve, Offset(query) + PageLength(query))
    BY DEF WalkHolds, Answered
  <2> QED
    BY <2>1, <2>2, EmptySliceEnds
<1> QED
  BY <1>1, <1>2, RouteStep, WalkStep, PTL DEF Spec
=============================================================================
