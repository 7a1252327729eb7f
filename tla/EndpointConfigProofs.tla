------------------------ MODULE EndpointConfigProofs ------------------------
(* Theorems about EndpointConfig, for every set of requests and endpoints. *)
EXTENDS EndpointConfig, TLAPS

\* A request that is past its lookup holds an address an administrator entered.
Holding ==
    /\ \A g \in Gets : pc[g] = "fill" => local[g] \in Endpoints
    /\ \A p \in Posts : pc[p] # "idle" => local[p] \in Endpoints
    /\ \A g \in Gets : pc[g] \in {"idle", "lookup", "read", "fill"}

EndpointInv == TypeOK /\ Holding

LEMMA GetKeepsInv ==
    ASSUME EndpointInv, NEW g \in Gets, Get(g) \/ GetStep(g)
    PROVE  EndpointInv'
<1> USE EndpointAssumption DEF EndpointInv, TypeOK, Holding, Requests, Values, Goto
<1>1. CASE Get(g)
  BY <1>1 DEF Get
<1>2. CASE CacheHit(g)
  BY <1>2 DEF CacheHit, Respond, Return
<1>3. CASE CacheMiss(g)
  BY <1>3 DEF CacheMiss
<1>4. CASE ReadDb(g)
  BY <1>4 DEF ReadDb, LookedUp, OrEnv, Respond, Return
<1>5. CASE ReadDbFails(g)
  BY <1>5 DEF ReadDbFails, Respond, Return
<1>6. CASE FillCache(g)
  BY <1>6 DEF FillCache, Respond, Return
<1>7. QED
  BY <1>1, <1>2, <1>3, <1>4, <1>5, <1>6 DEF GetStep

LEMMA PostKeepsInv ==
    ASSUME EndpointInv, NEW p \in Posts, Post(p) \/ PostStep(p)
    PROVE  EndpointInv'
<1> USE EndpointAssumption DEF EndpointInv, TypeOK, Holding, Requests, Values, Goto
<1>1. CASE Post(p)
  BY <1>1 DEF Post
<1>2. CASE Reachable(p) \/ Unreachable(p)
  BY <1>2 DEF Reachable, Unreachable, Return
<1>3. CASE SelectRow(p)
  BY <1>3 DEF SelectRow
<1>4. CASE Save(p) \/ SaveNothing(p) \/ SaveFails(p)
  BY <1>4 DEF Save, SaveNothing, SaveFails, Return
<1>5. CASE Invalidate(p)
  BY <1>5 DEF Invalidate
<1>6. CASE Refill(p) \/ CacheUpdateFails(p)
  BY <1>6 DEF Refill, CacheUpdateFails, Return
<1>7. QED
  BY <1>1, <1>2, <1>3, <1>4, <1>5, <1>6 DEF PostStep

LEMMA EndpointInvariant == Spec => []EndpointInv
<1>1. Init => EndpointInv
  BY EndpointAssumption DEF Init, EndpointInv, TypeOK, Holding, Requests, Values
<1>2. EndpointInv /\ [Next]_vars => EndpointInv'
  <2> SUFFICES ASSUME EndpointInv, [Next]_vars
               PROVE  EndpointInv'
    OBVIOUS
  <2>1. CASE Expire
    BY <2>1 DEF Expire, EndpointInv, TypeOK, Holding, Values
  <2>2. CASE UNCHANGED vars
    BY <2>2 DEF vars, EndpointInv, TypeOK, Holding
  <2>3. QED
    BY <2>1, <2>2, GetKeepsInv, PostKeepsInv DEF Next
<1>3. QED
  BY <1>1, <1>2, PTL DEF Spec

\* Every variable keeps its type: in particular the environment's address,
\* which is not one an administrator entered, never reaches the cache.
THEOREM EndpointTypes == Spec => []TypeOK
BY EndpointInvariant, PTL DEF EndpointInv

\* However many GETs and POSTs interleave and whenever Redis fails, a GET that
\* ends after an endpoint has been saved does not answer with the environment's,
\* unless it could not read the table.
THEOREM SavedEndpointBeatsEnv == Spec => SavedBeatsEnv
<1> DEFINE Answered(g) ==
             db # None /\ pc[g] # "idle" /\ pc'[g] = "idle" /\ ~ ReadDbFails(g)
<1>1. ASSUME EndpointInv, Next, NEW g \in Gets, Answered(g)
      PROVE  answer'[g] # Env
  <2> USE EndpointAssumption DEF EndpointInv, TypeOK, Holding, Requests, Values
  <2>1. CASE GetStep(g)
    BY <1>1, <2>1
       DEF GetStep, CacheHit, CacheMiss, ReadDb, ReadDbFails, FillCache, LookedUp,
           OrEnv, Respond, Return, Goto
  <2>2. CASE Expire
    BY <1>1, <2>2 DEF Expire
  <2>3. ASSUME NEW h \in Gets, Get(h) \/ GetStep(h), h # g
        PROVE  pc'[g] = pc[g]
    BY <1>1, <2>3 DEF Get, GetStep, CacheHit, CacheMiss, ReadDb, ReadDbFails, FillCache,
                Respond, Return, Goto
  <2>4. ASSUME NEW p \in Posts, Post(p) \/ PostStep(p)
        PROVE  pc'[g] = pc[g]
    BY <1>1, <2>4 DEF Post, PostStep, Reachable, Unreachable, SelectRow, Save, SaveNothing,
                SaveFails, Invalidate, Refill, CacheUpdateFails, Return, Goto
  <2>5. CASE Get(g)
    BY <1>1, <2>5 DEF Get
  <2>6. QED
    BY <1>1, <2>1, <2>2, <2>3, <2>4, <2>5 DEF Next
<1>2. EndpointInv /\ [Next]_vars
        => [\A g \in Gets : Answered(g) => answer'[g] # Env]_vars
  BY <1>1
<1>3. QED
  BY <1>2, EndpointInvariant, PTL DEF Spec, SavedBeatsEnv
=============================================================================
