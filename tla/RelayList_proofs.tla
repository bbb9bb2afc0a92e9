-------------------------- MODULE RelayList_proofs --------------------------
(***************************************************************************)
(* Proofs about the list of relays: its discovery (RelayDiscovery), for    *)
(* any number of strategies and endpoints and any deadline that leaves     *)
(* time for all of them, and its cache (RelayCache), for any number of     *)
(* clients and scans, any pool and any TTL.                                *)
(*                                                                         *)
(* The three properties of the cache follow from one inductive invariant,  *)
(* IInv: what TLC checks says nothing of lists that are half copied or     *)
(* half shuffled, nor of whose slice the cached list is, and both are      *)
(* needed to show that a copy that nobody disturbed is whole.              *)
(***************************************************************************)
EXTENDS RelayCache, RelayDiscovery, FiniteSetTheorems, SequenceTheorems, TLAPS

-----------------------------------------------------------------------------
(* The share of the time that a request gets. *)

\* A share q of a, of which r of them fit into a, leaves one unit for each of the
\* others.
LEMMA ShareLeavesRest ==
  ASSUME NEW a \in Nat, NEW q \in Nat \ {0}, NEW r \in Nat \ {0}, q * r <= a
  PROVE  q <= a /\ a - q >= r - 1
<1>1. q * r = q + q * (r - 1)
  OBVIOUS
<1>2. q * (r - 1) >= r - 1
  <2> DEFINE k == r - 1
  <2>1. k \in Nat OBVIOUS
  <2>2. q * k >= k BY <2>1
  <2>3. QED BY <2>2
<1>3. QED BY <1>1, <1>2

\* A request takes no more time than there is, and no more than Cap; if there
\* was a unit for it and for each endpoint to come, these keep theirs.
LEMMA TimeoutShares ==
  ASSUME NEW s, left[s] \in Nat, endpoint[s] \in 1..Endpoints
  PROVE  /\ Timeout(s) \in 0..left[s] /\ Timeout(s) <= Cap
         /\ left[s] >= Endpoints - endpoint[s] + 1 =>
              left[s] - Timeout(s) >= Endpoints - endpoint[s]
<1> DEFINE rem == Endpoints - endpoint[s] + 1
           share == left[s] \div rem
<1>1. rem \in Nat \ {0} /\ Cap \in Nat \ {0}
  BY DiscoveryAssumption
<1>2. share \in Nat /\ share * rem <= left[s] /\ left[s] < (share + 1) * rem
  BY <1>1
<1>3. share # 0 => share <= left[s] /\ left[s] - share >= rem - 1
  BY <1>1, <1>2, ShareLeavesRest
<1>4. share = 0 => left[s] < rem
  BY <1>1, <1>2
<1>5. Timeout(s) = Smaller(IF share = 0 THEN left[s] ELSE share, Cap)
  BY DEF Timeout
<1>6. rem = Endpoints - endpoint[s] + 1 /\ share \in Nat
  BY <1>2
<1>7. CASE share = 0
  BY <1>1, <1>4, <1>5, <1>7 DEF Smaller
<1> HIDE DEF share, rem
<1>8. CASE share # 0
  BY <1>1, <1>3, <1>5, <1>6, <1>8, DiscoveryAssumption DEF Smaller
<1>9. QED BY <1>7, <1>8

-----------------------------------------------------------------------------
(* Type correctness. *)

Done == {s \in Strategies : phase[s] = "done"}

DiscoveryTypeInv == DiscoveryTypeOK /\ received \in Nat

LEMMA DiscoveryTypeInit == DiscoveryInit => DiscoveryTypeInv
<1> SUFFICES ASSUME DiscoveryInit PROVE DiscoveryTypeInv
  OBVIOUS
<1>1. Done = {} /\ results = {} /\ received = 0
  BY DEF DiscoveryInit, Done
<1>2. received + Cardinality(results) = Cardinality(Done)
  BY <1>1, FS_EmptySet
<1>3. QED
  <2>1. /\ endpoint \in [Strategies -> 1..Endpoints]
        /\ left \in [Strategies -> 0..Deadline]
    BY DiscoveryAssumption DEF DiscoveryInit
  <2>2. QED
    BY <1>2, <2>1 DEF DiscoveryInit, DiscoveryTypeInv, DiscoveryTypeOK, Done

\* The sets whose sizes are compared are finite.
LEMMA FiniteCounts ==
  DiscoveryTypeOK => /\ IsFiniteSet(Done) /\ Cardinality(Done) \in Nat
            /\ IsFiniteSet(results) /\ Cardinality(results) \in Nat
            /\ Cardinality(Done) <= Cardinality(Strategies)
            /\ (Cardinality(Done) = Cardinality(Strategies) => Done = Strategies)
<1> SUFFICES ASSUME DiscoveryTypeOK PROVE FiniteCounts!2
  OBVIOUS
<1>1. Done \subseteq Strategies /\ results \subseteq Done
  BY DEF DiscoveryTypeOK, Done
<1>2. QED
  BY <1>1, DiscoveryAssumption, FS_Subset, FS_CardinalityType

\* A request leaves the strategy with time that is still in its range, in one of
\* the places of DiscoveryTypeOK other than the last.
LEMMA RequestTypes ==
  ASSUME DiscoveryTypeOK, NEW s \in Strategies, RequestOk(s) \/ RequestFails(s)
  PROVE  /\ phase' \in [Strategies -> {"secure", "insecure", "send", "done"}]
         /\ endpoint' \in [Strategies -> 1..Endpoints]
         /\ noCA' \in [Strategies -> BOOLEAN] /\ success' \in [Strategies -> BOOLEAN]
         /\ left' \in [Strategies -> 0..Deadline]
         /\ phase[s] # "done" /\ phase'[s] # "done"
         /\ \A t \in Strategies \ {s} : phase'[t] = phase[t]
<1> USE DEF DiscoveryTypeOK, Set
<1>1. CASE RequestOk(s)
  BY <1>1 DEF RequestOk
<1>2. CASE RequestFails(s)
  <2> USE <1>2 DEF RequestFails
  <2>1. left' \in [Strategies -> 0..Deadline]
    <3>1. left[s] \in 0..Deadline /\ endpoint[s] \in 1..Endpoints /\ Deadline \in Nat
      BY DiscoveryAssumption
    <3>2. Timeout(s) \in 0..left[s]
      BY <3>1, TimeoutShares
    <3>3. left[s] - Timeout(s) \in 0..Deadline
      BY <3>1, <3>2
    <3>4. QED BY <3>3
  <2>2. noCA' \in [Strategies -> BOOLEAN]
    <3>1. noCA[s] \in BOOLEAN OBVIOUS
    <3>2. QED BY <3>1
  <2>3. endpoint' \in [Strategies -> 1..Endpoints]
    <3>1. endpoint[s] \in 1..Endpoints /\ Endpoints \in Nat \ {0}
      BY DiscoveryAssumption
    <3>2. endpoint[s] < Endpoints => endpoint[s] + 1 \in 1..Endpoints
      BY <3>1
    <3>3. 1 \in 1..Endpoints
      BY <3>1
    <3>4. \E e \in 1..Endpoints : endpoint' = [endpoint EXCEPT ![s] = e] \/ endpoint' = endpoint
      BY <3>1, <3>2, <3>3 DEF AfterLastEndpoint
    <3>5. QED BY <3>4
  <2>4. /\ phase' \in [Strategies -> {"secure", "insecure", "send", "done"}]
        /\ phase[s] # "done" /\ phase'[s] # "done"
        /\ \A t \in Strategies \ {s} : phase'[t] = phase[t]
    BY DEF AfterLastEndpoint
  <2>5. QED BY <2>1, <2>2, <2>3, <2>4
<1>3. QED BY <1>1, <1>2

LEMMA DiscoveryTypeStep == DiscoveryTypeInv /\ [DiscoveryNext]_discoveryVars => DiscoveryTypeInv'
<1> SUFFICES ASSUME DiscoveryTypeInv, [DiscoveryNext]_discoveryVars PROVE DiscoveryTypeInv'
  OBVIOUS
<1> USE DEF DiscoveryTypeInv
<1>1. ASSUME NEW s \in Strategies, RequestOk(s) \/ RequestFails(s)
      PROVE  DiscoveryTypeInv'
  <2>1. UNCHANGED <<reply, results, received, outcome, cancelled>>
    BY <1>1 DEF RequestOk, RequestFails
  <2>2. Done' = Done
    BY <1>1, RequestTypes DEF Done
  <2>3. QED
    BY <1>1, <2>1, <2>2, RequestTypes DEF DiscoveryTypeOK, Done
<1>2. ASSUME NEW s \in Strategies, SendResult(s)
      PROVE  DiscoveryTypeInv'
  <2>1. Done' = Done \cup {s} /\ s \notin Done /\ s \notin results
    BY <1>2 DEF SendResult, Set, DiscoveryTypeOK, Done
  <2>2. results' = results \cup {s}
    BY <1>2 DEF SendResult
  <2>3. /\ Cardinality(Done') = Cardinality(Done) + 1
        /\ Cardinality(results') = Cardinality(results) + 1
    BY <2>1, <2>2, FiniteCounts, FS_AddElement
  <2>4. (received + Cardinality(results) = Cardinality(Done))'
    BY <1>2, <2>3, FiniteCounts DEF SendResult, DiscoveryTypeOK, Done
  <2>5. QED
    BY <1>2, <2>1, <2>2, <2>4 DEF SendResult, Set, DiscoveryTypeOK, Done
<1>3. ASSUME NEW s \in Strategies, Receive(s)
      PROVE  DiscoveryTypeInv'
  <2>1. Cardinality(results') = Cardinality(results) - 1
    BY <1>3, FiniteCounts, FS_RemoveElement DEF Receive
  <2>2. (received + Cardinality(results) = Cardinality(Done))'
    BY <1>3, <2>1, FiniteCounts DEF Receive, worker, DiscoveryTypeOK, Done
  <2>3. QED
    BY <1>3, <2>2 DEF Receive, worker, DiscoveryTypeOK, Done
<1>4. CASE Cancel \/ UNCHANGED discoveryVars
  BY <1>4 DEF Cancel, discoveryVars, worker, DiscoveryTypeOK
<1>5. QED
  BY <1>1, <1>2, <1>3, <1>4 DEF DiscoveryNext, Strategy

\* Every variable has its type, each strategy sends one result at most, the
\* channel has room for it, and the time never runs below zero
\* (discovery.go:256-291, 400-426).
THEOREM DiscoveryTypeCorrect == DiscoverySpec => []DiscoveryTypeOK
<1>1. DiscoveryTypeInv => DiscoveryTypeOK
  BY DEF DiscoveryTypeInv
<1>2. QED BY DiscoveryTypeInit, DiscoveryTypeStep, <1>1, PTL DEF DiscoverySpec

-----------------------------------------------------------------------------
(* Certificates go unverified only as a last resort.  The property speaks of *)
(* the strategies that ask without verification; that every endpoint has     *)
(* refused by then is known because those before the present one have.       *)

\* Endpoint e has not given s a verified list, or not in the time there was.
Refused(s, e) == reply[s][e] # "list" \/ left[s] = 0 \/ CtxDone

LastResortInv ==
  \A s \in Strategies :
    /\ noCA[s] => \E e \in 1..Endpoints : reply[s][e] = "ca"
    /\ phase[s] = "secure" => \A e \in 1..(endpoint[s] - 1) : Refused(s, e)
    /\ phase[s] = "insecure" => noCA[s] /\ \A e \in 1..Endpoints : Refused(s, e)

\* What has been refused is not given later: the time does not come back, and
\* the context stays done.
LEMMA RefusedStays ==
  DiscoveryTypeInv /\ [DiscoveryNext]_discoveryVars =>
    \A s \in Strategies, e \in 1..Endpoints : Refused(s, e) => Refused(s, e)'
<1> SUFFICES ASSUME DiscoveryTypeInv, [DiscoveryNext]_discoveryVars,
                    NEW s \in Strategies, NEW e \in 1..Endpoints, Refused(s, e)
             PROVE  Refused(s, e)'
  OBVIOUS
<1> USE DEF Refused, CtxDone
<1>1. ASSUME NEW t \in Strategies, RequestFails(t) PROVE Refused(s, e)'
  <2>1. left[t] \in Nat /\ endpoint[t] \in 1..Endpoints /\ left \in [Strategies -> 0..Deadline]
    BY DiscoveryAssumption DEF DiscoveryTypeInv, DiscoveryTypeOK
  <2>2. Timeout(t) \in 0..left[t]
    BY <2>1, TimeoutShares
  <2>3. left[s] = 0 => left'[s] = 0
    BY <1>1, <2>1, <2>2 DEF RequestFails, Set
  <2>4. UNCHANGED <<reply, outcome, cancelled>>
    BY <1>1 DEF RequestFails
  <2>5. QED BY <2>3, <2>4
<1>2. ASSUME NEW t \in Strategies, RequestOk(t) \/ SendResult(t) PROVE Refused(s, e)'
  <2>1. UNCHANGED <<reply, left, outcome, cancelled>>
    BY <1>2 DEF RequestOk, SendResult
  <2>2. QED BY <2>1
<1>3. CASE \E t \in Strategies : Receive(t)
  BY <1>3 DEF Receive, worker
<1>4. CASE Cancel \/ UNCHANGED discoveryVars
  BY <1>4 DEF Cancel, discoveryVars, worker
<1>5. QED
  BY <1>1, <1>2, <1>3, <1>4 DEF DiscoveryNext, Strategy

LEMMA LastResortInit == DiscoveryInit => LastResortInv
BY DEF DiscoveryInit, LastResortInv

LEMMA LastResortStep == DiscoveryTypeInv /\ LastResortInv /\ [DiscoveryNext]_discoveryVars => LastResortInv'
<1> SUFFICES ASSUME DiscoveryTypeInv, LastResortInv, [DiscoveryNext]_discoveryVars PROVE LastResortInv'
  OBVIOUS
<1> USE DEF LastResortInv
<1>1. ASSUME NEW s \in Strategies, RequestFails(s)
      PROVE  LastResortInv'
  <2>1. UNCHANGED reply /\ phase[s] \in {"secure", "insecure"} /\ CtxDone' = CtxDone
    BY <1>1 DEF RequestFails, CtxDone
  <2>2. endpoint[s] \in 1..Endpoints /\ Endpoints \in Nat
    BY DiscoveryAssumption DEF DiscoveryTypeInv, DiscoveryTypeOK
  <2>3. noCA'[s] => \E e \in 1..Endpoints : reply[s][e] = "ca"
    BY <1>1, <2>2 DEF RequestFails, Set, DiscoveryTypeInv, DiscoveryTypeOK
  <2>4. phase[s] = "secure" => \A e \in 1..endpoint[s] : Refused(s, e)'
    <3>1. phase[s] = "secure" => Refused(s, endpoint[s])
      <4>1. ~Answered(s) /\ left[s] \in Nat
        BY <1>1, DiscoveryAssumption DEF RequestFails, DiscoveryTypeInv, DiscoveryTypeOK
      <4>2. QED BY <4>1 DEF Answered, Refused
    <3>2. phase[s] = "secure" => \A e \in 1..endpoint[s] : Refused(s, e)
      BY <2>2, <3>1
    <3>3. QED BY <2>2, <3>2, RefusedStays
  <2>5. ASSUME phase'[s] = "secure"
        PROVE  \A e \in 1..(endpoint'[s] - 1) : Refused(s, e)'
    <3>1. phase[s] = "secure" /\ endpoint'[s] = endpoint[s] + 1
      BY <1>1, <2>5 DEF RequestFails, AfterLastEndpoint, Set, DiscoveryTypeInv, DiscoveryTypeOK
    <3>2. QED BY <2>2, <2>4, <3>1
  <2>6. ASSUME phase'[s] = "insecure"
        PROVE  noCA'[s] /\ \A e \in 1..Endpoints : Refused(s, e)'
    <3>1. CASE phase[s] = "secure"
      <4>1. noCA'[s] /\ (endpoint[s] = Endpoints \/ ~(left'[s] > 0) \/ CtxDone)
        BY <1>1, <2>2, <2>6, <3>1 DEF RequestFails, AfterLastEndpoint, Set, DiscoveryTypeInv, DiscoveryTypeOK
      <4>2. left'[s] \in Nat
        BY <1>1, RequestTypes, DiscoveryAssumption DEF DiscoveryTypeInv
      <4>3. CASE endpoint[s] = Endpoints
        BY <2>4, <3>1, <4>1, <4>3
      <4>4. CASE left'[s] = 0 \/ CtxDone
        BY <2>1, <4>1, <4>4 DEF Refused
      <4>5. QED BY <4>1, <4>2, <4>3, <4>4
    <3>2. CASE phase[s] = "insecure"
      <4>1. noCA'[s]
        BY <1>1, <3>2 DEF RequestFails, Set, DiscoveryTypeInv, DiscoveryTypeOK
      <4>2. QED BY <3>2, <4>1, RefusedStays
    <3>3. QED BY <2>1, <3>1, <3>2
  <2>7. ASSUME NEW t \in Strategies \ {s}
        PROVE  /\ noCA'[t] = noCA[t] /\ phase'[t] = phase[t] /\ endpoint'[t] = endpoint[t]
    BY <1>1 DEF RequestFails, AfterLastEndpoint, Set, DiscoveryTypeInv, DiscoveryTypeOK
  <2>8. ASSUME NEW t \in Strategies \ {s}
        PROVE  endpoint[t] \in 1..Endpoints
    BY DEF DiscoveryTypeInv, DiscoveryTypeOK
  <2>9. QED
    BY <2>1, <2>2, <2>3, <2>5, <2>6, <2>7, <2>8, RefusedStays
<1>2. ASSUME UNCHANGED <<reply, noCA, endpoint>>,
             \A s \in Strategies : phase'[s] = phase[s] \/ phase'[s] \in {"send", "done"}
      PROVE  LastResortInv'
  <2>1. \A s \in Strategies : endpoint[s] \in 1..Endpoints
    BY DEF DiscoveryTypeInv, DiscoveryTypeOK
  <2>2. \A s \in Strategies, e \in 1..Endpoints : Refused(s, e) => Refused(s, e)'
    BY RefusedStays
  <2>3. \A s \in Strategies : \A e \in 1..(endpoint[s] - 1) : e \in 1..Endpoints
    BY <2>1, DiscoveryAssumption
  <2>4. QED BY <1>2, <2>1, <2>2, <2>3
<1>3. CASE \E s \in Strategies : RequestOk(s) \/ SendResult(s)
  BY <1>2, <1>3 DEF RequestOk, SendResult, Set, DiscoveryTypeInv, DiscoveryTypeOK
<1>4. CASE \E s \in Strategies : Receive(s)
  BY <1>2, <1>4 DEF Receive, worker
<1>5. CASE Cancel \/ UNCHANGED discoveryVars
  BY <1>2, <1>5 DEF Cancel, discoveryVars, worker
<1>6. QED
  BY <1>1, <1>3, <1>4, <1>5 DEF DiscoveryNext, Strategy

\* No strategy asks without verification while a verified list can still be had,
\* or for any other reason than the want of an authority (discovery.go:322-331).
THEOREM InsecureIsLastResort == DiscoverySpec => []InsecureOnlyAsLastResort
<1>1. LastResortInv => InsecureOnlyAsLastResort
  BY DEF LastResortInv, InsecureOnlyAsLastResort, Refused
<1>2. QED
  BY DiscoveryTypeInit, DiscoveryTypeStep, LastResortInit, LastResortStep, <1>1, PTL DEF DiscoverySpec

-----------------------------------------------------------------------------
(* A failure of the discovery is a real one.  The argument is about time: a  *)
(* strategy that still asks has lost at most Cap for each endpoint that hung,*)
(* and as one that asks again without verification has met an endpoint that  *)
(* did not hang, it has a unit left for each request to come.                *)

Hopeless(s) == \A e \in 1..Endpoints : reply[s][e] \in {"error", "hang"}

\* What is left of the deadline after n requests that hung.
Budget(n) == Deadline - Cap * n

SecureInv(s) ==
  /\ left[s] >= Budget(endpoint[s] - 1)
  /\ \A e \in 1..(endpoint[s] - 1) :
       /\ reply[s][e] # "list"
       /\ reply[s][e] = "ca" => noCA[s]
       /\ reply[s][e] # "hang" => left[s] >= Budget(endpoint[s] - 2)
  /\ noCA[s] => \E e \in 1..(endpoint[s] - 1) : reply[s][e] = "ca"

InsecureInv(s) ==
  /\ left[s] >= Endpoints - endpoint[s] + 1
  /\ \A e \in 1..(endpoint[s] - 1) : reply[s][e] \in {"error", "hang"}

HonestInv ==
  /\ ~CtxDone => \A s \in Strategies :
       /\ phase[s] = "secure" => SecureInv(s)
       /\ phase[s] = "insecure" => InsecureInv(s)
       /\ phase[s] \in {"send", "done"} => success[s] \/ Hopeless(s)
       /\ s \in Done \ results => ~success[s]
  /\ FailureIsHonest

LEMMA Budgets ==
  /\ \A n \in Int : Budget(n) \in Int /\ Budget(n + 1) = Budget(n) - Cap
  /\ \A n \in 0..(Endpoints - 1) : Budget(n) >= Endpoints
  /\ Budget(0) = Deadline
<1>1. Cap \in Nat /\ Deadline \in Nat /\ Endpoints \in Nat
  BY DiscoveryAssumption
<1>2. ASSUME NEW n \in Int PROVE Budget(n) \in Int /\ Budget(n + 1) = Budget(n) - Cap
  BY <1>1 DEF Budget
<1>3. ASSUME NEW n \in 0..(Endpoints - 1) PROVE Budget(n) >= Endpoints
  <2>1. Cap * n <= Cap * (Endpoints - 1)
    <3>1. Cap * (Endpoints - 1) = Cap * n + Cap * (Endpoints - 1 - n)
      BY <1>1
    <3>2. Cap * (Endpoints - 1 - n) >= 0
      <4> DEFINE m == Endpoints - 1 - n
      <4>1. m \in Nat BY <1>1
      <4>2. Cap * m >= 0 BY <1>1, <4>1
      <4>3. QED BY <4>2
    <3>3. Cap * n \in Int
      BY <1>1
    <3>4. QED BY <1>1, <3>1, <3>2, <3>3
  <2>2. Cap * (Endpoints - 1) = (Endpoints - 1) * Cap
    BY <1>1
  <2>3. QED BY <1>1, <2>1, <2>2, TimeAssumption DEF Budget
<1>4. Budget(0) = Deadline
  BY <1>1 DEF Budget
<1>5. QED BY <1>2, <1>3, <1>4

LEMMA HonestInit == DiscoveryInit => HonestInv
<1> SUFFICES ASSUME DiscoveryInit PROVE HonestInv
  OBVIOUS
<1>1. \A s \in Strategies : phase[s] = "secure" /\ SecureInv(s)
  BY Budgets, DiscoveryAssumption DEF DiscoveryInit, SecureInv
<1>2. QED
  BY <1>1 DEF DiscoveryInit, HonestInv, FailureIsHonest, Done

\* A request with verification that fails, in time.
LEMMA SecureFails ==
  ASSUME DiscoveryTypeOK, NEW s \in Strategies, RequestFails(s), ~CtxDone,
         phase[s] = "secure", SecureInv(s)
  PROVE  /\ phase'[s] = "secure" => SecureInv(s)'
         /\ phase'[s] = "insecure" => InsecureInv(s)'
         /\ phase'[s] \in {"send", "done"} => Hopeless(s)'
<1> DEFINE e == endpoint[s]
<1>1. /\ e \in 1..Endpoints /\ Endpoints \in Nat /\ left[s] \in Nat
      /\ noCA[s] \in BOOLEAN /\ Deadline \in Nat /\ Cap \in Nat
  BY DiscoveryAssumption DEF DiscoveryTypeOK
<1>2. Budget(e - 1) >= Endpoints
  <2>1. e - 1 \in 0..(Endpoints - 1)
    BY <1>1
  <2>2. QED BY <2>1, Budgets
<1>3. left[s] > 0
  BY <1>1, <1>2, Budgets DEF SecureInv
<1>4. reply[s][e] # "list" /\ UNCHANGED reply
  BY <1>3 DEF RequestFails, Answered
<1>5. noCA'[s] = (noCA[s] \/ reply[s][e] = "ca")
  BY <1>1, <1>3 DEF RequestFails, Set, DiscoveryTypeOK
<1>6. /\ Budget(e - 1) \in Int /\ Budget(e - 2) \in Int /\ Budget(e) \in Int
      /\ Budget(e - 1) = Budget(e - 2) - Cap /\ Budget(e) = Budget(e - 1) - Cap
  BY <1>1, Budgets
<1>7. /\ left'[s] \in Nat
      /\ left'[s] >= Budget(e)
      /\ reply[s][e] # "hang" => left'[s] >= Budget(e - 1)
      /\ left[s] >= Budget(e - 2) => left'[s] >= Budget(e - 1)
  <2>1. Timeout(s) \in 0..left[s] /\ Timeout(s) <= Cap
    BY <1>1, TimeoutShares
  <2>2. left[s] >= Budget(e - 1)
    BY DEF SecureInv
  <2>3. left'[s] = IF reply[s][e] = "hang" THEN left[s] - Timeout(s) ELSE left[s]
    BY DEF RequestFails, Set, DiscoveryTypeOK
  <2>4. QED BY <1>1, <1>6, <2>1, <2>2, <2>3
<1>8. \A d \in 1..e :
        /\ reply[s][d] # "list"
        /\ reply[s][d] = "ca" => noCA'[s]
        /\ reply[s][d] # "hang" => left'[s] >= Budget(e - 1)
  <2>1. ASSUME NEW d \in 1..(e - 1)
        PROVE  /\ reply[s][d] # "list"
               /\ reply[s][d] = "ca" => noCA'[s]
               /\ reply[s][d] # "hang" => left'[s] >= Budget(e - 1)
    BY <1>5, <1>7 DEF SecureInv
  <2>2. \A d \in 1..e : d = e \/ d \in 1..(e - 1)
    BY <1>1
  <2>3. QED BY <1>4, <1>5, <1>7, <2>1, <2>2
<1>9. noCA'[s] => \E d \in 1..e : reply[s][d] = "ca"
  BY <1>1, <1>5 DEF SecureInv
<1>10. CASE e < Endpoints
  <2>1. left'[s] > 0
    BY <1>1, <1>6, <1>7, <1>10, Budgets
  <2>2. phase'[s] = "secure" /\ endpoint'[s] = e + 1
    BY <1>10, <2>1 DEF RequestFails, Set, DiscoveryTypeOK
  <2>3. SecureInv(s)'
    BY <1>1, <1>4, <1>7, <1>8, <1>9, <2>2 DEF SecureInv
  <2>4. QED BY <2>2, <2>3
<1>11. CASE e = Endpoints
  <2>1. IF noCA'[s] THEN phase'[s] = "insecure" /\ endpoint'[s] = 1 ELSE phase'[s] = "send"
    BY <1>11 DEF RequestFails, AfterLastEndpoint, Set, DiscoveryTypeOK
  <2>2. noCA'[s] => left'[s] >= Endpoints
    BY <1>1, <1>2, <1>6, <1>7, <1>8, <1>9
  <2>3. noCA'[s] => InsecureInv(s)'
    BY <1>1, <2>1, <2>2 DEF InsecureInv
  <2>4. ~noCA'[s] => Hopeless(s)'
    BY <1>4, <1>8, <1>11 DEF Hopeless, DiscoveryTypeOK, Replies
  <2>5. QED BY <2>1, <2>3, <2>4
<1>12. QED BY <1>1, <1>10, <1>11

\* A request without verification that fails, in time.
LEMMA InsecureFails ==
  ASSUME DiscoveryTypeOK, NEW s \in Strategies, RequestFails(s), ~CtxDone,
         phase[s] = "insecure", InsecureInv(s)
  PROVE  /\ phase'[s] \in {"insecure", "send"}
         /\ phase'[s] = "insecure" => InsecureInv(s)'
         /\ phase'[s] = "send" => Hopeless(s)'
<1> DEFINE e == endpoint[s]
<1>1. /\ e \in 1..Endpoints /\ Endpoints \in Nat /\ left[s] \in Nat
  BY DiscoveryAssumption DEF DiscoveryTypeOK
<1>2. left[s] > 0
  BY <1>1 DEF InsecureInv
<1>3. reply[s][e] \in {"error", "hang"} /\ UNCHANGED reply
  BY <1>1, <1>2 DEF RequestFails, Answered, DiscoveryTypeOK, Replies
<1>4. \A d \in 1..e : reply[s][d] \in {"error", "hang"}
  BY <1>1, <1>3 DEF InsecureInv
<1>5. left'[s] \in Nat /\ left'[s] >= Endpoints - e
  <2>1. Timeout(s) \in 0..left[s] /\ left[s] - Timeout(s) >= Endpoints - e
    BY <1>1, TimeoutShares DEF InsecureInv
  <2>2. left'[s] = IF reply[s][e] = "hang" THEN left[s] - Timeout(s) ELSE left[s]
    BY DEF RequestFails, Set, DiscoveryTypeOK
  <2>3. QED BY <1>1, <2>1, <2>2
<1>6. CASE e < Endpoints
  <2>1. phase'[s] = "insecure" /\ endpoint'[s] = e + 1
    BY <1>1, <1>5, <1>6 DEF RequestFails, Set, DiscoveryTypeOK
  <2>2. QED BY <1>1, <1>3, <1>4, <1>5, <2>1 DEF InsecureInv
<1>7. CASE e = Endpoints
  <2>1. phase'[s] = "send"
    BY <1>7 DEF RequestFails, AfterLastEndpoint, Set, DiscoveryTypeOK
  <2>2. QED BY <1>3, <1>4, <1>7, <2>1 DEF Hopeless
<1>8. QED BY <1>1, <1>6, <1>7

LEMMA HonestStep == DiscoveryTypeInv /\ HonestInv /\ [DiscoveryNext]_discoveryVars => HonestInv'
<1> SUFFICES ASSUME DiscoveryTypeInv, HonestInv, [DiscoveryNext]_discoveryVars PROVE HonestInv'
  OBVIOUS
<1>0. DiscoveryTypeOK
  BY DEF DiscoveryTypeInv
<1>1. ASSUME NEW s \in Strategies, RequestOk(s) \/ RequestFails(s)
      PROVE  HonestInv'
  <2>1. UNCHANGED <<reply, results, received, outcome, cancelled>>
    BY <1>1 DEF RequestOk, RequestFails
  <2>2. Done' = Done /\ s \notin Done
    BY <1>0, <1>1, RequestTypes DEF Done
  <2>3. FailureIsHonest'
    BY <2>1 DEF HonestInv, FailureIsHonest
  <2>4. ASSUME ~CtxDone', NEW t \in Strategies \ {s}
        PROVE  /\ (phase[t] = "secure" => SecureInv(t))'
               /\ (phase[t] = "insecure" => InsecureInv(t))'
               /\ (phase[t] \in {"send", "done"} => success[t] \/ Hopeless(t))'
               /\ (t \in Done \ results => ~success[t])'
    <3>1. /\ endpoint'[t] = endpoint[t] /\ left'[t] = left[t] /\ noCA'[t] = noCA[t]
          /\ phase'[t] = phase[t] /\ success'[t] = success[t]
      BY <1>0, <1>1 DEF RequestOk, RequestFails, AfterLastEndpoint, Set, DiscoveryTypeOK
    <3>2. ~CtxDone
      BY <2>1, <2>4 DEF CtxDone
    <3>3. QED
      BY <2>1, <2>2, <3>1, <3>2 DEF HonestInv, SecureInv, InsecureInv, Hopeless
  <2>5. ASSUME ~CtxDone'
        PROVE  /\ (phase[s] = "secure" => SecureInv(s))'
               /\ (phase[s] = "insecure" => InsecureInv(s))'
               /\ (phase[s] \in {"send", "done"} => success[s] \/ Hopeless(s))'
               /\ (s \in Done \ results => ~success[s])'
    <3>1. ~CtxDone
      BY <2>1, <2>5 DEF CtxDone
    <3>2. CASE RequestOk(s)
      BY <1>0, <2>2, <3>2 DEF RequestOk, Set, DiscoveryTypeOK
    <3>3. CASE RequestFails(s)
      <4>1. CASE phase[s] = "secure"
        BY <1>0, <2>2, <3>1, <3>3, <4>1, SecureFails DEF HonestInv
      <4>2. CASE phase[s] = "insecure"
        BY <1>0, <2>2, <3>1, <3>3, <4>2, InsecureFails DEF HonestInv
      <4>3. QED BY <3>3, <4>1, <4>2 DEF RequestFails
    <3>4. QED BY <1>1, <3>2, <3>3
  <2>6. QED
    BY <2>3, <2>4, <2>5 DEF HonestInv
<1>2. ASSUME NEW s \in Strategies, SendResult(s)
      PROVE  HonestInv'
  <2>1. /\ UNCHANGED <<reply, endpoint, noCA, success, left, outcome, cancelled>>
        /\ results' = results \cup {s} /\ phase[s] = "send" /\ phase' = [phase EXCEPT ![s] = "done"]
    BY <1>2 DEF SendResult, Set
  <2>2. Done' = Done \cup {s}
    BY <1>0, <2>1 DEF Done, DiscoveryTypeOK
  <2>3. \A t \in Strategies : phase'[t] = IF t = s THEN "done" ELSE phase[t]
    BY <1>0, <2>1 DEF DiscoveryTypeOK
  <2>4. QED
    BY <2>1, <2>2, <2>3 DEF HonestInv, SecureInv, InsecureInv, Hopeless, CtxDone, FailureIsHonest
<1>3. ASSUME NEW s \in Strategies, Receive(s)
      PROVE  HonestInv'
  <2>1. /\ UNCHANGED <<reply, phase, endpoint, noCA, success, left, cancelled>>
        /\ outcome = "none" /\ s \in results /\ results' = results \ {s}
        /\ received' = received + 1 /\ Done' = Done
    BY <1>3 DEF Receive, worker, Done
  <2>2. ASSUME ~CtxDone'
        PROVE  ~CtxDone /\ ~success[s]
    BY <1>0, <1>3, <2>1, <2>2 DEF Receive, CtxDone, DiscoveryTypeOK
  <2>3. ASSUME outcome' = "failed", ~cancelled
        PROVE  \A t \in Strategies : Hopeless(t)
    <3>1. ~CtxDone /\ ~success[s] /\ received + 1 = Cardinality(Strategies)
      BY <1>3, <2>1, <2>3 DEF Receive, CtxDone
    <3>2. Done = Strategies /\ Cardinality(results) = 1
      <4>1. received + Cardinality(results) = Cardinality(Done) /\ received \in Nat
        BY DEF DiscoveryTypeInv, DiscoveryTypeOK, Done
      <4>2. Cardinality(results) # 0
        BY <1>0, <2>1, FiniteCounts, FS_EmptySet
      <4>3. QED BY <1>0, <3>1, <4>1, <4>2, FiniteCounts
    <3>3. results = {s}
      <4>1. IsFiniteSet(results) /\ s \in results
        BY <1>0, <2>1, FiniteCounts
      <4>2. /\ IsFiniteSet(results \ {s})
            /\ Cardinality(results \ {s}) = Cardinality(results) - 1
        BY <4>1, FS_RemoveElement
      <4>3. results \ {s} = {}
        BY <3>2, <4>2, FS_EmptySet
      <4>4. QED BY <2>1, <4>3
    <3>4. \A t \in Strategies : phase[t] = "done" /\ ~success[t]
      BY <3>1, <3>2, <3>3 DEF HonestInv, Done
    <3>5. QED BY <3>1, <3>4 DEF HonestInv
  <2>4. FailureIsHonest'
    BY <2>1, <2>3 DEF FailureIsHonest, Hopeless
  <2>5. QED
    BY <2>1, <2>2, <2>4 DEF HonestInv, SecureInv, InsecureInv, Hopeless
<1>4. CASE Cancel
  BY <1>4 DEF Cancel, HonestInv, CtxDone, FailureIsHonest
<1>5. CASE UNCHANGED discoveryVars
  BY <1>5 DEF discoveryVars, worker, HonestInv, SecureInv, InsecureInv, Hopeless, Done, CtxDone,
             FailureIsHonest
<1>6. QED
  BY <1>1, <1>2, <1>3, <1>4, <1>5 DEF DiscoveryNext, Strategy

\* Without a cancellation the discovery fails only if no strategy could get a
\* list from any endpoint, although they all share one deadline
\* (discovery.go:256-331, 400-426; client.go:413).
THEOREM FailuresAreHonest == DiscoverySpec => []FailureIsHonest
<1>1. HonestInv => FailureIsHonest
  BY DEF HonestInv
<1>2. QED
  BY DiscoveryTypeInit, DiscoveryTypeStep, HonestInit, HonestStep, <1>1, PTL DEF DiscoverySpec

-----------------------------------------------------------------------------
(* The cache: the inductive invariant. *)

Places == {"idle", "check", "fetch", "fallback", "copyFresh", "copyStale", "store",
           "shuffle", "swap", "scan", "failed"}
CopyPlaces == {"copyFresh", "copyStale"}
Emptied == {"check", "fetch", "fallback"}
Filled == {"store", "shuffle", "swap", "scan"}

\* The cached slice is that of the client shuffling it.
Owned == owner # NoClient => pc[owner] \in {"shuffle", "swap"} /\ cached = list[owner]

\* Every index that a scan is about to use is one of its list or of the cached one.
InBounds(c) ==
  /\ pc[c] \in CopyPlaces => pos[c] \in 1..Len(cached) /\ Len(list[c]) = pos[c] - 1
  /\ pc[c] = "shuffle" => pos[c] \in 0..Len(list[c])
  /\ pc[c] = "swap" => pos[c] \in 1..Len(list[c]) /\ other[c] \in 1..Len(list[c])

\* A scan has an empty list until it has one to scan.
Served(c) ==
  /\ pc[c] \in Emptied => list[c] = <<>>
  /\ pc[c] \in Filled => list[c] # <<>>
  /\ c \in hadCache => cached # <<>> /\ pc[c] # "failed"

\* What was copied so far without a shuffle is what the cache begins with.
Whole(c) ==
  c \notin raced =>
    /\ pc[c] \in Filled => Intact(list[c])
    /\ pc[c] \in CopyPlaces =>
         /\ ~cachedRaced
         /\ pos[c] > 1 => owner = NoClient
         /\ \A i \in 1..Len(list[c]) : list[c][i] = cached[i]

CacheWhole == cached # <<>> /\ ~cachedRaced => Intact(cached)

Lists == Owned /\ CacheWhole /\ \A c \in Clients : InBounds(c) /\ Served(c) /\ Whole(c)

\* As long as no fetch has failed a list is as old as the time it was stored at.
Dated ==
  /\ \A c \in Clients : pc[c] \in {"fallback", "copyStale"} => failed
  /\ \A c \in Clients : pc[c] = "fetch" => tries[c] > 0
  /\ ~failed => /\ cachedOrigin = storedAt
                /\ \A c \in Clients : pc[c] = "store" => origin[c] = JustFetched

IInv == TypeOK /\ Lists /\ Dated

-----------------------------------------------------------------------------
(* Lists. *)

LEMMA PoolFacts == Pool \in Seq(Elements) /\ Pool # <<>> /\ Intact(Pool)
<1>1. Pool \in Seq(Range(Pool)) /\ Pool # <<>>
  BY CacheAssumption
<1>2. Pool \in Seq(Elements)
  BY <1>1, SeqMonotonic DEF Elements
<1> QED BY <1>1, <1>2 DEF Intact

\* Exchanging two elements changes neither the length nor the elements.
LEMMA SwapKeeps ==
  ASSUME NEW s \in Seq(Elements), NEW i \in 1..Len(s), NEW j \in 1..Len(s),
         NEW t, t = [s EXCEPT ![i] = s[j], ![j] = s[i]]
  PROVE  /\ t \in Seq(Elements) /\ Len(t) = Len(s) /\ t # <<>>
         /\ Intact(s) => Intact(t)
<1>1. s[i] \in Elements /\ s[j] \in Elements
  BY ElementOfSeq
<1> DEFINE u == [s EXCEPT ![i] = s[j]]
<1>2. u \in Seq(Elements) /\ Len(u) = Len(s)
      /\ \A k \in 1..Len(s) : u[k] = IF k = i THEN s[j] ELSE s[k]
  BY <1>1, ExceptSeq
<1>3. t = [u EXCEPT ![j] = s[i]]
  OBVIOUS
<1> HIDE DEF u
<1>4. t \in Seq(Elements) /\ Len(t) = Len(s)
      /\ \A k \in 1..Len(s) : t[k] = IF k = j THEN s[i] ELSE u[k]
  BY <1>1, <1>2, <1>3, ExceptSeq
<1>5. DOMAIN s = 1..Len(s) /\ DOMAIN t = 1..Len(s)
  BY <1>4, LenProperties
<1>6. Range(t) = Range(s)
  BY <1>2, <1>4, <1>5 DEF Range
<1>7. t # <<>>
  BY <1>4
<1> QED BY <1>4, <1>6, <1>7 DEF Intact

\* What a copying scan reads of the cached list.
LEMMA ReadElement ==
  ASSUME TypeOK, Lists, NEW c \in Clients, pc[c] \in CopyPlaces, NEW r \in Read(pos[c])
  PROVE  r \in Elements /\ (owner = NoClient => r = cached[pos[c]])
<1>1. cached \in Seq(Elements) /\ pos[c] \in 1..Len(cached)
  BY DEF TypeOK, Lists, InBounds
<1>2. cached[pos[c]] \in Elements
  BY <1>1, ElementOfSeq
<1>3. CASE Shuffled /\ pc[owner] = "swap"
  <2>1. owner \in Clients /\ list[owner] \in Seq(Elements)
    BY <1>3 DEF Shuffled, TypeOK
  <2>2. pos[owner] \in 1..Len(list[owner]) /\ other[owner] \in 1..Len(list[owner])
    BY <1>3, <2>1 DEF Lists, InBounds
  <2>3. list[owner][pos[owner]] \in Elements /\ list[owner][other[owner]] \in Elements
    BY <2>1, <2>2, ElementOfSeq
  <2> QED BY <1>2, <1>3, <2>3 DEF Read, Elements, Shuffled
<1>4. CASE ~(Shuffled /\ pc[owner] = "swap")
  BY <1>2, <1>4 DEF Read
<1> QED BY <1>3, <1>4

\* A list that agrees with the cached one, element by element, is the cached one.
LEMMA CopyIsWhole ==
  ASSUME NEW s \in Seq(Elements), cached \in Seq(Elements), Len(s) = Len(cached),
         \A i \in 1..Len(s) : s[i] = cached[i]
  PROVE  s = cached
  BY SeqEqual

\* The earlier of two times.
LEMMA MinOfTwo ==
  ASSUME NEW a \in Nat, NEW b \in Nat
  PROVE  Min({a, b}) = IF a <= b THEN a ELSE b
<1> DEFINE m == IF a <= b THEN a ELSE b
<1>1. m \in {a, b} /\ \A y \in {a, b} : m <= y
  OBVIOUS
<1>2. \A x \in {a, b} : (\A y \in {a, b} : x <= y) => x = m
  OBVIOUS
<1> QED BY <1>1, <1>2 DEF Min

-----------------------------------------------------------------------------
(* Type correctness. *)

LEMMA Constants == NoClient \notin Clients /\ TTL \in Nat /\ MaxTime \in Nat /\ MaxScans \in Nat
  BY CacheAssumption

USE Constants

LEMMA TypeInit == Init => TypeOK
<1>1. <<>> \in Seq(Elements)
  BY EmptySeq
<1> SUFFICES ASSUME Init PROVE TypeOK
  OBVIOUS
<1>2. cached \in Seq(Elements) /\ list \in [Clients -> Seq(Elements)]
  BY <1>1 DEF Init
<1>3. /\ pos \in [Clients -> Nat] /\ other \in [Clients -> Nat]
      /\ tries \in [Clients -> 0..2] /\ origin \in [Clients -> Nat]
  BY DEF Init
<1>4. pc \in [Clients -> Places]
  BY DEF Init, Places
<1>5. /\ now \in 0..MaxTime /\ storedAt \in 0..MaxTime
      /\ scans \in 0..MaxScans /\ cachedOrigin \in Nat
  BY DEF Init
<1>6. /\ owner \in Clients \cup {NoClient} /\ raced \subseteq Clients /\ hadCache \subseteq Clients
      /\ cachedRaced \in BOOLEAN /\ failed \in BOOLEAN
  BY Zenon DEF Init
<1> QED BY <1>2, <1>3, <1>4, <1>5, <1>6 DEF TypeOK, Places

LEMMA TypeStep == ASSUME IInv, [Next]_vars PROVE TypeOK'
<1> USE DEF IInv
<1>1. ASSUME NEW c \in Clients, Begin(c) PROVE TypeOK'
  <2>1. <<>> \in Seq(Elements)
    BY EmptySeq
  <2> QED BY <1>1, <2>1 DEF Begin, TypeOK, Goto, cache
<1>2. ASSUME NEW c \in Clients, Check(c) PROVE TypeOK'
  <2>1. CASE StartCopy(c, "copyFresh") /\ UNCHANGED tries
    BY <1>2, <2>1 DEF Check, TypeOK, Goto, StartCopy, cache
  <2>2. CASE tries' = [tries EXCEPT ![c] = 2] /\ Goto(c, "fetch") /\ UNCHANGED <<pos, origin, raced>>
    BY <1>2, <2>2 DEF Check, TypeOK, Goto, cache
  <2> QED BY <1>2, <2>1, <2>2 DEF Check
<1>3. ASSUME NEW c \in Clients, FetchOk(c) PROVE TypeOK'
  BY <1>3, PoolFacts DEF FetchOk, TypeOK, Goto, cache, JustFetched
<1>4. ASSUME NEW c \in Clients, FetchFails(c) PROVE TypeOK'
  <2>1. tries[c] \in 1..2
    BY <1>4 DEF FetchFails, TypeOK, Dated
  <2>2. tries' \in [Clients -> 0..2]
    BY <1>4, <2>1 DEF FetchFails, TypeOK
  <2> QED BY <1>4, <2>2 DEF FetchFails, TypeOK, Goto, cache
<1>5. ASSUME NEW c \in Clients, Fallback(c) PROVE TypeOK'
  <2>1. CASE StartCopy(c, "copyStale")
    BY <1>5, <2>1 DEF Fallback, TypeOK, Goto, StartCopy, cache
  <2>2. CASE Goto(c, "failed") /\ UNCHANGED <<pos, origin, raced>>
    BY <1>5, <2>2 DEF Fallback, TypeOK, Goto, cache
  <2> QED BY <1>5, <2>1, <2>2 DEF Fallback
<1>6. ASSUME NEW c \in Clients, CopyElement(c) PROVE TypeOK'
  <2>1. PICK r \in Read(pos[c]) : list' = [list EXCEPT ![c] = Append(@, r)]
    BY <1>6 DEF CopyElement
  <2>2. r \in Elements
    BY <1>6, ReadElement DEF CopyElement, CopyPlaces
  <2>3. list' \in [Clients -> Seq(Elements)]
    BY <2>1, <2>2, AppendProperties DEF TypeOK
  <2>4. pc' \in [Clients -> Places] /\ pos' \in [Clients -> Nat]
    <3>1. CASE pos' = [pos EXCEPT ![c] = @ + 1] /\ UNCHANGED pc
      BY <3>1 DEF TypeOK, Places
    <3>2. CASE Goto(c, IF pc[c] = "copyFresh" THEN "shuffle" ELSE "store") /\ UNCHANGED pos
      BY <3>2 DEF TypeOK, Goto, Places
    <3> QED BY <1>6, <3>1, <3>2 DEF CopyElement
  <2>5. raced' \subseteq Clients
    BY <1>6 DEF CopyElement, TypeOK
  <2> QED BY <1>6, <2>3, <2>4, <2>5 DEF CopyElement, TypeOK, cache, Places
<1>7. ASSUME NEW c \in Clients, Store(c) PROVE TypeOK'
  <2>1. Min({origin[c], now}) \in Nat
    <3>1. origin[c] \in Nat /\ now \in Nat
      BY DEF TypeOK
    <3> QED BY <3>1, MinOfTwo
  <2>2. Len(list[c]) \in Nat /\ list[c] \in Seq(Elements)
    BY LenProperties DEF TypeOK
  <2>3. pos' \in [Clients -> Nat]
    BY <1>7, <2>2 DEF Store, TypeOK
  <2> QED BY <1>7, <2>1, <2>2, <2>3 DEF Store, TypeOK, Goto, history
<1>8. ASSUME NEW c \in Clients, BeginSwap(c) PROVE TypeOK'
  BY <1>8 DEF BeginSwap, TypeOK, Goto, cache, history
<1>9. ASSUME NEW c \in Clients, EndSwap(c) PROVE TypeOK'
  <2>1. list'[c] \in Seq(Elements) /\ \A d \in Clients \ {c} : list'[d] = list[d]
    BY <1>9, SwapKeeps DEF EndSwap, Assign, TypeOK, Lists, InBounds
  <2>2. list' \in [Clients -> Seq(Elements)]
    BY <1>9, <2>1 DEF EndSwap, Assign, TypeOK
  <2>3. cached' \in Seq(Elements)
    BY <1>9, <2>1 DEF EndSwap, Assign, TypeOK
  <2>4. pos' \in [Clients -> Nat] /\ other' \in [Clients -> Nat]
    <3>1. pos[c] \in 1..Len(list[c])
      BY <1>9 DEF EndSwap, Lists, InBounds
    <3>2. pos' = [pos EXCEPT ![c] = @ - 1] /\ other' = [other EXCEPT ![c] = 0]
      BY <1>9 DEF EndSwap
    <3>3. pos[c] - 1 \in Nat
      BY <3>1
    <3> QED BY <3>2, <3>3 DEF TypeOK
  <2>5. pc' \in [Clients -> Places]
    BY <1>9 DEF EndSwap, TypeOK, Goto, Places
  <2> QED BY <1>9, <2>2, <2>3, <2>4, <2>5 DEF EndSwap, TypeOK, history, Places
<1>10. ASSUME NEW c \in Clients, EndShuffle(c) PROVE TypeOK'
  BY <1>10 DEF EndShuffle, TypeOK, Goto, cache, history
<1>11. CASE TimePasses
  BY <1>11 DEF TimePasses, TypeOK, cache, history
<1>12. CASE UNCHANGED vars
  BY <1>12 DEF vars, TypeOK, cache, history
<1> QED
  BY <1>1, <1>2, <1>3, <1>4, <1>5, <1>6, <1>7, <1>8, <1>9, <1>10, <1>11, <1>12 DEF Next

-----------------------------------------------------------------------------
(* Lists. *)

LEMMA ListsInit == Init => Lists
<1> SUFFICES ASSUME Init PROVE Lists
  OBVIOUS
<1>1. Owned /\ CacheWhole
  BY DEF Init, Owned, CacheWhole
<1>2. ASSUME NEW c \in Clients PROVE InBounds(c) /\ Served(c) /\ Whole(c)
  BY DEF Init, InBounds, Served, Whole, CopyPlaces, Emptied, Filled
<1> QED BY <1>1, <1>2 DEF Lists

\* A step that leaves the cache alone concerns the scan that takes it.
LEMMA OwnStep ==
  ASSUME TypeOK, Lists, NEW c \in Clients, UNCHANGED <<cached, owner, cachedRaced>>,
         \A d \in Clients \ {c} :
           /\ pc'[d] = pc[d] /\ list'[d] = list[d] /\ pos'[d] = pos[d] /\ other'[d] = other[d]
           /\ d \in raced' <=> d \in raced
           /\ d \in hadCache' <=> d \in hadCache,
         owner = c => pc'[c] \in {"shuffle", "swap"} /\ list'[c] = list[c],
         InBounds(c)', Served(c)', Whole(c)'
  PROVE  Lists'
<1>1. Owned' /\ CacheWhole'
  BY DEF TypeOK, Lists, Owned, CacheWhole, Intact
<1>2. ASSUME NEW d \in Clients PROVE InBounds(d)' /\ Served(d)' /\ Whole(d)'
  <2>1. CASE d = c
    BY <2>1
  <2>2. CASE d # c
    BY <2>2 DEF Lists, InBounds, Served, Whole, Intact
  <2> QED BY <2>1, <2>2
<1> QED BY <1>1, <1>2 DEF Lists

LEMMA BeginLists == ASSUME IInv, NEW c \in Clients, Begin(c) PROVE Lists'
<1> USE DEF IInv, Begin
<1>1. pc[c] \in {"idle", "scan", "failed"} /\ pc'[c] = "check" /\ list'[c] = <<>> /\ owner # c
  BY DEF Goto, TypeOK, Lists, Owned
<1>2. UNCHANGED <<cached, owner, cachedRaced, pos, other>>
  BY DEF cache
<1>3. \A d \in Clients \ {c} :
        /\ pc'[d] = pc[d] /\ list'[d] = list[d]
        /\ d \in raced' <=> d \in raced
        /\ d \in hadCache' <=> d \in hadCache
  BY DEF Goto, TypeOK
<1>4. InBounds(c)' /\ Whole(c)'
  BY <1>1 DEF InBounds, Whole, CopyPlaces, Filled
<1>5. Served(c)'
  BY <1>1, <1>2 DEF Served, Emptied, Filled
<1> QED BY <1>1, <1>2, <1>3, <1>4, <1>5, OwnStep

LEMMA StartCopyLists ==
  ASSUME IInv, NEW c \in Clients, NEW place \in CopyPlaces, StartCopy(c, place),
         pc[c] \in Emptied, cached # <<>>, UNCHANGED <<cache, list, other, hadCache>>
  PROVE  Lists'
<1> USE DEF IInv, StartCopy, Goto, cache
<1>1. cached \in Seq(Elements) /\ Len(cached) \in Nat \ {0}
  BY EmptySeq DEF TypeOK
<1>2. list[c] = <<>> /\ Len(list[c]) = 0
  BY DEF Lists, Served
<1>3. pc'[c] = place /\ pos'[c] = 1
  BY DEF TypeOK
<1>4. InBounds(c)'
  BY <1>1, <1>2, <1>3 DEF InBounds, CopyPlaces
<1>5. Served(c)'
  BY <1>2, <1>3 DEF Served, CopyPlaces, Emptied, Filled, Lists
<1>6. Whole(c)'
  BY <1>2, <1>3 DEF Whole, CopyPlaces, Filled
<1>7. owner # c
  BY DEF Lists, Owned, Emptied
<1>8. \A d \in Clients \ {c} : pc'[d] = pc[d] /\ pos'[d] = pos[d] /\ (d \in raced' <=> d \in raced)
  BY DEF TypeOK
<1> QED BY <1>4, <1>5, <1>6, <1>7, <1>8, OwnStep

LEMMA CheckLists == ASSUME IInv, NEW c \in Clients, Check(c) PROVE Lists'
<1>1. CASE cached # <<>> /\ StartCopy(c, "copyFresh")
  BY <1>1, StartCopyLists DEF Check, Emptied, CopyPlaces
<1>2. CASE tries' = [tries EXCEPT ![c] = 2] /\ Goto(c, "fetch") /\ UNCHANGED <<pos, origin, raced>>
  BY <1>2, OwnStep DEF Check, IInv, TypeOK, Lists, Goto, cache, Owned, InBounds, Served, Whole, CopyPlaces,
                       Emptied, Filled
<1> QED BY <1>1, <1>2 DEF Check

LEMMA FallbackLists == ASSUME IInv, NEW c \in Clients, Fallback(c) PROVE Lists'
<1>1. CASE cached # <<>> /\ StartCopy(c, "copyStale")
  BY <1>1, StartCopyLists DEF Fallback, Emptied, CopyPlaces
<1>2. CASE cached = <<>> /\ Goto(c, "failed") /\ UNCHANGED <<pos, origin, raced>>
  BY <1>2, OwnStep DEF Fallback, IInv, TypeOK, Lists, Goto, cache, Owned, InBounds, Served, Whole, CopyPlaces,
                       Emptied, Filled
<1> QED BY <1>1, <1>2 DEF Fallback

LEMMA FetchLists == ASSUME IInv, NEW c \in Clients, FetchOk(c) \/ FetchFails(c) PROVE Lists'
<1> USE DEF IInv
<1>1. CASE FetchOk(c)
  <2>1. pc[c] = "fetch" /\ pc'[c] = "store" /\ list'[c] = Pool
    BY <1>1 DEF FetchOk, Goto, TypeOK
  <2>2. UNCHANGED <<cached, owner, cachedRaced, pos, other, raced, hadCache>>
    BY <1>1 DEF FetchOk, cache
  <2>3. \A d \in Clients \ {c} : pc'[d] = pc[d] /\ list'[d] = list[d]
    BY <1>1 DEF FetchOk, Goto, TypeOK
  <2>4. owner # c
    BY <2>1 DEF Lists, Owned
  <2>5. InBounds(c)'
    BY <2>1 DEF InBounds, CopyPlaces
  <2>6. Served(c)'
    BY <2>1, <2>2, PoolFacts DEF Lists, Served, Emptied, Filled
  <2>7. Whole(c)'
    BY <2>1, PoolFacts DEF Whole, Intact, CopyPlaces, Filled
  <2> QED BY <2>1, <2>2, <2>3, <2>4, <2>5, <2>6, <2>7, OwnStep
<1>2. CASE FetchFails(c)
  <2>1. pc[c] = "fetch" /\ pc'[c] \in {"fetch", "fallback"}
    BY <1>2 DEF FetchFails, Goto, TypeOK
  <2>2. UNCHANGED <<cached, owner, cachedRaced, list, pos, other, raced, hadCache>>
    BY <1>2 DEF FetchFails, cache, history
  <2>3. \A d \in Clients \ {c} : pc'[d] = pc[d]
    BY <1>2 DEF FetchFails, Goto, TypeOK
  <2>4. owner # c
    BY <2>1 DEF Lists, Owned
  <2>5. InBounds(c)'
    BY <2>1, <2>2 DEF Lists, InBounds, CopyPlaces
  <2>6. Served(c)'
    BY <2>1, <2>2 DEF Lists, Served, Emptied, Filled
  <2>7. Whole(c)'
    BY <2>1, <2>2 DEF Whole, CopyPlaces, Filled
  <2> QED BY <2>2, <2>3, <2>4, <2>5, <2>6, <2>7, OwnStep
<1> QED BY <1>1, <1>2

\* One more element keeps the copy what the cache begins with, unless its owner
\* shuffles; the last one makes it the cached list.
LEMMA CopyElementLists == ASSUME IInv, NEW c \in Clients, CopyElement(c) PROVE Lists'
<1> USE DEF IInv
<1>1. PICK r \in Read(pos[c]) : list' = [list EXCEPT ![c] = Append(@, r)]
  BY DEF CopyElement
<1>2. pc[c] \in CopyPlaces /\ r \in Elements /\ (owner = NoClient => r = cached[pos[c]])
  BY ReadElement DEF CopyElement, CopyPlaces
<1>3. /\ cached \in Seq(Elements) /\ list[c] \in Seq(Elements)
      /\ pos[c] \in 1..Len(cached) /\ Len(list[c]) = pos[c] - 1
  BY <1>2 DEF TypeOK, Lists, InBounds
<1>4. /\ list'[c] \in Seq(Elements) /\ Len(list'[c]) = pos[c]
      /\ list'[c][pos[c]] = r
      /\ \A i \in 1..Len(list[c]) : list'[c][i] = list[c][i]
  <2>1. list'[c] = Append(list[c], r)
    BY <1>1 DEF TypeOK
  <2>2. Len(list[c]) \in Nat
    BY <1>3, LenProperties
  <2> QED BY <1>2, <1>3, <2>1, <2>2, AppendProperties
<1>5. UNCHANGED <<cached, owner, cachedRaced, other, hadCache>>
  BY DEF CopyElement, cache
<1>6. /\ owner # c
      /\ c \notin raced' => /\ c \notin raced /\ ~cachedRaced
                            /\ owner = NoClient
  BY <1>2 DEF CopyElement, Shuffled, Lists, Whole, Owned, CopyPlaces
<1>7. c \notin raced' => \A i \in 1..pos[c] : list'[c][i] = cached[i]
  <2> SUFFICES ASSUME c \notin raced', NEW i \in 1..pos[c] PROVE list'[c][i] = cached[i]
    OBVIOUS
  <2>1. CASE i = pos[c]
    BY <1>2, <1>4, <1>6, <2>1
  <2>2. CASE i # pos[c]
    <3>1. i \in 1..Len(list[c])
      BY <1>3, <2>2
    <3> QED BY <1>2, <1>4, <1>6, <3>1 DEF Lists, Whole
  <2> QED BY <2>1, <2>2
<1>8. \A d \in Clients \ {c} : list'[d] = list[d] /\ (d \in raced' <=> d \in raced)
  BY <1>1 DEF TypeOK, CopyElement
<1>9. list'[c] # <<>>
  BY <1>3, <1>4
<1>10. CASE pos[c] < Len(cached)
  <2>1. pos' = [pos EXCEPT ![c] = @ + 1] /\ UNCHANGED pc
    BY <1>10 DEF CopyElement
  <2>2. pos'[c] = pos[c] + 1 /\ \A d \in Clients \ {c} : pos'[d] = pos[d]
    BY <2>1 DEF TypeOK
  <2>3. InBounds(c)'
    BY <1>2, <1>3, <1>4, <1>5, <1>10, <2>1, <2>2 DEF InBounds, CopyPlaces
  <2>4. Served(c)'
    BY <1>2, <1>5, <2>1 DEF Served, Lists, CopyPlaces, Emptied, Filled
  <2>5. Whole(c)'
    BY <1>2, <1>4, <1>5, <1>6, <1>7, <2>1 DEF Whole, CopyPlaces, Filled
  <2> QED BY <1>5, <1>6, <1>8, <2>1, <2>2, <2>3, <2>4, <2>5, OwnStep
<1>11. CASE ~(pos[c] < Len(cached))
  <2>1. UNCHANGED pos /\ pc' = [pc EXCEPT ![c] = IF @ = "copyFresh" THEN "shuffle" ELSE "store"]
    BY <1>11 DEF CopyElement, Goto
  <2>2. pc'[c] \in {"shuffle", "store"} /\ \A d \in Clients \ {c} : pc'[d] = pc[d]
    BY <2>1 DEF TypeOK
  <2>3. pos[c] = Len(cached)
    BY <1>3, <1>11, LenProperties
  <2>4. InBounds(c)'
    BY <1>3, <1>4, <2>1, <2>2 DEF InBounds, CopyPlaces
  <2>5. Served(c)'
    BY <1>2, <1>5, <1>9, <2>1, <2>2 DEF Served, Lists, CopyPlaces, Emptied, Filled
  <2>6. Whole(c)'
    <3> SUFFICES ASSUME c \notin raced' PROVE Intact(list'[c])
      BY <2>2 DEF Whole, CopyPlaces, Intact
    <3>1. list'[c] = cached
      BY <1>3, <1>4, <1>7, <2>3, CopyIsWhole
    <3>2. cached # <<>>
      BY <1>3, <2>3
    <3> QED BY <1>6, <3>1, <3>2 DEF Lists, CacheWhole
  <2> QED BY <1>5, <1>6, <1>8, <2>1, <2>2, <2>4, <2>5, <2>6, OwnStep
<1> QED BY <1>10, <1>11

\* Nobody copies when a list is stored, so the lists of the others do not depend
\* on the cached one.
LEMMA StoreLists == ASSUME IInv, NEW c \in Clients, Store(c) PROVE Lists'
<1> USE DEF IInv, Goto, history
<1>1. /\ pc[c] = "store" /\ UNCHANGED <<list, other, raced, hadCache>>
      /\ cached' = list[c] /\ owner' = c /\ cachedRaced' = (c \in raced)
      /\ pos' = [pos EXCEPT ![c] = Len(list[c])] /\ pc' = [pc EXCEPT ![c] = "shuffle"]
  BY DEF Store
<1>2. list[c] # <<>> /\ (c \notin raced => Intact(list[c])) /\ Len(list[c]) \in Nat
  BY <1>1, LenProperties DEF Lists, Served, Whole, Filled, TypeOK
<1>3. \A d \in Clients : pc[d] \notin CopyPlaces
  BY DEF Store, Copying, CopyPlaces
<1>4. /\ pc'[c] = "shuffle" /\ pos'[c] = Len(list[c])
      /\ \A d \in Clients \ {c} : pc'[d] = pc[d] /\ pos'[d] = pos[d]
  BY <1>1 DEF TypeOK
<1>5. Owned' /\ CacheWhole'
  BY <1>1, <1>2, <1>4 DEF Owned, CacheWhole, Intact
<1>6. InBounds(c)' /\ Served(c)' /\ Whole(c)'
  BY <1>1, <1>2, <1>4 DEF InBounds, Served, Whole, CopyPlaces, Emptied, Filled, Intact
<1>7. ASSUME NEW d \in Clients \ {c} PROVE InBounds(d)' /\ Served(d)' /\ Whole(d)'
  BY <1>1, <1>2, <1>3, <1>4 DEF Lists, InBounds, Served, Whole, Intact
<1> QED BY <1>5, <1>6, <1>7 DEF Lists

LEMMA BeginSwapLists == ASSUME IInv, NEW c \in Clients, BeginSwap(c) PROVE Lists'
<1> USE DEF IInv, Goto, cache, history
<1>1. PICK i \in 1..pos[c] : other' = [other EXCEPT ![c] = i]
  BY DEF BeginSwap
<1>2. /\ pc[c] = "shuffle" /\ pc' = [pc EXCEPT ![c] = "swap"] /\ pos[c] > 1
      /\ UNCHANGED <<cached, owner, cachedRaced, list, pos, raced, hadCache>>
  BY DEF BeginSwap
<1>3. /\ pc'[c] = "swap" /\ other'[c] = i
      /\ \A d \in Clients \ {c} : pc'[d] = pc[d] /\ other'[d] = other[d]
  BY <1>1, <1>2 DEF TypeOK
<1>4. InBounds(c)'
  <2>1. Len(list[c]) \in Nat /\ pos[c] \in 0..Len(list[c])
    BY <1>2, LenProperties DEF Lists, InBounds, TypeOK
  <2> QED BY <1>2, <1>3, <2>1 DEF InBounds, CopyPlaces
<1>5. Served(c)' /\ Whole(c)'
  BY <1>2, <1>3 DEF Lists, Served, Whole, CopyPlaces, Emptied, Filled, Intact
<1> QED BY <1>2, <1>3, <1>4, <1>5, OwnStep

\* A swap of the owner changes the cached list too: who copies it meanwhile has
\* copied nothing yet, or has raced.
LEMMA EndSwapLists == ASSUME IInv, NEW c \in Clients, EndSwap(c) PROVE Lists'
<1> USE DEF IInv, Goto, history
<1> DEFINE l == [list[c] EXCEPT ![pos[c]] = list[c][other[c]], ![other[c]] = list[c][pos[c]]]
<1>1. /\ pc[c] = "swap" /\ list' = [list EXCEPT ![c] = l]
      /\ cached' = IF owner = c THEN l ELSE cached
      /\ UNCHANGED <<owner, cachedRaced, raced, hadCache>>
      /\ pos' = [pos EXCEPT ![c] = @ - 1] /\ other' = [other EXCEPT ![c] = 0]
      /\ pc' = [pc EXCEPT ![c] = "shuffle"]
  BY DEF EndSwap, Assign
<1>2. list[c] \in Seq(Elements) /\ pos[c] \in 1..Len(list[c]) /\ other[c] \in 1..Len(list[c])
  BY <1>1 DEF Lists, InBounds, TypeOK
<1>3. l \in Seq(Elements) /\ Len(l) = Len(list[c]) /\ l # <<>> /\ (Intact(list[c]) => Intact(l))
  BY <1>2, SwapKeeps
<1> HIDE DEF l
<1>4. /\ pc'[c] = "shuffle" /\ pos'[c] = pos[c] - 1 /\ list'[c] = l
      /\ \A d \in Clients \ {c} : pc'[d] = pc[d] /\ pos'[d] = pos[d] /\ other'[d] = other[d]
                                  /\ list'[d] = list[d]
  BY <1>1 DEF TypeOK
<1>5. InBounds(c)'
  BY <1>2, <1>3, <1>4 DEF InBounds, CopyPlaces
<1>6. Whole(c)' /\ (c \in hadCache => cached # <<>>)
  BY <1>1, <1>3, <1>4 DEF Lists, Whole, Served, CopyPlaces, Filled, Intact
<1>7. CASE owner # c
  <2>1. Served(c)'
    BY <1>1, <1>3, <1>4, <1>6, <1>7 DEF Served, Emptied, Filled
  <2> QED BY <1>1, <1>4, <1>5, <1>6, <1>7, <2>1, OwnStep
<1>8. CASE owner = c
  <2>1. cached = list[c] /\ cached' = l /\ owner # NoClient
    BY <1>1, <1>8 DEF Lists, Owned
  <2>2. Owned'
    BY <1>1, <1>4, <2>1, <1>8 DEF Owned
  <2>3. CacheWhole'
    BY <1>1, <1>2, <1>3, <2>1 DEF Lists, CacheWhole, Intact
  <2>4. Served(c)'
    BY <1>3, <1>4, <2>1 DEF Served, Emptied, Filled
  <2>5. ASSUME NEW d \in Clients \ {c} PROVE InBounds(d)' /\ Served(d)' /\ Whole(d)'
    <3>1. InBounds(d)'
      BY <1>3, <1>4, <2>1 DEF Lists, InBounds
    <3>2. Served(d)'
      BY <1>1, <1>3, <1>4, <2>1 DEF Lists, Served
    <3>3. Whole(d)'
      <4> SUFFICES ASSUME d \notin raced, pc[d] \in CopyPlaces PROVE Len(list[d]) = 0
        BY <1>1, <1>4, <2>1 DEF Lists, Whole, Intact
      <4>1. pos[d] \in 1..Len(cached) /\ Len(list[d]) = pos[d] - 1 /\ ~(pos[d] > 1)
        BY <2>1 DEF Lists, Whole, InBounds
      <4> QED BY <4>1
    <3> QED BY <3>1, <3>2, <3>3
  <2> QED BY <1>5, <1>6, <2>2, <2>3, <2>4, <2>5 DEF Lists
<1> QED BY <1>7, <1>8

LEMMA EndShuffleLists == ASSUME IInv, NEW c \in Clients, EndShuffle(c) PROVE Lists'
<1> USE DEF IInv, Goto, history
<1>1. /\ pc[c] = "shuffle" /\ pc' = [pc EXCEPT ![c] = "scan"]
      /\ owner' = IF owner = c THEN NoClient ELSE owner
      /\ pos' = [pos EXCEPT ![c] = 0]
      /\ UNCHANGED <<cached, cachedRaced, list, other, raced, hadCache>>
  BY DEF EndShuffle
<1>2. pc'[c] = "scan" /\ \A d \in Clients \ {c} : pc'[d] = pc[d] /\ pos'[d] = pos[d]
  BY <1>1 DEF TypeOK
<1>3. Owned' /\ CacheWhole'
  BY <1>1, <1>2 DEF Lists, Owned, CacheWhole, Intact, TypeOK
<1>4. InBounds(c)' /\ Served(c)' /\ Whole(c)'
  BY <1>1, <1>2 DEF Lists, InBounds, Served, Whole, CopyPlaces, Emptied, Filled, Intact
<1>5. ASSUME NEW d \in Clients \ {c} PROVE InBounds(d)' /\ Served(d)' /\ Whole(d)'
  BY <1>1, <1>2 DEF Lists, InBounds, Served, Whole, Intact
<1> QED BY <1>3, <1>4, <1>5 DEF Lists

LEMMA ListsStep == ASSUME IInv, [Next]_vars PROVE Lists'
<1>1. CASE UNCHANGED vars \/ TimePasses
  <2>1. UNCHANGED <<cache, pc, list, pos, other, raced, hadCache>>
    BY <1>1 DEF vars, history, TimePasses
  <2> QED BY <2>1 DEF IInv, Lists, Owned, CacheWhole, InBounds, Served, Whole, Intact, cache
<1> QED BY <1>1, BeginLists, CheckLists, FetchLists, FallbackLists, CopyElementLists, StoreLists,
           BeginSwapLists, EndSwapLists, EndShuffleLists
        DEF Next

-----------------------------------------------------------------------------
(* Ages. *)

LEMMA DatedInit == Init => Dated
  BY DEF Init, Dated

LEMMA DatedStep == ASSUME IInv, [Next]_vars PROVE Dated'
<1> USE DEF IInv, Dated, TypeOK, Goto, cache, history
<1>1. ASSUME NEW c \in Clients, Begin(c) PROVE Dated'
  BY <1>1 DEF Begin
<1>2. ASSUME NEW c \in Clients, Check(c) PROVE Dated'
  <2>1. CASE StartCopy(c, "copyFresh") /\ UNCHANGED tries
    BY <1>2, <2>1 DEF Check, StartCopy
  <2>2. CASE tries' = [tries EXCEPT ![c] = 2] /\ Goto(c, "fetch") /\ UNCHANGED <<pos, origin, raced>>
    BY <1>2, <2>2 DEF Check
  <2> QED BY <1>2, <2>1, <2>2 DEF Check
<1>3. ASSUME NEW c \in Clients, FetchOk(c) PROVE Dated'
  BY <1>3 DEF FetchOk
<1>4. ASSUME NEW c \in Clients, FetchFails(c) PROVE Dated'
  BY <1>4 DEF FetchFails
<1>5. ASSUME NEW c \in Clients, Fallback(c) PROVE Dated'
  <2>1. CASE StartCopy(c, "copyStale")
    BY <1>5, <2>1 DEF Fallback, StartCopy
  <2>2. CASE Goto(c, "failed") /\ UNCHANGED <<pos, origin, raced>>
    BY <1>5, <2>2 DEF Fallback
  <2> QED BY <1>5, <2>1, <2>2 DEF Fallback
<1>6. ASSUME NEW c \in Clients, CopyElement(c) PROVE Dated'
  BY <1>6 DEF CopyElement
<1>7. ASSUME NEW c \in Clients, Store(c) PROVE Dated'
  <2>1. pc[c] = "store" /\ pc' = [pc EXCEPT ![c] = "shuffle"] /\ UNCHANGED <<tries, origin, failed>>
        /\ storedAt' = now /\ cachedOrigin' = Min({origin[c], now})
    BY <1>7 DEF Store
  <2>2. ~failed => cachedOrigin' = now
    <3>1. ~failed => origin[c] = MaxTime + 1
      BY <2>1 DEF JustFetched
    <3>2. now \in Nat /\ now <= MaxTime /\ origin[c] \in Nat
      OBVIOUS
    <3>3. cachedOrigin' = IF origin[c] <= now THEN origin[c] ELSE now
      BY <2>1, <3>2, MinOfTwo
    <3> HIDE DEF IInv, Dated, TypeOK
    <3> QED BY <3>1, <3>2, <3>3
  <2> QED BY <2>1, <2>2
<1>8. ASSUME NEW c \in Clients, BeginSwap(c) PROVE Dated'
  BY <1>8 DEF BeginSwap
<1>9. ASSUME NEW c \in Clients, EndSwap(c) PROVE Dated'
  BY <1>9 DEF EndSwap
<1>10. ASSUME NEW c \in Clients, EndShuffle(c) PROVE Dated'
  BY <1>10 DEF EndShuffle
<1>11. CASE TimePasses
  BY <1>11 DEF TimePasses
<1>12. CASE UNCHANGED vars
  BY <1>12 DEF vars
<1> QED
  BY <1>1, <1>2, <1>3, <1>4, <1>5, <1>6, <1>7, <1>8, <1>9, <1>10, <1>11, <1>12 DEF Next

-----------------------------------------------------------------------------
(* The theorems. *)

\* The invariant all properties follow from.
LEMMA Inductive == Spec => []IInv
<1>1. Init => IInv
  BY TypeInit, ListsInit, DatedInit DEF IInv
<1>2. IInv /\ [Next]_vars => IInv'
  BY TypeStep, ListsStep, DatedStep DEF IInv
<1> QED BY <1>1, <1>2, PTL DEF Spec

\* The variables keep their types whatever the scans of the clients do to the
\* shared list (client.go:396-451).
THEOREM TypeCorrect == Spec => []TypeOK
<1>1. IInv => TypeOK
  BY DEF IInv
<1> QED BY <1>1, Inductive, PTL

\* No scan loses, gains or damages a relay of its list unless a copy met the
\* shuffle of another scan, and neither does the cache (client.go:396-451).
THEOREM ListsStayIntact == Spec => []ListsIntact
<1>1. IInv => ListsIntact
  BY DEF IInv, Lists, Whole, CacheWhole, ListsIntact, Filled
<1> QED BY <1>1, Inductive, PTL

\* A scan that began with a list in the cache gets one, even when all fetches
\* fail (client.go:425-444).
THEOREM CacheServes == Spec => []FilledCacheServes
<1>1. IInv => FilledCacheServes
  BY DEF IInv, TypeOK, Lists, Served, FilledCacheServes, Filled
<1> QED BY <1>1, Inductive, PTL

\* Only after a failed fetch can a list older than the TTL pass for a fresh one
\* (client.go:399, 441-443).
THEOREM OnlyFailureStales == Spec => StaleOnlyAfterFailure
<1>1. ASSUME IInv, [Next]_vars, NEW c \in Clients, pc[c] = "check", pc'[c] = "copyFresh"
      PROVE  now - cachedOrigin < TTL \/ failed
  <2>1. PICK d \in Clients : Check(d)
    <3>1. pc \in [Clients -> Places] /\ pc[c] # pc'[c]
      BY <1>1 DEF IInv, TypeOK, Places
    <3>2. ~UNCHANGED vars /\ ~TimePasses
      BY <3>1 DEF vars, TimePasses
    <3>3. PICK d \in Clients :
            \/ Begin(d) \/ Check(d) \/ FetchOk(d) \/ FetchFails(d) \/ Fallback(d)
            \/ CopyElement(d) \/ Store(d) \/ BeginSwap(d) \/ EndSwap(d) \/ EndShuffle(d)
      BY <1>1, <3>2 DEF Next
    <3>4. ~Begin(d) /\ ~FetchOk(d) /\ ~FetchFails(d)
      BY <1>1, <3>1 DEF Begin, FetchOk, FetchFails, Goto
    <3>5. ~Fallback(d) /\ ~CopyElement(d)
      BY <1>1, <3>1 DEF Fallback, StartCopy, CopyElement, Goto
    <3>6. ~Store(d) /\ ~BeginSwap(d) /\ ~EndSwap(d) /\ ~EndShuffle(d)
      BY <1>1, <3>1 DEF Store, BeginSwap, EndSwap, EndShuffle, Goto
    <3> QED BY <3>3, <3>4, <3>5, <3>6
  <2>2. now - storedAt < TTL
    BY <1>1, <2>1 DEF Check, Goto, StartCopy, IInv, TypeOK
  <2> QED BY <1>1, <2>2 DEF IInv, Dated
<1>2. IInv /\ [Next]_vars =>
        [\A c \in Clients : pc[c] = "check" /\ pc'[c] = "copyFresh" =>
           now - cachedOrigin < TTL \/ failed]_vars
  BY <1>1
<1> QED BY <1>2, Inductive, PTL DEF Spec, StaleOnlyAfterFailure
=============================================================================
