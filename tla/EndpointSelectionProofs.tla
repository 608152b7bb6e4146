----------------------- MODULE EndpointSelectionProofs -----------------------
(***************************************************************************)
(* Proofs about EndpointSelection, for every number of endpoints and of    *)
(* requests and every width of the counter.                                *)
(***************************************************************************)
EXTENDS EndpointSelection, WellFoundedInduction, TLAPS

-----------------------------------------------------------------------------
(* The inductive invariant.                                                *)

\* Each answer is what get_endpoint_for makes of the present table.
AnswersRight ==
    \A r \in DOMAIN answers : answers[r] = GetEndpointFor(service, Index(r))

IInv == TypeOK /\ AnswersRight

-----------------------------------------------------------------------------
(* Arithmetic.                                                             *)

\* A set of naturals that is not empty has a smallest element.
LEMMA Smallest ==
    ASSUME NEW S \in SUBSET Nat, S # {}
    PROVE  \E k \in S : \A j \in S : k <= j
<1> DEFINE R == OpToRel(<, Nat)
<1>1. IsWellFoundedOn(R, Nat)
  BY NatLessThanWellFounded
<1>2. \A x, y \in Nat : x < y => <<x, y>> \in R
  BY DEF OpToRel
<1> HIDE DEF R
<1>3. PICK x \in S : \A y \in S : <<y, x>> \notin R
  BY <1>1, WFMin
<1>4. ASSUME NEW y \in S PROVE x <= y
  <2>1. ~ (y < x)
    BY <1>2, <1>3, Zenon
  <2> QED
    BY <2>1
<1> QED
  BY <1>4

\* Quotient and remainder.
LEMMA Quotient ==
    ASSUME NEW n \in Nat \ {0}, NEW a \in Nat
    PROVE  \E q \in Nat : a = q * n + (a % n) /\ a % n \in 0..(n - 1)
<1>1. a % n \in 0..(n - 1) /\ a \div n \in Nat
  OBVIOUS
<1>2. a = (a \div n) * n + (a % n)
  OBVIOUS
<1> QED
  BY <1>1, <1>2

LEMMA Remainder ==
    ASSUME NEW n \in Nat \ {0}, NEW q \in Nat, NEW k \in 0..(n - 1)
    PROVE  (q * n + k) % n = k
OBVIOUS

\* Among n numbers in a row, every remainder modulo n occurs.
LEMMA EveryRemainder ==
    ASSUME NEW n \in Nat \ {0}, NEW a \in Nat, NEW k \in 0..(n - 1)
    PROVE  \E r \in a..(a + n - 1) : r % n = k
<1>1. PICK q \in Nat : a = q * n + (a % n) /\ a % n \in 0..(n - 1)
  BY Quotient
<1> DEFINE s == a % n
           m == q * n
<1>2. m \in Nat /\ s \in 0..(n - 1) /\ a = m + s
  BY <1>1
<1>3. (m + k) % n = k
  BY Remainder
<1>4. (m + n + k) % n = k
  <2>1. m + n = (q + 1) * n
    OBVIOUS
  <2>2. ((q + 1) * n + k) % n = k
    BY Remainder
  <2> QED
    BY <2>1, <2>2
<1> HIDE DEF s, m
<1>5. CASE s <= k
  <2>1. m + k \in a..(a + n - 1)
    BY <1>2, <1>5
  <2> QED
    BY <1>3, <2>1
<1>6. CASE s > k
  <2>1. m + n + k \in a..(a + n - 1)
    BY <1>2, <1>6
  <2> QED
    BY <1>4, <2>1
<1> QED
  BY <1>2, <1>5, <1>6

\* Among 2n - 1 numbers in a row every remainder modulo n occurs even if they
\* are first taken modulo some m that is at least n: where they wrap around,
\* the row starts again from zero.
LEMMA EveryRemainderWrapping ==
    ASSUME NEW n \in Nat \ {0}, NEW m \in Nat \ {0}, n <= m,
           NEW a \in Nat, NEW k \in 0..(n - 1)
    PROVE  \E r \in a..(a + 2 * n - 2) : (r % m) % n = k
<1>1. PICK q \in Nat : a = q * m + (a % m) /\ a % m \in 0..(m - 1)
  BY Quotient
<1> DEFINE s == a % m
           b == q * m
<1>2. b \in Nat /\ s \in 0..(m - 1) /\ a = b + s
  BY <1>1
<1>3. \A t \in 0..(m - 1) : (b + t) % m = t
  BY Remainder
<1>4. \A t \in 0..(m - 1) : (b + m + t) % m = t
  <2>1. b + m = (q + 1) * m
    OBVIOUS
  <2>2. \A t \in 0..(m - 1) : ((q + 1) * m + t) % m = t
    BY Remainder
  <2> QED
    BY <2>1, <2>2
<1> HIDE DEF s, b
<1>5. CASE s + n <= m
  <2> s \in Nat
    BY <1>2
  <2>1. PICK t \in s..(s + n - 1) : t % n = k
    BY EveryRemainder
  <2>2. t \in 0..(m - 1) /\ b + t \in a..(a + 2 * n - 2)
    BY <1>2, <1>5
  <2> QED
    BY <1>3, <2>1, <2>2
<1>6. CASE s + n > m
  <2>1. k \in 0..(m - 1) /\ b + m + k \in a..(a + 2 * n - 2)
    BY <1>2, <1>6
  <2>2. k % n = k
    OBVIOUS
  <2> QED
    BY <1>4, <2>1, <2>2
<1> QED
  BY <1>2, <1>5, <1>6

-----------------------------------------------------------------------------
(* get_endpoint_for.                                                       *)

\* A service that is in the table and has endpoints.
LEMMA Table ==
    ASSUME service \in ServiceStates, HasEndpoints
    PROVE  /\ service \in Seq(BOOLEAN)
           /\ Len(service) \in 1..MaxEndpoints
           /\ DOMAIN service = 1..Len(service)
<1>1. PICK n \in 0..MaxEndpoints : service \in [1..n -> BOOLEAN]
  BY DEF ServiceStates, HasEndpoints
<1>2. n \in Nat /\ MaxEndpoints \in Nat
  BY SelectionAssumption
<1>3. service \in Seq(BOOLEAN) /\ Len(service) = n
  BY <1>1, <1>2
<1>4. n # 0
  BY <1>3 DEF HasEndpoints
<1> QED
  BY <1>2, <1>3, <1>4

\* What one of the two loops yields.
LEMMA FirstAvailableFacts ==
    ASSUME NEW endpoints \in Seq(BOOLEAN), NEW from \in Nat \ {0}, NEW to \in Int
    PROVE  LET candidates == {k \in from..to : endpoints[k]}
               k == FirstAvailable(endpoints, from, to)
           IN  \/ k = None /\ candidates = {}
               \/ k \in candidates /\ \A j \in candidates : k <= j
<1> DEFINE candidates == {k \in from..to : endpoints[k]}
<1>1. candidates \in SUBSET Nat
  OBVIOUS
<1>2. candidates = {} => FirstAvailable(endpoints, from, to) = None
  BY DEF FirstAvailable
<1>3. candidates # {} => FirstAvailable(endpoints, from, to) =
          CHOOSE k \in candidates : \A j \in candidates : k <= j
  BY DEF FirstAvailable
<1> HIDE DEF candidates
<1>4. candidates # {} =>
          \E k \in candidates : \A j \in candidates : k <= j
  BY <1>1, Smallest
<1>5. candidates # {} =>
          /\ FirstAvailable(endpoints, from, to) \in candidates
          /\ \A j \in candidates : FirstAvailable(endpoints, from, to) <= j
  BY <1>3, <1>4
<1> QED
  BY <1>2, <1>5 DEF candidates

\* The answer for a start position: an available endpoint or None; the one at
\* the start position itself if it is available; never None if an endpoint is
\* available and the start position lies in the first half.
LEMMA SelectFacts ==
    ASSUME NEW endpoints \in Seq(BOOLEAN), endpoints # <<>>, NEW index \in Nat
    PROVE  LET start == Start(index, Len(endpoints))
               k == Select(endpoints, index)
           IN  /\ start \in 0..(Len(endpoints) - 1)
               /\ k = None \/ k \in Available(endpoints)
               /\ start + 1 \in Available(endpoints) => k = start + 1
               /\ 2 * start <= Len(endpoints) /\ Available(endpoints) # {}
                      => k # None
<1> DEFINE n == Len(endpoints)
           start == Start(index, n)
           front == {k \in start + 1 .. n : endpoints[k]}
           back == {k \in 1 .. n - start : endpoints[k]}
           later == FirstAvailable(endpoints, start + 1, n)
           again == FirstAvailable(endpoints, 1, n - start)
<1>1. n \in Nat \ {0} /\ DOMAIN endpoints = 1..n
  OBVIOUS
<1>2. start \in 0..(n - 1)
  BY <1>1 DEF Start
<1>3. Select(endpoints, index) = IF later # None THEN later ELSE again
  BY DEF Select, SecondLoop
<1>4. Available(endpoints) = {k \in 1..n : endpoints[k]}
  BY <1>1 DEF Available
<1> HIDE DEF n, start
<1>5. \/ later = None /\ front = {}
      \/ later \in front /\ \A j \in front : later <= j
  BY <1>1, <1>2, FirstAvailableFacts
<1>6. \/ again = None /\ back = {}
      \/ again \in back /\ \A j \in back : again <= j
  BY <1>1, <1>2, FirstAvailableFacts
<1> HIDE DEF later, again
<1>7. front \subseteq Available(endpoints) /\ back \subseteq Available(endpoints)
  BY <1>1, <1>2, <1>4
<1>8. Select(endpoints, index) \in Available(endpoints) \cup {None}
  BY <1>3, <1>5, <1>6, <1>7
<1>9. ASSUME start + 1 \in Available(endpoints)
      PROVE  Select(endpoints, index) = start + 1
  <2>1. start + 1 \in front
    BY <1>1, <1>2, <1>4, <1>9
  <2>2. later \in front /\ later <= start + 1
    BY <1>5, <2>1
  <2>3. later = start + 1
    BY <1>1, <1>2, <2>2
  <2>4. start + 1 \in Nat /\ None \notin Nat
    BY <1>2, SelectionAssumption
  <2>5. later # None
    BY <2>3, <2>4, Zenon
  <2> QED
    BY <1>3, <2>3, <2>5, Zenon
<1>10. ASSUME 2 * start <= n, NEW k \in Available(endpoints)
       PROVE  Select(endpoints, index) # None
  <2>1. k \in front \/ k \in back
    BY <1>1, <1>2, <1>4, <1>10
  <2>2. front \subseteq Nat /\ back \subseteq Nat
    BY <1>1, <1>2
  <2> HIDE DEF front, back
  <2> QED
    BY <1>3, <1>5, <1>6, <2>1, <2>2, SelectionAssumption
<1> QED
  BY <1>2, <1>8, <1>9, <1>10 DEF n, start

\* The count of a request, modulo the range of usize.
LEMMA IndexType ==
    ASSUME NEW r \in Nat
    PROVE  Index(r) \in Nat
BY SelectionAssumption DEF Index

\* Every answer is an endpoint, None or a panic.
LEMMA AnswerType ==
    ASSUME service \in ServiceStates, NEW r \in Nat
    PROVE  GetEndpointFor(service, Index(r)) \in Outcomes
<1>1. CASE ~HasEndpoints
  BY <1>1 DEF HasEndpoints, GetEndpointFor, Outcomes
<1>2. CASE HasEndpoints
  <2>1. /\ service \in Seq(BOOLEAN) /\ service # <<>>
        /\ Len(service) \in 1..MaxEndpoints
        /\ DOMAIN service = 1..Len(service)
    BY <1>2, Table DEF HasEndpoints
  <2>2. GetEndpointFor(service, Index(r)) = Select(service, Index(r))
    BY <1>2 DEF HasEndpoints, GetEndpointFor
  <2>3. \/ Select(service, Index(r)) = None
        \/ Select(service, Index(r)) \in Available(service)
    BY <2>1, IndexType, SelectFacts
  <2>4. Available(service) \subseteq 1..MaxEndpoints
    BY <2>1, SelectionAssumption DEF Available
  <2> QED
    BY <2>2, <2>3, <2>4 DEF Outcomes
<1> QED
  BY <1>1, <1>2

-----------------------------------------------------------------------------
(* The steps.                                                              *)

\* There are no answers yet.
LEMMA InitialStates == Init => IInv
<1> SUFFICES ASSUME Init PROVE IInv
  OBVIOUS
<1>1. DOMAIN answers = {}
  BY DEF Init
<1> QED
  BY <1>1, SelectionAssumption DEF Init, IInv, TypeOK, AnswersRight

\* A request is answered from the present table, and its task goes on.
LEMMA RouteStep ==
    ASSUME IInv, NEW r \in waiting, Route(r)
    PROVE  IInv'
<1>1. /\ waiting' = waiting \ {r}
      /\ connecting' \subseteq connecting \cup {r}
      /\ answers' = [q \in DOMAIN answers \cup {r} |->
             IF q = r THEN GetEndpointFor(service, Index(r)) ELSE answers[q]]
      /\ service' = service /\ requests' = requests
  BY DEF Route, Answered
<1>2. /\ service \in ServiceStates /\ requests \in 0..MaxRequests
      /\ waiting \subseteq 1..requests
      /\ connecting \subseteq (1..requests) \ waiting
      /\ DOMAIN answers \subseteq (1..requests) \ waiting
      /\ \A q \in DOMAIN answers : answers[q] \in Outcomes
      /\ \A q \in DOMAIN answers :
             answers[q] = GetEndpointFor(service, Index(q))
  BY DEF IInv, TypeOK, AnswersRight
<1>3. r \in Nat
  BY <1>2
<1>4. GetEndpointFor(service, Index(r)) \in Outcomes
  BY <1>2, <1>3, AnswerType
<1>5. /\ DOMAIN answers' = DOMAIN answers \cup {r}
      /\ \A q \in DOMAIN answers' : answers'[q] =
             IF q = r THEN GetEndpointFor(service, Index(r)) ELSE answers[q]
  BY <1>1
<1>6. TypeOK'
  <2>1. DOMAIN answers' \subseteq (1..requests') \ waiting'
    BY <1>1, <1>2, <1>5
  <2>2. \A q \in DOMAIN answers' : answers'[q] \in Outcomes
    BY <1>2, <1>4, <1>5
  <2>3. connecting' \subseteq (1..requests') \ waiting'
    BY <1>1, <1>2
  <2> QED
    BY <1>1, <1>2, <2>1, <2>2, <2>3 DEF TypeOK, Outcomes, ServiceStates
<1>7. AnswersRight'
  BY <1>1, <1>2, <1>5 DEF AnswersRight
<1> QED
  BY <1>6, <1>7 DEF IInv

\* Answers are kept only as long as the table stays what it is.
LEMMA Invariance == IInv /\ [Next]_vars => IInv'
<1> SUFFICES ASSUME IInv, [Next]_vars PROVE IInv'
  OBVIOUS
<1>1. CASE NewConnectionRequest
  <2>1. TypeOK'
    BY <1>1, SelectionAssumption
    DEF NewConnectionRequest, IInv, TypeOK, Outcomes, ServiceStates
  <2>2. AnswersRight'
    BY <1>1 DEF NewConnectionRequest, IInv, AnswersRight
  <2> QED
    BY <2>1, <2>2 DEF IInv
<1>2. ASSUME NEW r \in waiting, Route(r) PROVE IInv'
  BY <1>2, RouteStep
<1>3. ASSUME NEW r \in connecting, Connect(r) PROVE IInv'
  BY <1>3
  DEF Connect, IInv, TypeOK, AnswersRight, ServiceStates, Outcomes
<1>4. CASE ServiceChanges
  <2>1. DOMAIN answers' = {} /\ service' \in ServiceStates
        /\ UNCHANGED <<requests, waiting, connecting>>
    BY <1>4 DEF ServiceChanges
  <2> QED
    BY <2>1 DEF IInv, TypeOK, AnswersRight, ServiceStates
<1>5. CASE UNCHANGED vars
  BY <1>5 DEF vars, IInv, TypeOK, AnswersRight, ServiceStates, Outcomes
<1> QED
  BY <1>1, <1>2, <1>3, <1>4, <1>5 DEF Next

\* The invariant holds in all reachable states.
LEMMA Inductive == Spec => []IInv
BY InitialStates, Invariance, PTL DEF Spec

-----------------------------------------------------------------------------
(* Results.                                                                *)

\* The variables keep their types: get_endpoint_for yields an endpoint of the
\* table, None or a panic and nothing else.
THEOREM TypeCorrect == Spec => []TypeOK
<1>1. IInv => TypeOK
  BY DEF IInv
<1> QED
  BY <1>1, Inductive, PTL

\* What an answer to request r says when the service has endpoints.
LEMMA Answer ==
    ASSUME IInv, HasEndpoints, NEW r \in DOMAIN answers
    PROVE  /\ service \in Seq(BOOLEAN) /\ service # <<>>
           /\ Len(service) \in 1..MaxEndpoints
           /\ Index(r) \in Nat
           /\ answers[r] = Select(service, Index(r))
<1>1. r \in Nat
  BY DEF IInv, TypeOK
<1> QED
  BY <1>1, Table, IndexType
  DEF IInv, TypeOK, AnswersRight, GetEndpointFor, HasEndpoints

\* get_endpoint_for never answers with an endpoint that is suspended or not in
\* the table at the time, however old the index that it is asked with is.  The
\* connection that the task makes later may still meet a stale address.
THEOREM AnswersAreAvailable == Spec => []OnlyAvailable
<1>1. ASSUME IInv, NEW r \in DOMAIN answers, answers[r] \in Nat
      PROVE  HasEndpoints /\ answers[r] \in Available(service)
  <2>1. HasEndpoints
    BY <1>1, SelectionAssumption
    DEF IInv, AnswersRight, GetEndpointFor, HasEndpoints
  <2>2. /\ service \in Seq(BOOLEAN) /\ service # <<>> /\ Index(r) \in Nat
        /\ answers[r] = Select(service, Index(r))
    BY <1>1, <2>1, Answer
  <2>3. answers[r] = None \/ answers[r] \in Available(service)
    BY <2>2, SelectFacts
  <2>4. None \notin Nat
    BY SelectionAssumption
  <2> QED
    BY <1>1, <2>1, <2>3, <2>4, Zenon
<1>2. IInv => OnlyAvailable
  BY <1>1 DEF OnlyAvailable
<1> QED
  BY <1>2, Inductive, PTL

\* Among 2n - 1 requests in a row that the task of new_connection_sender has
\* answered from one table of n endpoints, every available endpoint got one,
\* wherever the counter wraps around.
THEOREM NoEndpointStarves == Spec => []EveryEndpointServes
<1>1. ASSUME IInv, HasEndpoints, NEW first \in 1..requests,
             first..(first + 2 * Len(service) - 2) \subseteq DOMAIN answers,
             NEW k \in Available(service)
      PROVE  \E r \in first..(first + 2 * Len(service) - 2) : answers[r] = k
  <2> DEFINE n == Len(service)
             m == 2^IndexBits
  <2>1. /\ service \in Seq(BOOLEAN) /\ service # <<>>
        /\ n \in 1..MaxEndpoints /\ DOMAIN service = 1..n
    BY <1>1, Table DEF IInv, TypeOK, HasEndpoints
  <2>2. /\ m \in Nat \ {0} /\ MaxEndpoints <= m /\ MaxEndpoints \in Nat
        /\ first \in Nat
    BY SelectionAssumption
  <2>3. k \in 1..n
    BY <2>1 DEF Available
  <2> HIDE DEF n, m
  <2>4. n \in Nat \ {0} /\ n <= m /\ k - 1 \in 0..(n - 1)
    BY <2>1, <2>2, <2>3
  <2>5. PICK r \in first..(first + 2 * n - 2) : (r % m) % n = k - 1
    BY <2>2, <2>4, EveryRemainderWrapping, ZenonT(30)
  <2>6. r \in DOMAIN answers
    BY <1>1 DEF n
  <2>7. Index(r) \in Nat /\ answers[r] = Select(service, Index(r))
    BY <1>1, <2>6, Answer
  <2>8. Start(Index(r), n) = k - 1
    BY <2>5 DEF Start, Index, m
  <2>9. Start(Index(r), n) + 1 \in Available(service) =>
            Select(service, Index(r)) = Start(Index(r), n) + 1
    BY <2>1, <2>7, SelectFacts DEF n
  <2>10. (k - 1) + 1 = k
    BY <2>3, <2>4
  <2>11. answers[r] = k
    BY <2>7, <2>8, <2>9, <2>10, Zenon
  <2> QED
    BY <2>11 DEF n
<1>2. IInv => EveryEndpointServes
  BY <1>1 DEF EveryEndpointServes
<1> QED
  BY <1>2, Inductive, PTL

\* get_endpoint_for finds an available endpoint from every start position in
\* the first half of the table.
THEOREM FirstHalfIsServed == Spec => []FoundFromFirstHalf
<1>1. ASSUME IInv, HasEndpoints, Available(service) # {},
             NEW r \in DOMAIN answers,
             2 * Start(Index(r), Len(service)) <= Len(service)
      PROVE  answers[r] # None
  <2>1. /\ service \in Seq(BOOLEAN) /\ service # <<>> /\ Index(r) \in Nat
        /\ answers[r] = Select(service, Index(r))
    BY <1>1, Answer
  <2> QED
    BY <1>1, <2>1, SelectFacts
<1>2. IInv => FoundFromFirstHalf
  BY <1>1 DEF FoundFromFirstHalf
<1> QED
  BY <1>2, Inductive, PTL
=============================================================================
