-------------------------- MODULE ScanAdmissionProofs --------------------------
(***************************************************************************)
(* Proofs about ScanAdmission, for every set of requests, clients and        *)
(* sources, every limit, window and idempotency window, and any wait for the *)
(* limiter's lock: the rate limit, in both directions, and that a repeated   *)
(* submission makes no second scan.                                          *)
(***************************************************************************)
EXTENDS ScanAdmission, FiniteSetTheorems, SequenceTheorems, WellFoundedInduction, TLAPS

\* Who has quota, and that a request has a row only once it is answered
RequestInv ==
    /\ \A r \in Requests :
          /\ pc[r] \in {"idle", "lookup", "clock", "limit", "duplicate", "invalid"} =>
                quota[r] = "none"
          /\ pc[r] = "insert" => quota[r] = "live"
    /\ \A row \in created : quota[row.id] # "none" /\ pc[row.id] \in Answers

\* The scans a request must not repeat were answered before it, and once the look-up
\* has found none of them recent they stay old.
BeforeInv ==
    /\ \A r \in Requests : \A q \in before[r] : pc[q] \in Answers /\ Same(q, r)
    /\ IdemWindow > 0 =>
          /\ \A r \in Requests : pc[r] \in {"clock", "limit", "insert"} =>
                \A row \in created : row.id \in before[r] => row.at + IdemWindow <= now
          /\ \A old, new \in created :
                old.id \in before[new.id] => new.at >= old.at + IdemWindow

\* An instant that was read is not in the future, and not long past before the lock.
StampInv ==
    \A r \in Requests : stamp[r] <= now /\ (pc[r] = "limit" => now <= stamp[r] + MaxSkew)

\* The deque holds admitted requests of its client once, out of order by MaxSkew at most.
DequeInv ==
    \A c \in Clients :
        /\ \A i \in 1..Len(hits[c]) : hits[c][i] \in Live(c)
        /\ \A i, j \in 1..Len(hits[c]) : i < j =>
              hits[c][i] # hits[c][j] /\ stamp[hits[c][i]] <= stamp[hits[c][j]] + MaxSkew

\* A hit leaves the deque only when its window is over.
PrunedInv ==
    \A c \in Clients : \A r \in Live(c) :
        \/ \E i \in 1..Len(hits[c]) : hits[c][i] = r
        \/ stamp[r] + Window <= now

\* The admitted requests of a client within a span
Span(c, start) ==
    {r \in Live(c) : start <= stamp[r] /\ stamp[r] + MaxSkew < start + Window}

\* The limit holds for every span, whether a request starts it or not.
SpanInv ==
    \A c \in Clients :
        /\ IsFiniteSet(Live(c))
        /\ \A start \in Nat : Cardinality(Span(c, start)) <= PerWindow

IInv == TypeOK /\ RequestInv /\ BeforeInv /\ StampInv /\ DequeInv /\ PrunedInv /\ SpanInv

-----------------------------------------------------------------------------
(* Pruning. *)

LEMMA Smallest ==
    ASSUME NEW T \in SUBSET Nat, T # {}
    PROVE  \E x \in T : \A y \in T : x <= y
<1> DEFINE R == OpToRel(<, Nat)
<1>1. IsWellFoundedOn(R, Nat) BY NatLessThanWellFounded
<1>2. \A x, y \in Nat : x < y => <<x, y>> \in R BY DEF OpToRel
<1> HIDE DEF R
<1>3. PICK x \in T : \A y \in T : <<y, x>> \notin R BY <1>1, WFMin
<1>4. \A y \in T : y \in Nat /\ x \in Nat /\ ~(y < x) BY <1>2, <1>3
<1> QED BY <1>4

\* Pruning drops hits from the front that are out of the window, up to one that is not.
LEMMA PrunedDeque ==
    ASSUME TypeOK, NEW deque \in Seq(Requests), NEW t \in Nat
    PROVE  LET p == Pruned(deque, t)
           IN  /\ p \in Seq(Requests)
               /\ \E k \in 0..Len(deque) :
                     /\ Len(p) = Len(deque) - k
                     /\ \A i \in 1..Len(p) : p[i] = deque[i + k]
                     /\ \A i \in 1..k : stamp[deque[i]] + Window <= t
                     /\ Len(p) > 0 => stamp[p[1]] + Window > t
<1> DEFINE p == Pruned(deque, t)
           inside == Inside(deque, t)
           n == Len(deque)
<1>1. /\ n \in Nat /\ DOMAIN deque = 1..n /\ \A i \in 1..n : deque[i] \in Requests
      /\ inside \subseteq 1..n
  BY DEF Inside
<1>2. \A i \in (1..n) \ inside : stamp[deque[i]] + Window <= t
  BY <1>1, AdmissionAssumption DEF Inside, TypeOK
<1>3. \A i \in inside : stamp[deque[i]] + Window > t BY DEF Inside
<1> HIDE DEF inside, n
<1>4. CASE inside = {}
  <2>1. p = <<>> BY <1>4 DEF Pruned, inside
  <2>2. n \in 0..n /\ Len(p) = n - n /\ ~(Len(p) > 0) BY <1>1, <2>1
  <2>3. \A i \in 1..Len(p) : p[i] = deque[i + n] BY <2>2, <1>1
  <2>4. \A i \in 1..n : stamp[deque[i]] + Window <= t BY <1>2, <1>4
  <2> HIDE DEF p
  <2> QED BY <2>1, <2>2, <2>3, <2>4 DEF p, n
<1>5. CASE inside # {}
  <2> DEFINE first == CHOOSE i \in inside : \A j \in inside : i <= j
  <2>1. \E i \in inside : \A j \in inside : i <= j
    BY <1>1, <1>5, Smallest
  <2>2. first \in inside /\ \A j \in inside : first <= j BY <2>1
  <2>3. p = SubSeq(deque, first, n) BY <1>5 DEF Pruned, inside, n
  <2> HIDE DEF first, p
  <2>4. first \in 1..n /\ first \in Int /\ n \in Int BY <1>1, <2>2
  <2>5. /\ p \in Seq(Requests)
        /\ Len(p) = n - first + 1
        /\ \A i \in 1..(n - first + 1) : p[i] = deque[first + i - 1]
    <3>1. \A i \in first..n : deque[i] \in Requests BY <1>1, <2>4
    <3>2. first <= n BY <2>4
    <3> QED BY <2>3, <2>4, <3>1, <3>2, SubSeqProperties
  <2>6. \A i \in 1..(first - 1) : i \in (1..n) \ inside BY <1>1, <2>2, <2>4
  <2>7. first - 1 \in 0..n /\ Len(p) = n - (first - 1) BY <2>4, <2>5
  <2>8. \A i \in 1..Len(p) : p[i] = deque[i + (first - 1)]
    <3>1. \A i \in 1..Len(p) : i + (first - 1) = first + i - 1 BY <2>4, <2>5
    <3> QED BY <2>4, <2>5, <3>1
  <2>9. p[1] = deque[first]
    <3>1. 1 \in 1..(n - first + 1) /\ first + 1 - 1 = first BY <2>4
    <3> QED BY <2>5, <3>1
  <2>10. stamp[p[1]] + Window > t BY <1>3, <2>2, <2>9
  <2>11. \A i \in 1..(first - 1) : stamp[deque[i]] + Window <= t BY <1>2, <2>6
  <2> QED BY <2>5, <2>7, <2>8, <2>10, <2>11 DEF p, n
<1> QED BY <1>4, <1>5 DEF p, n

\* The members of a sequence are no more than its length, and as many if they differ.
LEMMA Members ==
    ASSUME NEW S, NEW s \in Seq(S)
    PROVE  LET M == {s[i] : i \in 1..Len(s)}
           IN  /\ IsFiniteSet(M)
               /\ Cardinality(M) <= Len(s)
               /\ (\A i, j \in 1..Len(s) : i < j => s[i] # s[j]) => Cardinality(M) = Len(s)
<1> DEFINE M == {s[i] : i \in 1..Len(s)}
           f == [i \in 1..Len(s) |-> s[i]]
<1>1. Len(s) \in Nat OBVIOUS
<1>2. IsFiniteSet(1..Len(s)) /\ Cardinality(1..Len(s)) = Len(s)
  BY <1>1, FS_Interval
<1>3. f \in Surjection(1..Len(s), M) BY DEF Surjection
<1>4. ASSUME \A i, j \in 1..Len(s) : i < j => s[i] # s[j]
      PROVE  f \in Injection(1..Len(s), M)
  <2>1. \A i, j \in 1..Len(s) : f[i] = f[j] => i = j BY <1>1, <1>4
  <2> QED BY <2>1 DEF Injection, IsInjective
<1> HIDE DEF f, M
<1>5. /\ IsFiniteSet(M) /\ Cardinality(M) <= Len(s)
      /\ Cardinality(M) = Len(s) <=> f \in Injection(1..Len(s), M)
  BY <1>2, <1>3, FS_Surjection
<1> QED BY <1>4, <1>5 DEF M

\* What is left of a client's deque when a request has pruned it
PrunedOf(r, c, p) ==
    /\ p \in Seq(Requests)
    /\ Len(p) <= Len(hits[c])
    /\ \A i \in 1..Len(p) : p[i] \in Live(c)
    /\ \A i, j \in 1..Len(p) : i < j =>
          p[i] # p[j] /\ stamp[p[i]] <= stamp[p[j]] + MaxSkew
    /\ \A q \in Live(c) :
          (\E i \in 1..Len(p) : p[i] = q) \/ stamp[q] + Window <= now
    /\ Len(p) > 0 => stamp[p[1]] + Window > stamp[r]

LEMMA PrunedHits ==
    ASSUME IInv, NEW r \in Requests
    PROVE  PrunedOf(r, client[r], Pruned(hits[client[r]], stamp[r]))
<1> DEFINE c == client[r]
           p == Pruned(hits[c], stamp[r])
<1> USE AdmissionAssumption DEF IInv
<1>1. c \in Clients /\ hits[c] \in Seq(Requests) /\ Len(hits[c]) \in Nat /\ stamp[r] \in Nat
      /\ now \in Nat /\ stamp[r] <= now
  BY DEF TypeOK, StampInv
<1>2. /\ p \in Seq(Requests)
      /\ \E k \in 0..Len(hits[c]) :
            /\ Len(p) = Len(hits[c]) - k
            /\ \A i \in 1..Len(p) : p[i] = hits[c][i + k]
            /\ \A i \in 1..k : stamp[hits[c][i]] + Window <= stamp[r]
            /\ Len(p) > 0 => stamp[p[1]] + Window > stamp[r]
  BY <1>1, PrunedDeque
<1>3. PICK k \in 0..Len(hits[c]) :
          /\ Len(p) = Len(hits[c]) - k
          /\ \A i \in 1..Len(p) : p[i] = hits[c][i + k]
          /\ \A i \in 1..k : stamp[hits[c][i]] + Window <= stamp[r]
          /\ Len(p) > 0 => stamp[p[1]] + Window > stamp[r]
  BY <1>2
<1>4. /\ \A i \in 1..Len(hits[c]) : hits[c][i] \in Live(c)
      /\ \A i, j \in 1..Len(hits[c]) : i < j =>
            hits[c][i] # hits[c][j] /\ stamp[hits[c][i]] <= stamp[hits[c][j]] + MaxSkew
      /\ \A q \in Live(c) : (\E i \in 1..Len(hits[c]) : hits[c][i] = q) \/ stamp[q] + Window <= now
  BY <1>1 DEF DequeInv, PrunedInv
<1> HIDE DEF p, c
<1>5. \A i \in 1..Len(p) : i + k \in 1..Len(hits[c]) BY <1>1, <1>3
<1>6. \A i \in 1..Len(p) : p[i] \in Live(c) BY <1>3, <1>4, <1>5
<1>7. \A i, j \in 1..Len(p) : i < j =>
          p[i] # p[j] /\ stamp[p[i]] <= stamp[p[j]] + MaxSkew
  <2> SUFFICES ASSUME NEW i \in 1..Len(p), NEW j \in 1..Len(p), i < j
               PROVE  p[i] # p[j] /\ stamp[p[i]] <= stamp[p[j]] + MaxSkew
    OBVIOUS
  <2>1. i + k < j + k BY <1>1, <1>3
  <2> QED BY <1>3, <1>4, <1>5, <2>1
<1>8. \A q \in Live(c) : (\E i \in 1..Len(p) : p[i] = q) \/ stamp[q] + Window <= now
  <2> SUFFICES ASSUME NEW q \in Live(c), NEW i \in 1..Len(hits[c]), hits[c][i] = q
               PROVE  (\E j \in 1..Len(p) : p[j] = q) \/ stamp[q] + Window <= now
    BY <1>4
  <2>1. CASE i \in 1..k
    <3>1. stamp[q] \in Nat /\ Window \in Nat BY DEF Live, TypeOK
    <3>2. stamp[q] + Window <= stamp[r] BY <1>3, <2>1
    <3> HIDE DEF IInv
    <3> QED BY <1>1, <3>1, <3>2
  <2>2. CASE i \notin 1..k
    <3>1. i - k \in 1..Len(p) /\ (i - k) + k = i BY <1>1, <1>3, <2>2
    <3> QED BY <1>3, <3>1
  <2> QED BY <2>1, <2>2
<1>9. Len(p) <= Len(hits[c]) BY <1>1, <1>3
<1> QED BY <1>2, <1>3, <1>6, <1>7, <1>8, <1>9 DEF PrunedOf, p, c

-----------------------------------------------------------------------------
(* Steps that leave the limiter, or the rows, alone. *)

LEMMA LimiterKept ==
    ASSUME IInv, UNCHANGED <<client, hits, quota>>, now' \in Nat, now <= now',
           \A r \in Requests : quota[r] = "live" => stamp'[r] = stamp[r]
    PROVE  (DequeInv /\ PrunedInv /\ SpanInv)'
<1> USE AdmissionAssumption DEF IInv
<1>1. \A c : Live(c)' = Live(c) BY DEF Live
<1>2. \A c : \A r \in Live(c) : stamp'[r] = stamp[r] /\ stamp[r] \in Nat BY DEF Live, TypeOK
<1>3. DequeInv' BY <1>1, <1>2 DEF DequeInv
<1>4. PrunedInv'
  <2>1. now \in Nat /\ Window \in Nat BY DEF TypeOK
  <2>2. ASSUME NEW c \in Clients, NEW r \in Live(c)
        PROVE  (\E i \in 1..Len(hits[c]) : hits[c][i] = r) \/ stamp[r] + Window <= now'
    <3>1. CASE stamp[r] + Window <= now BY <1>2, <2>1, <3>1
    <3> QED BY <3>1 DEF PrunedInv
  <2> QED BY <1>1, <1>2, <2>2 DEF PrunedInv
<1>5. \A c, start : Span(c, start)' = Span(c, start) BY <1>1, <1>2 DEF Span
<1>6. SpanInv' BY <1>1, <1>5 DEF SpanInv
<1> QED BY <1>3, <1>4, <1>6

LEMMA BeforeKept ==
    ASSUME IInv, UNCHANGED <<before, created, client, source>>, now' \in Nat, now <= now',
           \A q \in Requests : pc[q] \in Answers => pc'[q] \in Answers,
           \A q \in Requests : pc'[q] \in {"clock", "limit", "insert"} =>
              pc[q] \in {"clock", "limit", "insert"}
    PROVE  BeforeInv'
<1> USE AdmissionAssumption DEF IInv
<1>1. \A r \in Requests : \A q \in before[r] : q \in Requests BY DEF TypeOK
<1>2. \A row \in created : row.at \in Nat BY DEF TypeOK
<1>3. \A r \in Requests : \A q \in before'[r] : pc'[q] \in Answers /\ Same(q, r)'
  BY <1>1 DEF BeforeInv, Same
<1>4. IdemWindow > 0 => \A r \in Requests : pc'[r] \in {"clock", "limit", "insert"} =>
          \A row \in created : row.id \in before[r] => row.at + IdemWindow <= now'
  <2> SUFFICES ASSUME IdemWindow > 0, NEW r \in Requests,
                      pc'[r] \in {"clock", "limit", "insert"},
                      NEW row \in created, row.id \in before[r]
               PROVE  row.at + IdemWindow <= now'
    OBVIOUS
  <2>1. row.at + IdemWindow <= now BY DEF BeforeInv
  <2>2. row.at \in Nat /\ IdemWindow \in Nat /\ now \in Nat BY <1>2 DEF TypeOK
  <2> QED BY <2>1, <2>2
<1> QED BY <1>3, <1>4 DEF BeforeInv

LEMMA InitEstablishes == Init => IInv
<1> SUFFICES ASSUME Init PROVE IInv OBVIOUS
<1> USE AdmissionAssumption DEF Init
<1>1. TypeOK BY DEF TypeOK, Working
<1>2. RequestInv /\ BeforeInv /\ StampInv BY DEF RequestInv, BeforeInv, StampInv
<1>3. \A c \in Clients : Live(c) = {} /\ Len(hits[c]) = 0 BY DEF Live
<1>4. DequeInv /\ PrunedInv BY <1>3 DEF DequeInv, PrunedInv
<1>5. \A c \in Clients, start \in Nat : Span(c, start) = {} BY <1>3 DEF Span
<1>6. SpanInv
  <2>1. IsFiniteSet({}) /\ Cardinality({}) <= PerWindow BY FS_EmptySet
  <2> QED BY <1>3, <1>5, <2>1 DEF SpanInv
<1> QED BY <1>1, <1>2, <1>4, <1>6 DEF IInv

LEMMA BeginKeeps ==
    ASSUME IInv, NEW r \in Requests, Begin(r) \/ Refuse(r)
    PROVE  IInv'
<1> USE AdmissionAssumption DEF IInv
<1> DEFINE seen == {row.id : row \in {x \in created : Same(x.id, r) /\ pc[x.id] \in Answers}}
<1>1. /\ pc[r] = "idle"
      /\ \E label \in {"lookup", "clock", "invalid"} :
            /\ pc' = [pc EXCEPT ![r] = label]
            /\ label = "clock" => IdemWindow = 0
      /\ before' \in {before, [before EXCEPT ![r] = seen]}
      /\ UNCHANGED <<now, client, source, stamp, created, hits, quota, faults>>
  BY DEF Begin, Refuse, Goto, Then, requestVars
<1> HIDE DEF seen
<1>2. \A q \in seen : q \in Requests /\ pc[q] \in Answers /\ Same(q, r)
  BY DEF TypeOK, seen
<1>3. TypeOK' BY <1>1, <1>2 DEF TypeOK, Working, Answers
<1>4. RequestInv' BY <1>1 DEF RequestInv, TypeOK, Answers
<1>5. BeforeInv'
  <2>1. \A q \in Requests : pc[q] \in Answers => pc'[q] \in Answers /\ q # r
    BY <1>1 DEF TypeOK, Answers
  <2>2. \A x \in Requests : x # r => before'[x] = before[x] /\ pc'[x] = pc[x]
    BY <1>1 DEF TypeOK
  <2>3. \A q \in before'[r] : pc'[q] \in Answers /\ Same(q, r)
    BY <1>1, <1>2, <2>1 DEF TypeOK, BeforeInv
  <2>4. \A x \in Requests : \A q \in before'[x] : pc'[q] \in Answers /\ Same(q, x)'
    BY <1>1, <2>1, <2>2, <2>3 DEF TypeOK, BeforeInv, Same
  <2>5. IdemWindow > 0 => \A x \in Requests : pc'[x] \in {"clock", "limit", "insert"} => x # r
    BY <1>1 DEF TypeOK
  <2>6. \A row \in created : row.id # r BY <1>1 DEF RequestInv, Answers
  <2>7. \A row \in created : row.id \in Requests BY DEF TypeOK
  <2> QED BY <1>1, <2>2, <2>4, <2>5, <2>6, <2>7 DEF BeforeInv
<1>6. StampInv' BY <1>1 DEF StampInv, TypeOK
<1>7. (DequeInv /\ PrunedInv /\ SpanInv)' BY <1>1, LimiterKept DEF TypeOK
<1> QED BY <1>3, <1>4, <1>5, <1>6, <1>7

LEMMA LookupKeeps ==
    ASSUME IInv, NEW r \in Requests, Lookup(r)
    PROVE  IInv'
<1> USE AdmissionAssumption DEF IInv
<1>1. /\ pc[r] = "lookup"
      /\ \E label \in {"duplicate", "clock", "error"} :
            /\ pc' = [pc EXCEPT ![r] = label]
            /\ label = "clock" => Recent(r) = {}
      /\ UNCHANGED <<now, client, source, before, stamp, created, hits, quota>>
      /\ faults' \in Nat
  BY DEF Lookup, Goto, Then, Fault, requestVars, TypeOK
<1>2. TypeOK' BY <1>1 DEF TypeOK, Working, Answers
<1>3. RequestInv' BY <1>1 DEF RequestInv, TypeOK, Answers
<1>4. BeforeInv'
  <2>1. \A q \in Requests : pc[q] \in Answers => pc'[q] \in Answers
    BY <1>1 DEF TypeOK, Answers
  <2>2. \A x \in Requests : \A q \in before'[x] : pc'[q] \in Answers /\ Same(q, x)'
    BY <1>1, <2>1 DEF TypeOK, BeforeInv, Same
  <2>3. ASSUME IdemWindow > 0, pc'[r] \in {"clock", "limit", "insert"},
               NEW row \in created, row.id \in before[r]
        PROVE  row.at + IdemWindow <= now
    <3>1. row \notin Recent(r) BY <1>1, <2>3 DEF TypeOK
    <3>2. Same(row.id, r) BY <2>3 DEF BeforeInv
    <3> QED BY <3>1, <3>2 DEF Recent, TypeOK
  <2>4. \A x \in Requests : x # r => pc'[x] = pc[x] BY <1>1 DEF TypeOK
  <2> QED BY <1>1, <2>2, <2>3, <2>4 DEF BeforeInv
<1>5. StampInv' BY <1>1 DEF StampInv, TypeOK
<1>6. (DequeInv /\ PrunedInv /\ SpanInv)' BY <1>1, LimiterKept DEF TypeOK
<1> QED BY <1>2, <1>3, <1>4, <1>5, <1>6

LEMMA ReadClockKeeps ==
    ASSUME IInv, NEW r \in Requests, ReadClock(r)
    PROVE  IInv'
<1> USE AdmissionAssumption DEF IInv
<1>1. /\ pc[r] = "clock" /\ quota[r] = "none"
      /\ pc' = [pc EXCEPT ![r] = "limit"] /\ stamp' = [stamp EXCEPT ![r] = now]
      /\ UNCHANGED <<now, client, source, before, created, hits, quota, faults>>
  BY DEF ReadClock, Goto, requestVars, RequestInv
<1>2. TypeOK' BY <1>1 DEF TypeOK, Working, Answers
<1>3. RequestInv' BY <1>1 DEF RequestInv, TypeOK, Answers
<1>4. BeforeInv' BY <1>1, BeforeKept DEF TypeOK, Answers
<1>5. StampInv' BY <1>1 DEF StampInv, TypeOK
<1>6. (DequeInv /\ PrunedInv /\ SpanInv)' BY <1>1, LimiterKept DEF TypeOK
<1> QED BY <1>2, <1>3, <1>4, <1>5, <1>6

LEMMA InsertKeeps ==
    ASSUME IInv, NEW r \in Requests, Insert(r)
    PROVE  IInv'
<1> USE AdmissionAssumption DEF IInv
<1> DEFINE new == [id |-> r, at |-> now]
<1>1. /\ pc[r] = "insert" /\ quota[r] = "live"
      /\ \E label \in {"created", "error"} : pc' = [pc EXCEPT ![r] = label]
      /\ created' \in {created, created \cup {new}}
      /\ UNCHANGED <<now, client, source, before, stamp, hits, quota>>
      /\ faults' \in Nat
  BY DEF Insert, Goto, Fault, requestVars, TypeOK, RequestInv
<1>2. TypeOK' BY <1>1 DEF TypeOK, Working, Answers
<1>3. \A q \in Requests : (pc[q] \in Answers => pc'[q] \in Answers /\ q # r)
                          /\ (q # r => pc'[q] = pc[q]) /\ pc'[r] \in {"created", "error"}
  BY <1>1 DEF TypeOK, Answers
<1>4. RequestInv'
  <2>1. \A row \in created' : quota[row.id] # "none" /\ pc'[row.id] \in Answers
    <3>1. \A row \in created : row.id \in Requests BY DEF TypeOK
    <3> QED BY <1>1, <1>3, <3>1 DEF RequestInv, Answers
  <2> QED BY <1>1, <1>3, <2>1 DEF RequestInv
<1>5. BeforeInv'
  <2>1. \A x \in Requests : \A q \in before[x] : q # r /\ pc'[q] \in Answers /\ Same(q, x)'
    BY <1>1, <1>3 DEF TypeOK, BeforeInv, Same
  <2>2. ASSUME IdemWindow > 0, NEW old \in created', NEW row \in created',
               old.id \in before[row.id]
        PROVE  row.at >= old.at + IdemWindow
    <3>1. row.id \in Requests BY <1>1 DEF TypeOK
    <3>2. old \in created BY <1>1, <2>1, <2>2, <3>1
    <3>3. CASE row \in created BY <2>2, <3>2, <3>3 DEF BeforeInv
    <3>4. CASE row = new BY <1>1, <2>2, <3>2, <3>4 DEF BeforeInv, TypeOK
    <3> QED BY <1>1, <3>3, <3>4
  <2>3. ASSUME IdemWindow > 0, NEW x \in Requests, pc'[x] \in {"clock", "limit", "insert"},
               NEW row \in created', row.id \in before[x]
        PROVE  row.at + IdemWindow <= now
    <3>1. row \in created BY <1>1, <2>1, <2>3
    <3>2. x # r /\ pc'[x] = pc[x] BY <1>3, <2>3
    <3> QED BY <2>3, <3>1, <3>2 DEF BeforeInv
  <2> QED BY <1>1, <2>1, <2>2, <2>3 DEF BeforeInv
<1>6. StampInv' BY <1>1 DEF StampInv, TypeOK
<1>7. (DequeInv /\ PrunedInv /\ SpanInv)' BY <1>1, LimiterKept DEF TypeOK
<1> QED BY <1>2, <1>4, <1>5, <1>6, <1>7

LEMMA TickKeeps ==
    ASSUME IInv, Tick
    PROVE  IInv'
<1> USE AdmissionAssumption DEF IInv
<1>1. /\ now' = now + 1
      /\ \A r \in Requests : pc[r] = "limit" => now < stamp[r] + MaxSkew
      /\ UNCHANGED <<pc, client, source, before, stamp, created, hits, quota, faults>>
  BY DEF Tick, requestVars
<1>2. now \in Nat /\ now' \in Nat /\ now <= now' BY <1>1 DEF TypeOK
<1>3. TypeOK' BY <1>1, <1>2 DEF TypeOK
<1>4. RequestInv' BY <1>1 DEF RequestInv
<1>5. BeforeInv' BY <1>1, <1>2, BeforeKept
<1>6. StampInv' BY <1>1, <1>2 DEF StampInv, TypeOK
<1>7. (DequeInv /\ PrunedInv /\ SpanInv)' BY <1>1, <1>2, LimiterKept
<1> QED BY <1>3, <1>4, <1>5, <1>6, <1>7

\* A restart forgets all hits, and what they counted with them.
LEMMA RestartKeeps ==
    ASSUME IInv, Restart
    PROVE  IInv'
<1> USE AdmissionAssumption DEF IInv
<1>1. TypeOK' BY DEF TypeOK, Restart, Fault, Working, Answers, requestVars
<1>2. \A q \in Requests :
          /\ pc[q] \in Answers => pc'[q] \in Answers
          /\ pc'[q] \notin {"lookup", "clock", "limit", "insert"}
          /\ quota[q] = "none" <=> quota'[q] = "none"
          /\ pc'[q] \in {"idle", "duplicate", "invalid"} => pc[q] = pc'[q]
  BY DEF Restart, Working, Answers, TypeOK
<1>3. RequestInv'
  <2>1. \A row \in created : row.id \in Requests BY DEF TypeOK
  <2> QED BY <1>2, <2>1 DEF RequestInv, Restart
<1>4. BeforeInv' BY <1>2, BeforeKept DEF Restart, requestVars, TypeOK
<1>5. StampInv' BY <1>2 DEF StampInv, Restart, TypeOK
<1>6. \A c \in Clients : Live(c)' = {} /\ Len(hits'[c]) = 0
  BY DEF Live, Restart, TypeOK
<1>7. (DequeInv /\ PrunedInv)' BY <1>6 DEF DequeInv, PrunedInv
<1>8. \A c \in Clients, start \in Nat : Span(c, start)' = {} BY <1>6 DEF Span
<1>9. SpanInv'
  <2>1. IsFiniteSet({}) /\ Cardinality({}) <= PerWindow BY FS_EmptySet
  <2> QED BY <1>6, <1>8, <2>1 DEF SpanInv
<1> QED BY <1>1, <1>3, <1>4, <1>5, <1>7, <1>9

-----------------------------------------------------------------------------
(* The limiter. *)

LEMMA RejectKeeps ==
    ASSUME IInv, NEW r \in Requests, NEW p, PrunedOf(r, client[r], p),
           pc[r] = "limit", pc' = [pc EXCEPT ![r] = "limited"],
           hits' = [hits EXCEPT ![client[r]] = p], stamp' = [stamp EXCEPT ![r] = 0],
           UNCHANGED <<now, client, source, before, created, quota, faults>>
    PROVE  IInv'
<1> USE AdmissionAssumption DEF IInv
<1> DEFINE c == client[r]
<1>1. c \in Clients /\ quota[r] = "none" BY DEF TypeOK, RequestInv
<1>2. /\ \A d : Live(d)' = Live(d)
      /\ \A d : \A q \in Live(d) : stamp'[q] = stamp[q] /\ stamp[q] \in Nat
  BY <1>1 DEF Live, TypeOK
<1>3. hits'[c] = p /\ \A d \in Clients : d # c => hits'[d] = hits[d]
  BY <1>1 DEF TypeOK
<1>4. TypeOK'
  <2>1. \A d \in Clients : hits'[d] \in Seq(Requests) /\ Len(hits'[d]) <= PerWindow
    BY <1>1, <1>3 DEF TypeOK, PrunedOf
  <2>2. hits' \in [Clients -> Seq(Requests)] BY <2>1 DEF TypeOK
  <2> QED BY <2>1, <2>2 DEF TypeOK, Working, Answers
<1>5. RequestInv' BY <1>1 DEF RequestInv, TypeOK, Answers
<1>6. BeforeInv' BY BeforeKept DEF TypeOK, Answers
<1>7. StampInv' BY DEF StampInv, TypeOK
<1> HIDE DEF c
<1>8. DequeInv'
  <2> SUFFICES ASSUME NEW d \in Clients
               PROVE  /\ \A i \in 1..Len(hits'[d]) : hits'[d][i] \in Live(d)
                      /\ \A i, j \in 1..Len(hits'[d]) : i < j =>
                            /\ hits'[d][i] # hits'[d][j]
                            /\ stamp'[hits'[d][i]] <= stamp'[hits'[d][j]] + MaxSkew
    BY <1>2 DEF DequeInv
  <2>1. CASE d = c BY <1>2, <1>3, <2>1 DEF PrunedOf, c
  <2>2. CASE d # c BY <1>2, <1>3, <2>2 DEF DequeInv
  <2> QED BY <2>1, <2>2
<1>9. PrunedInv'
  <2> SUFFICES ASSUME NEW d \in Clients, NEW q \in Live(d)
               PROVE  \/ \E i \in 1..Len(hits'[d]) : hits'[d][i] = q
                      \/ stamp[q] + Window <= now
    BY <1>2 DEF PrunedInv
  <2>1. CASE d = c BY <1>3, <2>1 DEF PrunedOf, c
  <2>2. CASE d # c BY <1>3, <2>2 DEF PrunedInv
  <2> QED BY <2>1, <2>2
<1>10. \A d, start : Span(d, start)' = Span(d, start) BY <1>2 DEF Span
<1>11. SpanInv' BY <1>2, <1>10 DEF SpanInv
<1> QED BY <1>4, <1>5, <1>6, <1>7, <1>8, <1>9, <1>11

\* An admitted request is the last of the deque, and its span is in the deque: what was
\* pruned is older than the lock wait allows the span to be.
LEMMA AdmitKeeps ==
    ASSUME IInv, NEW r \in Requests, NEW c \in Clients, c = client[r],
           NEW p, PrunedOf(r, c, p), Len(p) < PerWindow,
           pc[r] = "limit", pc' = [pc EXCEPT ![r] = "insert"],
           hits' = [hits EXCEPT ![c] = Append(p, r)],
           quota' = [quota EXCEPT ![r] = "live"],
           UNCHANGED <<now, client, source, before, stamp, created, faults>>
    PROVE  IInv'
<1> USE AdmissionAssumption DEF IInv
<1> DEFINE h == Append(p, r)
<1>1. quota[r] = "none" /\ r \notin Live(c)
  BY DEF TypeOK, RequestInv, Live
<1>2. /\ Live(c)' = Live(c) \cup {r}
      /\ \A d \in Clients : d # c => Live(d)' = Live(d)
  BY <1>1 DEF Live, TypeOK
<1>3. hits'[c] = h /\ \A d \in Clients : d # c => hits'[d] = hits[d]
  BY <1>1 DEF TypeOK
<1>4. /\ p \in Seq(Requests) /\ Len(p) \in Nat
      /\ h \in Seq(Requests) /\ Len(h) = Len(p) + 1
      /\ \A i \in 1..Len(p) : h[i] = p[i]
      /\ h[Len(p) + 1] = r
  <2>1. p \in Seq(Requests) BY DEF PrunedOf
  <2> QED BY <2>1, AppendProperties
<1>5. /\ now \in Nat /\ PerWindow \in Nat /\ Window \in Nat /\ MaxSkew \in Nat
      /\ \A q \in Requests : stamp[q] \in Nat /\ stamp[q] <= now
      /\ now <= stamp[r] + MaxSkew
      /\ \A d : Live(d) \subseteq Requests
  BY DEF TypeOK, StampInv, Live
<1>6. TypeOK'
  <2>1. \A d \in Clients : hits'[d] \in Seq(Requests) /\ Len(hits'[d]) <= PerWindow
    BY <1>1, <1>3, <1>4, <1>5 DEF TypeOK
  <2>2. hits' \in [Clients -> Seq(Requests)] BY <2>1 DEF TypeOK
  <2> QED BY <2>1, <2>2 DEF TypeOK, Working, Answers
<1>7. RequestInv' BY <1>1 DEF RequestInv, TypeOK, Answers
<1>8. BeforeInv' BY BeforeKept DEF TypeOK, Answers
<1>9. StampInv' BY DEF StampInv, TypeOK
<1> HIDE DEF h
<1>10. \A i \in 1..Len(h) : i \in 1..Len(p) \/ (i = Len(p) + 1 /\ h[i] = r)
  BY <1>4
<1>11. DequeInv'
  <2> SUFFICES ASSUME NEW d \in Clients
               PROVE  /\ \A i \in 1..Len(hits'[d]) : hits'[d][i] \in Live(d)'
                      /\ \A i, j \in 1..Len(hits'[d]) : i < j =>
                            /\ hits'[d][i] # hits'[d][j]
                            /\ stamp[hits'[d][i]] <= stamp[hits'[d][j]] + MaxSkew
    BY DEF DequeInv
  <2>1. CASE d = c
    <3>1. \A i \in 1..Len(p) : p[i] \in Live(c) BY DEF PrunedOf
    <3>2. \A i \in 1..Len(h) : h[i] \in Live(c)' BY <1>2, <1>4, <1>10, <3>1
    <3>3. ASSUME NEW i \in 1..Len(h), NEW j \in 1..Len(h), i < j
          PROVE  h[i] # h[j] /\ stamp[h[i]] <= stamp[h[j]] + MaxSkew
      <4>1. i \in 1..Len(p) /\ h[i] = p[i] BY <1>4, <3>3
      <4>2. CASE j \in 1..Len(p)
        <5>1. h[j] = p[j] BY <1>4, <4>2
        <5> QED BY <3>3, <4>1, <4>2, <5>1 DEF PrunedOf
      <4>3. CASE h[j] = r
        <5>1. h[i] # r BY <1>1, <3>1, <4>1
        <5>2. h[i] \in Requests BY <1>5, <3>1, <4>1
        <5>3. stamp[h[i]] <= now BY <1>5, <5>2
        <5> QED BY <1>5, <4>3, <5>1, <5>2, <5>3
      <4> QED BY <1>10, <4>2, <4>3
    <3>4. hits'[d] = h BY <1>3, <2>1
    <3>5. \A i \in 1..Len(h) : h[i] \in Live(d)' BY <2>1, <3>2
    <3>6. \A i, j \in 1..Len(h) : i < j =>
              h[i] # h[j] /\ stamp[h[i]] <= stamp[h[j]] + MaxSkew
      BY <3>3
    <3> HIDE DEF IInv
    <3>7. \A i \in 1..Len(hits'[d]) : hits'[d][i] \in Live(d)' BY <3>4, <3>5
    <3>8. ASSUME NEW i \in 1..Len(hits'[d]), NEW j \in 1..Len(hits'[d]), i < j
          PROVE  /\ hits'[d][i] # hits'[d][j]
                 /\ stamp[hits'[d][i]] <= stamp[hits'[d][j]] + MaxSkew
      <4>1. i \in 1..Len(h) /\ j \in 1..Len(h) BY <3>4
      <4>2. h[i] # h[j] /\ stamp[h[i]] <= stamp[h[j]] + MaxSkew BY <3>6, <3>8, <4>1
      <4> QED BY <3>4, <4>2
    <3> QED BY <3>7, <3>8
  <2>2. CASE d # c BY <1>2, <1>3, <2>2 DEF DequeInv
  <2> QED BY <2>1, <2>2
<1>12. \A q \in Live(c) : (\E i \in 1..Len(p) : p[i] = q) \/ stamp[q] + Window <= now
  BY DEF PrunedOf
<1>13. PrunedInv'
  <2> SUFFICES ASSUME NEW d \in Clients, NEW q \in Live(d)'
               PROVE  \/ \E i \in 1..Len(hits'[d]) : hits'[d][i] = q
                      \/ stamp[q] + Window <= now
    BY DEF PrunedInv
  <2>1. CASE d = c
    <3>1. CASE q = r
      <4>1. Len(p) + 1 \in 1..Len(h) BY <1>4
      <4> QED BY <1>3, <1>4, <2>1, <3>1, <4>1
    <3>2. CASE q \in Live(c)
      <4>1. ASSUME NEW i \in 1..Len(p), p[i] = q
            PROVE  \E j \in 1..Len(h) : h[j] = q
        <5>1. i \in 1..Len(h) BY <1>4
        <5> QED BY <1>4, <4>1, <5>1
      <4> QED BY <1>3, <1>12, <2>1, <3>2, <4>1
    <3> QED BY <1>2, <2>1, <3>1, <3>2
  <2>2. CASE d # c BY <1>2, <1>3, <2>2 DEF PrunedInv
  <2> QED BY <2>1, <2>2
<1>14. SpanInv'
  <2> SUFFICES ASSUME NEW d \in Clients
               PROVE  /\ IsFiniteSet(Live(d)')
                      /\ \A start \in Nat : Cardinality(Span(d, start)') <= PerWindow
    BY DEF SpanInv
  <2>1. CASE d # c
    <3>1. \A start \in Nat : Span(d, start)' = Span(d, start) BY <1>2, <2>1 DEF Span
    <3> QED BY <1>2, <2>1, <3>1 DEF SpanInv
  <2>2. CASE d = c
    <3>1. IsFiniteSet(Live(c)') BY <1>1, <1>2, FS_AddElement DEF SpanInv
    <3>2. ASSUME NEW start \in Nat PROVE Cardinality(Span(c, start)') <= PerWindow
      <4> DEFINE M == {h[i] : i \in 1..Len(h)}
      <4>1. CASE r \notin Span(c, start)'
        <5>1. Span(c, start)' = Span(c, start) BY <1>2, <4>1 DEF Span
        <5> QED BY <1>1, <5>1 DEF SpanInv
      <4>2. CASE r \in Span(c, start)'
        <5>1. stamp[r] + MaxSkew < start + Window BY <4>2 DEF Span
        <5>2. ASSUME NEW q \in Span(c, start)' PROVE q \in M
          <6>1. q \in Live(c) \cup {r} /\ start <= stamp[q] BY <1>2 DEF Span
          <6>2. CASE q = r
            <7>1. Len(p) + 1 \in 1..Len(h) BY <1>4
            <7> QED BY <1>4, <6>2, <7>1
          <6>3. CASE q \in Live(c)
            <7>1. stamp[q] \in Nat /\ stamp[r] \in Nat BY <1>5, <6>3
            <7>2. ~(stamp[q] + Window <= now) BY <1>5, <5>1, <6>1, <7>1
            <7>3. PICK i \in 1..Len(p) : p[i] = q BY <1>12, <6>3, <7>2
            <7>4. i \in 1..Len(h) BY <1>4
            <7> QED BY <1>4, <7>3, <7>4
          <6> QED BY <6>1, <6>2, <6>3
        <5>3. Span(c, start)' \in SUBSET M BY <5>2
        <5>4. IsFiniteSet(M) /\ Cardinality(M) <= Len(h) BY <1>4, Members
        <5> HIDE DEF M
        <5>5. /\ IsFiniteSet(Span(c, start)')
              /\ Cardinality(Span(c, start)') <= Cardinality(M)
          BY <5>3, <5>4, FS_Subset
        <5>6. Cardinality(Span(c, start)') \in Nat /\ Cardinality(M) \in Nat
          BY <5>4, <5>5, FS_CardinalityType
        <5> QED BY <1>4, <1>5, <5>4, <5>5, <5>6
      <4> QED BY <4>1, <4>2
    <3> QED BY <2>2, <3>1, <3>2
  <2> QED BY <2>1, <2>2
<1> QED BY <1>6, <1>7, <1>8, <1>9, <1>11, <1>13, <1>14

LEMMA CheckAndRecordKeeps ==
    ASSUME IInv, NEW r \in Requests, CheckAndRecord(r)
    PROVE  IInv'
<1>0. PICK c \in Clients : c = client[r] BY DEF IInv, TypeOK
<1> DEFINE p == Pruned(hits[client[r]], stamp[r])
<1>1. PrunedOf(r, c, p) /\ PrunedOf(r, client[r], p) BY <1>0, PrunedHits
<1>2. p \in Seq(Requests) BY <1>1 DEF PrunedOf
<1>3. CASE /\ Full(p)
           /\ hits' = [hits EXCEPT ![client[r]] = p]
           /\ stamp' = [stamp EXCEPT ![r] = 0]
           /\ Goto(r, "limited")
           /\ UNCHANGED quota
  <2> HIDE DEF p
  <2> QED BY <1>1, <1>3, RejectKeeps DEF CheckAndRecord, Goto, requestVars
<1>4. CASE /\ ~Full(p)
           /\ hits' = [hits EXCEPT ![client[r]] = Append(p, r)]
           /\ quota' = [quota EXCEPT ![r] = "live"]
           /\ Goto(r, Then("limit"))
           /\ UNCHANGED stamp
  <2> HIDE DEF p
  <2>1. Len(p) \in Nat BY <1>2
  <2>2. Len(p) < PerWindow BY <1>4, <2>1, AdmissionAssumption DEF Full
  <2>3. Then("limit") = "insert" BY DEF Then
  <2> QED BY <1>0, <1>1, <1>4, <2>2, <2>3, AdmitKeeps DEF CheckAndRecord, Goto, requestVars
<1> QED BY <1>3, <1>4 DEF CheckAndRecord

LEMMA StepKeeps == IInv /\ [Next]_vars => IInv'
<1> SUFFICES ASSUME IInv, [Next]_vars PROVE IInv' OBVIOUS
<1>1. ASSUME NEW r \in Requests, Begin(r) \/ Refuse(r) PROVE IInv' BY <1>1, BeginKeeps
<1>2. ASSUME NEW r \in Requests, Lookup(r) PROVE IInv' BY <1>2, LookupKeeps
<1>3. ASSUME NEW r \in Requests, ReadClock(r) PROVE IInv' BY <1>3, ReadClockKeeps
<1>4. ASSUME NEW r \in Requests, CheckAndRecord(r) PROVE IInv' BY <1>4, CheckAndRecordKeeps
<1>5. ASSUME NEW r \in Requests, Insert(r) PROVE IInv' BY <1>5, InsertKeeps
<1>6. CASE Tick BY <1>6, TickKeeps
<1>7. CASE Restart BY <1>7, RestartKeeps
<1>8. CASE UNCHANGED vars
  <2>1. TypeOK' /\ RequestInv' /\ StampInv'
    BY <1>8 DEF IInv, TypeOK, RequestInv, StampInv, vars
  <2>2. BeforeInv' BY <1>8, BeforeKept DEF vars, IInv, TypeOK
  <2>3. (DequeInv /\ PrunedInv /\ SpanInv)' BY <1>8, LimiterKept DEF vars, IInv, TypeOK
  <2> QED BY <2>1, <2>2, <2>3 DEF IInv
<1> QED BY <1>1, <1>2, <1>3, <1>4, <1>5, <1>6, <1>7, <1>8 DEF Next

-----------------------------------------------------------------------------
\* The inductive invariant holds in every state of every instance.
THEOREM Invariance == Spec => []IInv
BY InitEstablishes, StepKeeps, PTL DEF Spec

\* No deque is longer than the limit, and every variable keeps its type.
THEOREM TypeCorrect == Spec => []TypeOK
<1>1. IInv => TypeOK BY DEF IInv
<1> QED BY <1>1, Invariance, PTL

\* No client is admitted more often than the limit within a window less the wait for the
\* lock, whatever order the requests reach the lock in (check_and_record).
THEOREM WindowBoundHolds == Spec => []WindowBound
<1>1. ASSUME IInv PROVE WindowBound
  <2>1. \A c \in Clients : \A r \in Live(c) : stamp[r] \in Nat
    BY <1>1 DEF IInv, TypeOK, Live
  <2> QED BY <1>1, <2>1 DEF IInv, SpanInv, Span, WindowBound
<1> QED BY <1>1, Invariance, PTL

\* A submission that was answered makes no second scan within the idempotency window,
\* whatever runs beside it or fails (create_scan, find_recent_by_hash).
THEOREM NoSequentialDuplicateHolds == Spec => []NoSequentialDuplicate
<1>1. IInv => NoSequentialDuplicate BY DEF IInv, BeforeInv, NoSequentialDuplicate
<1> QED BY <1>1, Invariance, PTL

\* Quota is taken for new scans only, and for each of them (create_scan).
THEOREM QuotaIsForNewScansHolds == Spec => []QuotaIsForNewScans
<1>1. IInv => QuotaIsForNewScans
  BY DEF IInv, RequestInv, QuotaIsForNewScans
<1> QED BY <1>1, Invariance, PTL

\* A request is turned away only when the deque holds as many hits of its client as the
\* limit, all within the window but for the wait for the lock (check_and_record).
LEMMA RejectionStep ==
    ASSUME IInv, [Next]_vars, NEW r \in Requests, pc[r] = "limit", pc'[r] = "limited"
    PROVE  Cardinality({q \in Live(client[r]) :
               stamp[q] + Window + MaxSkew > stamp[r]}) >= PerWindow
<1> DEFINE c == client[r]
           p == Pruned(hits[c], stamp[r])
           M == {p[i] : i \in 1..Len(p)}
           near == {q \in Live(c) : stamp[q] + Window + MaxSkew > stamp[r]}
<1>1. PrunedOf(r, c, p) BY PrunedHits
<1>2. Full(p)
  <2>1. pc \in [Requests -> Working \cup Answers \cup {"idle"}] BY DEF IInv, TypeOK
  <2>2. \A q \in Requests :
            Begin(q) \/ Refuse(q) \/ Lookup(q) \/ ReadClock(q) \/ Insert(q) =>
               pc'[r] # "limited"
    BY <2>1 DEF Begin, Refuse, Lookup, ReadClock, Insert, Goto, Then
  <2>3. Tick \/ Restart \/ UNCHANGED vars => pc'[r] # "limited"
    BY DEF Tick, Restart, vars, Working
  <2>4. PICK q \in Requests : CheckAndRecord(q) BY <2>2, <2>3 DEF Next
  <2>5. q = r BY <2>1, <2>4 DEF CheckAndRecord, Goto, Then
  <2>6. CASE ~Full(p) /\ Goto(r, Then("limit")) BY <2>1, <2>6 DEF Goto, Then
  <2> QED BY <2>4, <2>5, <2>6 DEF CheckAndRecord
<1> HIDE DEF p
<1>3. /\ p \in Seq(Requests) /\ Len(p) \in Nat /\ Len(p) >= PerWindow /\ PerWindow \in Nat
      /\ Window \in Nat /\ MaxSkew \in Nat /\ stamp[r] \in Nat
      /\ \A q \in Live(c) : stamp[q] \in Nat
  BY <1>1, <1>2, AdmissionAssumption DEF PrunedOf, Full, IInv, TypeOK, Live
<1>4. ASSUME NEW i \in 1..Len(p) PROVE p[i] \in near
  <2>1. p[i] \in Live(c) /\ p[1] \in Live(c) BY <1>1, <1>3 DEF PrunedOf
  <2>2. stamp[p[1]] + Window > stamp[r] BY <1>1, <1>3 DEF PrunedOf
  <2>3. stamp[p[1]] <= stamp[p[i]] + MaxSkew
    <3>1. CASE i = 1 BY <1>3, <2>1, <3>1
    <3>2. CASE i # 1
      <4>1. 1 \in 1..Len(p) /\ 1 < i BY <1>3, <3>2
      <4> QED BY <1>1, <4>1 DEF PrunedOf
    <3> QED BY <3>1, <3>2
  <2>4. stamp[p[i]] \in Nat /\ stamp[p[1]] \in Nat BY <1>3, <2>1
  <2>5. stamp[p[i]] + Window + MaxSkew > stamp[r] BY <1>3, <2>2, <2>3, <2>4
  <2> QED BY <2>1, <2>5
<1>5. M \in SUBSET near BY <1>4
<1>6. Cardinality(M) = Len(p)
  <2>1. \A i, j \in 1..Len(p) : i < j => p[i] # p[j] BY <1>1 DEF PrunedOf
  <2> QED BY <1>3, <2>1, Members
<1>7. IsFiniteSet(near)
  <2>1. c \in Clients BY DEF IInv, TypeOK
  <2>2. IsFiniteSet(Live(c)) BY <2>1 DEF IInv, SpanInv
  <2> QED BY <2>2, FS_Subset
<1> HIDE DEF M, near
<1>8. IsFiniteSet(M) /\ Cardinality(M) <= Cardinality(near) BY <1>5, <1>7, FS_Subset
<1>9. Cardinality(near) \in Nat BY <1>7, FS_CardinalityType
<1>10. Cardinality(near) >= PerWindow BY <1>3, <1>6, <1>8, <1>9
<1> QED BY <1>10 DEF near

\* No request is turned away below its own client's limit, in any interleaving.
THEOREM RejectionJustifiedHolds == Spec => RejectionJustified
<1>1. IInv /\ [Next]_vars =>
          [\A r \in Requests : pc[r] = "limit" /\ pc'[r] = "limited" =>
              Cardinality({q \in Live(client[r]) :
                  stamp[q] + Window + MaxSkew > stamp[r]}) >= PerWindow]_vars
  BY RejectionStep
<1> QED BY <1>1, Invariance, PTL DEF Spec, RejectionJustified
================================================================================
