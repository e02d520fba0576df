------------------------------- MODULE Api_Proofs -------------------------------
(***************************************************************************)
(* Proofs about the rate limiters, the login and the sessions of the HTTP  *)
(* API, for any number of clients, any limits, windows, delays and         *)
(* lifetimes.                                                              *)
(***************************************************************************)
EXTENDS Login, Sessions, SequenceTheorems, FiniteSetTheorems, WellFoundedInduction, TLAPS

-------------------------------------------------------------------------------
(* Sequences of stamps *)

\* Every nonempty set of natural numbers has a least element.
LEMMA LeastNat ==
  ASSUME NEW T \in SUBSET Nat, T # {}
  PROVE  \E x \in T : \A y \in T : x <= y
<1> DEFINE R == OpToRel(<, Nat)
<1>1. IsWellFoundedOn(R, Nat)
  BY NatLessThanWellFounded
<1>2. ASSUME NEW x \in Nat, NEW y \in Nat, <<y, x>> \notin R
      PROVE  x <= y
  BY <1>2 DEF OpToRel
<1> HIDE DEF R
<1>3. PICK x \in T : \A y \in T : <<y, x>> \notin R
  BY <1>1, WFMin
<1>4. \A y \in T : x <= y
  BY <1>2, <1>3
<1> QED BY <1>4

\* The places of the stamps at or after x.
Above(s, x) == {i \in DOMAIN s : s[i] >= x}

Ordered(s) == \A i, j \in DOMAIN s : i <= j => s[i] <= s[j]

\* What SMT needs to know of a sequence of stamps.
LEMMA StampFacts ==
  ASSUME NEW s \in Seq(0 .. MaxTime)
  PROVE  /\ Len(s) \in Nat /\ DOMAIN s = 1 .. Len(s)
         /\ \A i \in 1 .. Len(s) : s[i] \in Nat /\ s[i] \in 0 .. MaxTime
  BY LenProperties, ElementOfSeq, RateLimiterConstants

\* A count of stamps is a number, and never more than there are.
LEMMA AboveCount ==
  ASSUME NEW s \in Seq(0 .. MaxTime), NEW x
  PROVE  /\ IsFiniteSet(Above(s, x)) /\ Cardinality(Above(s, x)) \in Nat
         /\ Cardinality(Above(s, x)) <= Len(s)
<1>1. Len(s) \in Nat /\ DOMAIN s = 1 .. Len(s)
  BY StampFacts
<1>2. Above(s, x) \in SUBSET (1 .. Len(s))
  BY <1>1 DEF Above
<1>3. IsFiniteSet(1 .. Len(s)) /\ Cardinality(1 .. Len(s)) = Len(s)
  BY <1>1, FS_Interval
<1>4. IsFiniteSet(Above(s, x)) /\ Cardinality(Above(s, x)) <= Len(s)
  BY <1>2, <1>3, FS_Subset
<1> QED BY <1>4, FS_CardinalityType

\* One more stamp is one more at or after every x that is not later than it.
LEMMA AppendCount ==
  ASSUME NEW s \in Seq(0 .. MaxTime), NEW a \in 0 .. MaxTime, NEW x \in Int
  PROVE  Cardinality(Above(Append(s, a), x)) =
           IF a >= x THEN Cardinality(Above(s, x)) + 1 ELSE Cardinality(Above(s, x))
<1> DEFINE n == Len(s)
           u == Append(s, a)
<1>1. n \in Nat /\ DOMAIN s = 1 .. n /\ a \in Nat
  BY StampFacts, RateLimiterConstants
<1>2. /\ DOMAIN u = 1 .. n + 1 /\ u[n + 1] = a
      /\ \A i \in 1 .. n : u[i] = s[i]
  <2>1. u \in Seq(0 .. MaxTime) /\ Len(u) = n + 1
    BY AppendProperties
  <2>2. DOMAIN u = 1 .. n + 1
    BY <2>1, LenProperties
  <2> QED BY <2>2, AppendProperties
<1> HIDE DEF u, n
<1>3. \A i \in 1 .. n + 1 : i \in 1 .. n \/ i = n + 1
  BY <1>1
<1>4. n + 1 \notin Above(s, x) /\ n + 1 \in 1 .. n + 1 /\ 1 .. n \subseteq 1 .. n + 1
  BY <1>1 DEF Above
<1>5. CASE a >= x
  <2>1. Above(u, x) = Above(s, x) \cup {n + 1}
    BY <1>1, <1>2, <1>3, <1>4, <1>5 DEF Above
  <2>2. IsFiniteSet(Above(s, x))
    BY AboveCount
  <2> QED BY <1>4, <1>5, <2>1, <2>2, FS_AddElement DEF u
<1>6. CASE ~(a >= x)
  <2>1. Above(u, x) = Above(s, x)
    BY <1>1, <1>2, <1>3, <1>4, <1>6 DEF Above
  <2> QED BY <1>6, <2>1 DEF u
<1> QED BY <1>5, <1>6

LEMMA FirstKeptFacts ==
  ASSUME NEW s \in Seq(0 .. MaxTime)
  PROVE  /\ FirstKept(s) \in 1 .. Len(s) + 1
         /\ \A j \in 1 .. FirstKept(s) - 1 : ~Kept(s[j])
         /\ FirstKept(s) \in DOMAIN s => Kept(s[FirstKept(s)])
<1>1. Len(s) \in Nat /\ DOMAIN s = 1 .. Len(s)
  BY StampFacts
<1> DEFINE T == {k \in 1 .. Len(s) + 1 : k \in DOMAIN s => Kept(s[k])}
<1>2. T \in SUBSET Nat /\ Len(s) + 1 \in T
  BY <1>1
<1>3. PICK k \in T : \A y \in T : k <= y
  <2> HIDE DEF T
  <2> QED BY <1>2, LeastNat
<1>4. \A j \in 1 .. k - 1 : j \in 1 .. Len(s) + 1 /\ j \notin T
  BY <1>1, <1>3
<1>5. \A j \in 1 .. k - 1 : ~Kept(s[j])
  BY <1>4
<1> QED BY <1>3, <1>5 DEF FirstKept

\* What check_and_record() pops is what is outside the window, and nothing else.
LEMMA RecentFacts ==
  ASSUME NEW t, stamps[t] \in Seq(0 .. MaxTime), Ordered(stamps[t]),
         clock \in Nat
  PROVE  /\ Recent(t) \in Seq(0 .. MaxTime)
         /\ Len(Recent(t)) <= Len(stamps[t])
         /\ Ordered(Recent(t))
         /\ \A i \in 1 .. Len(Recent(t)) : /\ Recent(t)[i] >= clock - Window
                                           /\ \E j \in DOMAIN stamps[t] :
                                                Recent(t)[i] = stamps[t][j]
         /\ \A x \in Int :
              /\ Cardinality(Above(Recent(t), x)) <= Cardinality(Above(stamps[t], x))
              /\ x >= clock - Window =>
                   Cardinality(Above(Recent(t), x)) = Cardinality(Above(stamps[t], x))
<1> DEFINE s == stamps[t]
           k == FirstKept(s)
           r == Recent(t)
           n == Len(s)
<1>1. n \in Nat /\ DOMAIN s = 1 .. n /\ \A i \in 1 .. n : s[i] \in Nat
  BY StampFacts
<1>2. /\ k \in 1 .. n + 1
      /\ \A j \in 1 .. k - 1 : ~Kept(s[j])
      /\ k \in 1 .. n => Kept(s[k])
  BY <1>1, FirstKeptFacts
<1>3. r = SubSeq(s, k, n)
  BY DEF Recent
<1>a. Window \in Nat
  BY RateLimiterConstants
<1> HIDE DEF k, n, r
<1>4. /\ r \in Seq(0 .. MaxTime)
      /\ Len(r) = n - k + 1
      /\ \A i \in 1 .. n - k + 1 : r[i] = s[k + i - 1]
  <2>1. \A i \in k .. n : s[i] \in 0 .. MaxTime
    BY <1>1, <1>2, StampFacts DEF n
  <2>2. k \in Int /\ n \in Int
    BY <1>1, <1>2
  <2> HIDE DEF s
  <2>3. /\ SubSeq(s, k, n) \in Seq(0 .. MaxTime)
        /\ Len(SubSeq(s, k, n)) = IF k <= n THEN n - k + 1 ELSE 0
        /\ \A i \in 1 .. n - k + 1 : SubSeq(s, k, n)[i] = s[k + i - 1]
    BY <2>1, <2>2, SubSeqProperties
  <2> QED BY <1>1, <1>2, <1>3, <2>3
<1> DEFINE m == n - k + 1
<1>5. m \in Nat /\ m <= n /\ DOMAIN r = 1 .. m
  BY <1>1, <1>2, <1>4, LenProperties
<1>6. \A i \in 1 .. m : /\ k + i - 1 \in 1 .. n /\ k <= k + i - 1
                        /\ r[i] = s[k + i - 1]
  BY <1>1, <1>2, <1>4
<1>7. \A j \in 1 .. n : k <= j => j - k + 1 \in 1 .. m /\ k + (j - k + 1) - 1 = j
  BY <1>1, <1>2
<1>8. \A i, j \in 1 .. n : i <= j => s[i] <= s[j]
  BY <1>1 DEF Ordered
<1>9. \A j \in 1 .. n : k <= j => s[j] >= clock - Window
  <2> SUFFICES ASSUME NEW j \in 1 .. n, k <= j PROVE s[j] >= clock - Window
    OBVIOUS
  <2>1. k \in 1 .. n
    BY <1>1, <1>2
  <2>2. s[k] >= clock - Window
    BY <1>2, <2>1 DEF Kept
  <2>3. s[k] <= s[j] /\ s[k] \in Nat /\ s[j] \in Nat
    BY <1>1, <1>8, <2>1
  <2> QED BY <1>a, <2>2, <2>3
<1>10. \A j \in 1 .. n : ~(k <= j) => ~(s[j] >= clock - Window)
  <2> SUFFICES ASSUME NEW j \in 1 .. n, ~(k <= j) PROVE ~(s[j] >= clock - Window)
    OBVIOUS
  <2>1. j \in 1 .. k - 1
    BY <1>1, <1>2
  <2> QED BY <1>2, <2>1 DEF Kept
<1> HIDE DEF s
<1>11. Ordered(r)
  <2> SUFFICES ASSUME NEW i \in 1 .. m, NEW j \in 1 .. m, i <= j PROVE r[i] <= r[j]
    BY <1>5 DEF Ordered
  <2>1. k + i - 1 <= k + j - 1
    BY <1>1, <1>2
  <2> QED BY <1>6, <1>8, <2>1
<1>12. ASSUME NEW x \in Int
       PROVE  Cardinality(Above(r, x)) <= Cardinality(Above(s, x))
  <2> DEFINE f == [i \in Above(r, x) |-> k + i - 1]
  <2>1. \A i \in Above(r, x) : i \in 1 .. m /\ k + i - 1 \in Above(s, x)
    BY <1>1, <1>5, <1>6 DEF Above
  <2>2. f \in [Above(r, x) -> Above(s, x)]
    BY <2>1
  <2>3. \A i, j \in Above(r, x) : f[i] = f[j] => i = j
    BY <1>1, <1>2, <1>5, <2>1
  <2>4. f \in Injection(Above(r, x), Above(s, x))
    BY <2>2, <2>3, Zenon DEF Injection, IsInjective
  <2>5. IsFiniteSet(Above(s, x))
    BY AboveCount DEF s
  <2> HIDE DEF f
  <2> QED BY <2>4, <2>5, FS_Injection
<1>13. ASSUME NEW x \in Int, x >= clock - Window
       PROVE  Cardinality(Above(s, x)) <= Cardinality(Above(r, x))
  <2> DEFINE f == [j \in Above(s, x) |-> j - k + 1]
  <2>1. \A j \in Above(s, x) : j \in 1 .. n /\ s[j] >= x /\ s[j] \in Nat
    BY <1>1 DEF Above
  <2>2. \A j \in Above(s, x) : k <= j
    BY <1>10, <1>13, <1>a, <2>1
  <2>3. \A j \in Above(s, x) : j - k + 1 \in 1 .. m /\ r[j - k + 1] = s[j]
    BY <1>6, <1>7, <2>1, <2>2
  <2>4. f \in [Above(s, x) -> Above(r, x)]
    BY <1>5, <2>1, <2>3 DEF Above
  <2>5. \A i, j \in Above(s, x) : f[i] = f[j] => i = j
    BY <1>1, <1>2, <2>1
  <2>6. f \in Injection(Above(s, x), Above(r, x))
    BY <2>4, <2>5, Zenon DEF Injection, IsInjective
  <2>7. IsFiniteSet(Above(r, x))
    BY <1>4, AboveCount
  <2> HIDE DEF f
  <2> QED BY <2>6, <2>7, FS_Injection
<1>14. \A x \in Int : /\ Cardinality(Above(r, x)) \in Nat
                      /\ Cardinality(Above(s, x)) \in Nat
  BY <1>4, AboveCount DEF s
<1>15. \A x \in Int :
         /\ Cardinality(Above(r, x)) <= Cardinality(Above(s, x))
         /\ x >= clock - Window =>
              Cardinality(Above(r, x)) = Cardinality(Above(s, x))
  <2> SUFFICES ASSUME NEW x \in Int
               PROVE  /\ Cardinality(Above(r, x)) <= Cardinality(Above(s, x))
                      /\ x >= clock - Window =>
                           Cardinality(Above(r, x)) = Cardinality(Above(s, x))
    OBVIOUS
  <2> DEFINE a == Cardinality(Above(r, x))
             b == Cardinality(Above(s, x))
  <2>1. a \in Nat /\ b \in Nat /\ a <= b
    BY <1>12, <1>14
  <2>2. x >= clock - Window => b <= a
    BY <1>13
  <2> HIDE DEF a, b
  <2>3. a <= b /\ (x >= clock - Window => a = b)
    BY <2>1, <2>2
  <2> QED BY <2>3 DEF a, b
<1>16. \A i \in 1 .. Len(r) : /\ r[i] >= clock - Window
                              /\ \E j \in DOMAIN s : r[i] = s[j]
  BY <1>1, <1>4, <1>6, <1>9
<1> QED BY <1>1, <1>4, <1>5, <1>11, <1>15, <1>16 DEF r, s, n

-------------------------------------------------------------------------------
(* The sliding windows *)

\* The requests let through at or after x.
ServedSince(x) == {j \in DOMAIN served : served[j].at >= x}

\* A tier's deque is in order, never longer than its limit, and has a stamp for
\* every request let through in the window: whatever the second tier refuses
\* stays in the first one's deque, so there may be more.
TierInv(t) ==
  /\ Ordered(stamps[t])
  /\ \A i \in DOMAIN stamps[t] : stamps[t][i] <= clock
  /\ Limits[t] # 0 =>
       /\ Len(stamps[t]) <= Limits[t]
       /\ \A x \in Int : x >= clock - Window =>
            Cardinality(ServedSince(x)) <= Cardinality(Above(stamps[t], x))

\* The second tier keeps no stamp but of requests let through.
SecondTierExact ==
  Limits["client"] # 0 =>
    \A x \in Int : x >= clock - Window =>
      Cardinality(ServedSince(x)) = Cardinality(Above(stamps["client"], x))

\* What stays true of a refusal of the second tier: it was full, and while nobody
\* is let through, too few stamps will be in the window at the time it told.
RefusalInv(c) ==
  LET r == refusal[c]
  IN r.tier = "client" =>
       /\ r.mark <= Len(served) /\ Limits["client"] # 0
       /\ Cardinality({j \in 1 .. r.mark : served[j].at >= r.at - Window})
            >= Limits["client"]
       /\ Len(served) = r.mark =>
            Cardinality(Above(stamps["client"], r.until - Window)) < Limits["client"]

\* The strengthening of WindowNeverExceeded and RefusalsAreTrue that is inductive.
WindowInv ==
  /\ \A t \in Tiers : TierInv(t)
  /\ SecondTierExact
  /\ WindowNeverExceeded
  /\ \A c \in Clients : RefusalInv(c)

\* What SMT needs of the types.
LEMMA LimiterTypes ==
  ASSUME TypeOK
  PROVE  /\ clock \in Nat /\ clock \in 0 .. MaxTime /\ Window \in Nat /\ MaxTime \in Nat
         /\ \A t \in Tiers : stamps[t] \in Seq(0 .. MaxTime) /\ Limits[t] \in Nat
         /\ served \in Seq([at : 0 .. MaxTime, client : Clients])
         /\ Len(served) \in Nat /\ DOMAIN served = 1 .. Len(served)
         /\ \A j \in 1 .. Len(served) : served[j].at \in Nat
<1>1. served \in Seq([at : 0 .. MaxTime, client : Clients])
  BY DEF TypeOK
<1>2. \A j \in 1 .. Len(served) : served[j] \in [at : 0 .. MaxTime, client : Clients]
  BY <1>1, ElementOfSeq
<1> QED BY <1>1, <1>2, LenProperties, RateLimiterConstants DEF TypeOK

LEMMA ServedCount ==
  ASSUME TypeOK, NEW x
  PROVE  IsFiniteSet(ServedSince(x)) /\ Cardinality(ServedSince(x)) \in Nat
<1>1. ServedSince(x) \in SUBSET (1 .. Len(served)) /\ Len(served) \in Nat
  BY LimiterTypes DEF ServedSince
<1>2. IsFiniteSet(1 .. Len(served))
  BY <1>1, FS_Interval
<1> QED BY <1>1, <1>2, FS_Subset, FS_CardinalityType

LEMMA TierInvRecent ==
  ASSUME TypeOK, NEW t \in Tiers, TierInv(t)
  PROVE  /\ Recent(t) \in Seq(0 .. MaxTime)
         /\ Len(Recent(t)) \in Nat /\ DOMAIN Recent(t) = 1 .. Len(Recent(t))
         /\ Len(Recent(t)) <= Len(stamps[t])
         /\ Ordered(Recent(t))
         /\ \A i \in DOMAIN Recent(t) : /\ Recent(t)[i] <= clock
                                        /\ Recent(t)[i] \in Nat
                                        /\ Recent(t)[i] >= clock - Window
         /\ \A x \in Int :
              /\ Cardinality(Above(Recent(t), x)) <= Cardinality(Above(stamps[t], x))
              /\ x >= clock - Window =>
                   Cardinality(Above(Recent(t), x)) = Cardinality(Above(stamps[t], x))
         /\ Cardinality(Above(Recent(t), clock - Window)) = Len(Recent(t))
<1> DEFINE r == Recent(t)
<1>1. stamps[t] \in Seq(0 .. MaxTime) /\ clock \in Nat /\ Ordered(stamps[t])
      /\ \A i \in DOMAIN stamps[t] : stamps[t][i] <= clock
  BY LimiterTypes DEF TierInv
<1>2. /\ r \in Seq(0 .. MaxTime)
      /\ Len(r) <= Len(stamps[t])
      /\ Ordered(r)
      /\ \A i \in 1 .. Len(r) : /\ r[i] >= clock - Window
                                /\ \E j \in DOMAIN stamps[t] : r[i] = stamps[t][j]
      /\ \A x \in Int :
           /\ Cardinality(Above(r, x)) <= Cardinality(Above(stamps[t], x))
           /\ x >= clock - Window =>
                Cardinality(Above(r, x)) = Cardinality(Above(stamps[t], x))
  BY <1>1, RecentFacts
<1> HIDE DEF r
<1>3. /\ Len(r) \in Nat /\ DOMAIN r = 1 .. Len(r)
      /\ \A i \in 1 .. Len(r) : r[i] \in Nat
  BY <1>2, StampFacts
<1>4. \A i \in 1 .. Len(r) : r[i] <= clock
  BY <1>1, <1>2
<1>5. Above(r, clock - Window) = 1 .. Len(r)
  BY <1>2, <1>3 DEF Above
<1>6. Cardinality(1 .. Len(r)) = Len(r)
  BY <1>3, FS_Interval
<1> QED BY <1>2, <1>3, <1>4, <1>5, <1>6 DEF r

-------------------------------------------------------------------------------
(* Every step of the limiters keeps what they promise *)

\* A stamp taken now goes to the end of an ordered deque.
LEMMA AppendOrdered ==
  ASSUME NEW s \in Seq(0 .. MaxTime), Ordered(s), NEW a \in 0 .. MaxTime,
         \A i \in DOMAIN s : s[i] <= a
  PROVE  /\ Append(s, a) \in Seq(0 .. MaxTime)
         /\ Len(Append(s, a)) = Len(s) + 1
         /\ DOMAIN Append(s, a) = 1 .. Len(s) + 1
         /\ Append(s, a)[Len(s) + 1] = a
         /\ \A i \in 1 .. Len(s) : Append(s, a)[i] = s[i]
         /\ Ordered(Append(s, a))
         /\ \A i \in DOMAIN Append(s, a) : Append(s, a)[i] <= a
<1> DEFINE n == Len(s)
           u == Append(s, a)
<1>1. /\ n \in Nat /\ DOMAIN s = 1 .. n /\ a \in Nat
      /\ \A i \in 1 .. n : s[i] \in Nat
  BY StampFacts, RateLimiterConstants
<1>2. u \in Seq(0 .. MaxTime) /\ Len(u) = n + 1
  BY AppendProperties
<1>3. DOMAIN u = 1 .. n + 1
  BY <1>2, LenProperties
<1>4. u[n + 1] = a /\ \A i \in 1 .. n : u[i] = s[i]
  BY AppendProperties
<1> HIDE DEF u, n
<1>5. \A i \in 1 .. n + 1 : u[i] <= a
  BY <1>1, <1>4
<1>6. \A i, j \in 1 .. n + 1 : i <= j => u[i] <= u[j]
  <2> SUFFICES ASSUME NEW i \in 1 .. n + 1, NEW j \in 1 .. n + 1, i <= j
               PROVE  u[i] <= u[j]
    OBVIOUS
  <2>1. CASE j = n + 1
    BY <1>4, <1>5, <2>1
  <2>2. CASE j # n + 1
    <3>1. i \in 1 .. n /\ j \in 1 .. n
      BY <1>1, <2>2
    <3> QED BY <1>1, <1>4, <3>1 DEF Ordered
  <2> QED BY <2>1, <2>2
<1>7. Ordered(u)
  BY <1>3, <1>6 DEF Ordered
<1> QED BY <1>2, <1>3, <1>4, <1>5, <1>7 DEF u, n

\* A request let through now is one more since every x up to now.
LEMMA ServedCountStep ==
  ASSUME TypeOK, NEW c \in Clients, NEW x \in Int,
         served' = Append(served, [at |-> clock, client |-> c])
  PROVE  Cardinality(ServedSince(x)') =
           IF clock >= x THEN Cardinality(ServedSince(x)) + 1
                         ELSE Cardinality(ServedSince(x))
<1> DEFINE n == Len(served)
<1>1. /\ n \in Nat /\ DOMAIN served = 1 .. n /\ clock \in Nat
      /\ served \in Seq([at : 0 .. MaxTime, client : Clients])
      /\ [at |-> clock, client |-> c] \in [at : 0 .. MaxTime, client : Clients]
  BY LimiterTypes
<1>2. /\ served' \in Seq([at : 0 .. MaxTime, client : Clients])
      /\ Len(served') = n + 1
      /\ served'[n + 1] = [at |-> clock, client |-> c]
      /\ \A i \in 1 .. n : served'[i] = served[i]
  BY <1>1, AppendProperties
<1>3. DOMAIN served' = 1 .. n + 1
  BY <1>2, LenProperties
<1>4. served'[n + 1].at = clock
  BY <1>2
<1> HIDE DEF n
<1>5. \A i \in 1 .. n + 1 : i \in 1 .. n \/ i = n + 1
  BY <1>1
<1>6. n + 1 \notin ServedSince(x) /\ n + 1 \in 1 .. n + 1 /\ 1 .. n \subseteq 1 .. n + 1
  BY <1>1 DEF ServedSince
<1>7. ServedSince(x)' = {j \in 1 .. n + 1 : served'[j].at >= x}
  BY <1>3 DEF ServedSince
<1>8. ServedSince(x) = {j \in 1 .. n : served[j].at >= x}
  BY <1>1 DEF ServedSince
<1>9. CASE clock >= x
  <2>1. ServedSince(x)' = ServedSince(x) \cup {n + 1}
    BY <1>2, <1>4, <1>5, <1>6, <1>7, <1>8, <1>9
  <2> QED BY <1>6, <1>9, <2>1, ServedCount, FS_AddElement
<1>10. CASE ~(clock >= x)
  <2>1. ServedSince(x)' = ServedSince(x)
    BY <1>2, <1>4, <1>5, <1>6, <1>7, <1>8, <1>10
  <2> QED BY <1>10, <2>1
<1> QED BY <1>9, <1>10

\* int(w) + 1 seconds is more than w.
LEMMA RoundedUp ==
  ASSUME NEW w \in Nat
  PROVE  (w \div Second + 1) * Second \in Nat /\ (w \div Second + 1) * Second > w
<1>1. Second \in Nat /\ Second > 0
  BY RateLimiterConstants
<1>2. w < Second * (w \div Second + 1)
  BY <1>1
<1>3. w \div Second >= 0 /\ w \div Second \in Int
  BY <1>1
<1>4. PICK q \in Nat : q = w \div Second + 1
  BY <1>3
<1>5. q * Second \in Nat /\ Second * q = q * Second
  BY <1>1
<1>6. q * Second > w
  BY <1>2, <1>4, <1>5
<1> QED BY <1>4, <1>5, <1>6

\* A refusal of a tier carries its numbers.
LEMMA RefusalTypes ==
  ASSUME TypeOK, NEW c \in Clients, refusal[c].tier = "client"
  PROVE  /\ refusal[c].mark \in Nat /\ refusal[c].until \in Nat
         /\ refusal[c].at \in Nat
<1>1. refusal[c] \in {NoRefusal} \cup
        [tier : Tiers, at : 0 .. MaxTime, until : Nat, mark : Nat]
  BY DEF TypeOK
<1>2. NoRefusal.tier # "client"
  BY DEF NoRefusal
<1>3. refusal[c] \in [tier : Tiers, at : 0 .. MaxTime, until : Nat, mark : Nat]
  BY <1>1, <1>2
<1> QED BY <1>3, RateLimiterConstants

\* A tier that lets a request through stays in order, and counts it.
LEMMA RecordedKeepsTier ==
  ASSUME TypeOK, NEW t \in Tiers, TierInv(t), ~Full(t)
  PROVE  /\ Recorded(t) \in Seq(0 .. MaxTime)
         /\ Ordered(Recorded(t))
         /\ \A i \in DOMAIN Recorded(t) : Recorded(t)[i] <= clock
         /\ Limits[t] # 0 =>
              /\ Len(Recorded(t)) <= Limits[t]
              /\ \A x \in Int : x >= clock - Window =>
                   Cardinality(Above(Recorded(t), x)) =
                     IF clock >= x THEN Cardinality(Above(stamps[t], x)) + 1
                                   ELSE Cardinality(Above(stamps[t], x))
<1> DEFINE r == Recent(t)
<1>1. /\ stamps[t] \in Seq(0 .. MaxTime) /\ Limits[t] \in Nat
      /\ clock \in 0 .. MaxTime /\ clock \in Nat
  BY LimiterTypes
<1>2. CASE Limits[t] = 0
  BY <1>1, <1>2 DEF Recorded, TierInv
<1>3. CASE Limits[t] # 0
  <2>1. /\ r \in Seq(0 .. MaxTime) /\ Len(r) \in Nat /\ Ordered(r)
        /\ \A i \in DOMAIN r : r[i] <= clock
        /\ \A x \in Int : x >= clock - Window =>
             Cardinality(Above(r, x)) = Cardinality(Above(stamps[t], x))
    BY TierInvRecent
  <2>2. Len(r) < Limits[t]
    BY <1>1, <1>3, <2>1 DEF Full
  <2>3. Recorded(t) = Append(r, clock)
    BY <1>3 DEF Recorded
  <2> HIDE DEF r
  <2>4. /\ Append(r, clock) \in Seq(0 .. MaxTime)
        /\ Len(Append(r, clock)) = Len(r) + 1
        /\ Ordered(Append(r, clock))
        /\ \A i \in DOMAIN Append(r, clock) : Append(r, clock)[i] <= clock
    BY <1>1, <2>1, AppendOrdered
  <2>5. \A x \in Int : Cardinality(Above(Append(r, clock), x)) =
          IF clock >= x THEN Cardinality(Above(r, x)) + 1
                        ELSE Cardinality(Above(r, x))
    BY <1>1, <2>1, AppendCount
  <2>6. Len(r) + 1 <= Limits[t]
    BY <1>1, <2>1, <2>2
  <2>7. \A x \in Int : x >= clock - Window =>
          Cardinality(Above(Append(r, clock), x)) =
            IF clock >= x THEN Cardinality(Above(stamps[t], x)) + 1
                          ELSE Cardinality(Above(stamps[t], x))
    BY <2>1, <2>5
  <2> QED BY <2>3, <2>4, <2>6, <2>7
<1> QED BY <1>2, <1>3

LEMMA ServeKeepsTypes ==
  ASSUME TypeOK, WindowInv, NEW c \in Clients, Serve(c)
  PROVE  TypeOK'
<1>1. \A t \in Tiers : Recorded(t) \in Seq(0 .. MaxTime)
  <2> SUFFICES ASSUME NEW t \in Tiers PROVE Recorded(t) \in Seq(0 .. MaxTime)
    OBVIOUS
  <2>1. TierInv(t) /\ ~Full(t)
    BY DEF WindowInv, Serve, Tiers
  <2> QED BY <2>1, RecordedKeepsTier
<1>2. stamps' \in [Tiers -> Seq(0 .. MaxTime)]
  BY <1>1 DEF Serve
<1>3. [at |-> clock, client |-> c] \in [at : 0 .. MaxTime, client : Clients]
  BY DEF TypeOK
<1>4. served' \in Seq([at : 0 .. MaxTime, client : Clients])
  <2>1. served \in Seq([at : 0 .. MaxTime, client : Clients])
        /\ served' = Append(served, [at |-> clock, client |-> c])
    BY DEF TypeOK, Serve
  <2> QED BY <1>3, <2>1, AppendProperties
<1> QED BY <1>2, <1>4 DEF TypeOK, Serve

\* The request let through is counted in every window, and the windows that ended
\* before it are what they were.
LEMMA ServeKeepsWindows ==
  ASSUME TypeOK, WindowInv, NEW c \in Clients, Serve(c)
  PROVE  WindowInv'
<1> DEFINE n == Len(served)
<1>1. /\ clock \in Nat /\ Window \in Nat /\ n \in Nat /\ DOMAIN served = 1 .. n
      /\ \A t \in Tiers : stamps[t] \in Seq(0 .. MaxTime) /\ Limits[t] \in Nat
      /\ served \in Seq([at : 0 .. MaxTime, client : Clients])
      /\ [at |-> clock, client |-> c] \in [at : 0 .. MaxTime, client : Clients]
  BY LimiterTypes
<1>2. /\ \A t \in Tiers : stamps'[t] = Recorded(t)
      /\ served' = Append(served, [at |-> clock, client |-> c])
      /\ clock' = clock /\ refusal' = refusal
      /\ \A t \in Tiers : ~Full(t)
  BY DEF Serve, Tiers
<1>3. /\ Len(served') = n + 1
      /\ served'[n + 1].at = clock
      /\ \A i \in 1 .. n : served'[i] = served[i]
      /\ DOMAIN served' = 1 .. n + 1
  <2>1. /\ served' \in Seq([at : 0 .. MaxTime, client : Clients])
        /\ Len(served') = n + 1
        /\ served'[n + 1] = [at |-> clock, client |-> c]
        /\ \A i \in 1 .. n : served'[i] = served[i]
    BY <1>1, <1>2, AppendProperties
  <2>2. DOMAIN served' = 1 .. n + 1
    BY <2>1, LenProperties
  <2> QED BY <2>1, <2>2
<1> HIDE DEF n
<1>4. \A x \in Int : /\ Cardinality(ServedSince(x)') =
                          IF clock >= x THEN Cardinality(ServedSince(x)) + 1
                                        ELSE Cardinality(ServedSince(x))
                     /\ Cardinality(ServedSince(x)) \in Nat
  BY <1>2, ServedCountStep, ServedCount
<1>5. \A t \in Tiers :
        /\ Recorded(t) \in Seq(0 .. MaxTime)
        /\ Ordered(Recorded(t))
        /\ \A i \in DOMAIN Recorded(t) : Recorded(t)[i] <= clock
        /\ Limits[t] # 0 =>
             /\ Len(Recorded(t)) <= Limits[t]
             /\ \A x \in Int : x >= clock - Window =>
                  Cardinality(Above(Recorded(t), x)) =
                    IF clock >= x THEN Cardinality(Above(stamps[t], x)) + 1
                                  ELSE Cardinality(Above(stamps[t], x))
  BY <1>2, RecordedKeepsTier DEF WindowInv
<1>6. \A t \in Tiers : \A x \in Int :
        /\ Cardinality(Above(stamps[t], x)) \in Nat
        /\ Cardinality(Above(Recorded(t), x)) \in Nat
        /\ Cardinality(Above(Recorded(t), x)) <= Len(Recorded(t))
  BY <1>1, <1>5, AboveCount
<1>7. ASSUME NEW t \in Tiers, Limits[t] # 0, NEW x \in Int, x >= clock - Window
      PROVE  /\ Cardinality(ServedSince(x)') <= Cardinality(Above(stamps'[t], x))
             /\ Cardinality(ServedSince(x)) = Cardinality(Above(stamps[t], x)) =>
                  Cardinality(ServedSince(x)') = Cardinality(Above(stamps'[t], x))
  <2> DEFINE a == Cardinality(ServedSince(x))
             b == Cardinality(Above(stamps[t], x))
  <2>1. a \in Nat /\ b \in Nat
    BY <1>4, <1>6
  <2>2. a <= b
    BY <1>7 DEF WindowInv, TierInv
  <2>3. Cardinality(ServedSince(x)') = IF clock >= x THEN a + 1 ELSE a
    BY <1>4
  <2>4. Cardinality(Above(stamps'[t], x)) = IF clock >= x THEN b + 1 ELSE b
    BY <1>2, <1>5, <1>7
  <2> HIDE DEF a, b
  <2>5. /\ (IF clock >= x THEN a + 1 ELSE a) <= (IF clock >= x THEN b + 1 ELSE b)
        /\ a = b => (IF clock >= x THEN a + 1 ELSE a) = (IF clock >= x THEN b + 1 ELSE b)
    BY <2>1, <2>2
  <2> QED BY <2>3, <2>4, <2>5 DEF a, b
<1>8. \A t \in Tiers : TierInv(t)'
  <2> SUFFICES ASSUME NEW t \in Tiers PROVE TierInv(t)'
    OBVIOUS
  <2>1. /\ Ordered(stamps'[t]) /\ \A i \in DOMAIN stamps'[t] : stamps'[t][i] <= clock
        /\ Limits[t] # 0 => Len(stamps'[t]) <= Limits[t]
    BY <1>2, <1>5
  <2>2. Limits[t] # 0 => \A x \in Int : x >= clock - Window =>
          Cardinality(ServedSince(x)') <= Cardinality(Above(stamps'[t], x))
    BY <1>7
  <2> QED BY <1>2, <2>1, <2>2 DEF TierInv
<1>9. SecondTierExact'
  <2> SUFFICES ASSUME Limits["client"] # 0
               PROVE  \A x \in Int : x >= clock - Window =>
                        Cardinality(ServedSince(x)') = Cardinality(Above(stamps'["client"], x))
    BY <1>2 DEF SecondTierExact
  <2>1. \A x \in Int : x >= clock - Window =>
          Cardinality(ServedSince(x)) = Cardinality(Above(stamps["client"], x))
    BY DEF WindowInv, SecondTierExact
  <2>2. "client" \in Tiers
    BY DEF Tiers
  <2> QED BY <1>7, <2>1, <2>2
<1>10. WindowNeverExceeded'
  <2> SUFFICES ASSUME NEW t \in Tiers, NEW i \in 1 .. n + 1, Limits[t] # 0
               PROVE  Cardinality(InWindowOf(i)') <= Limits[t]
    BY <1>3 DEF WindowNeverExceeded
  <2>1. CASE i \in 1 .. n
    <3>1. \A j \in 1 .. i : j \in 1 .. n
      BY <1>1, <2>1
    <3>2. InWindowOf(i)' = InWindowOf(i)
      BY <1>3, <2>1, <3>1 DEF InWindowOf
    <3> QED BY <1>1, <2>1, <3>2 DEF WindowInv, WindowNeverExceeded
  <2>2. CASE i = n + 1
    <3>1. PICK x \in Int : x = clock - Window
      BY <1>1
    <3>2. InWindowOf(i)' = ServedSince(x)'
      BY <1>2, <1>3, <2>2, <3>1 DEF InWindowOf, ServedSince
    <3>3. /\ Cardinality(ServedSince(x)') \in Nat
          /\ Cardinality(ServedSince(x)') <= Cardinality(Above(stamps'[t], x))
      <4>1. x >= clock - Window
        BY <1>1, <3>1
      <4>2. Cardinality(ServedSince(x)') \in Nat
        BY <1>4
      <4> QED BY <1>7, <4>1, <4>2
    <3>4. /\ Cardinality(Above(stamps'[t], x)) \in Nat
          /\ Cardinality(Above(stamps'[t], x)) <= Len(stamps'[t])
          /\ Len(stamps'[t]) <= Limits[t]
          /\ Len(stamps'[t]) \in Nat
      BY <1>2, <1>5, <1>6, StampFacts
    <3> QED BY <1>1, <3>2, <3>3, <3>4
  <2> QED BY <1>1, <2>1, <2>2
<1>11. \A d \in Clients : RefusalInv(d)'
  <2> SUFFICES ASSUME NEW d \in Clients, refusal[d].tier = "client"
               PROVE  RefusalInv(d)'
    BY <1>2 DEF RefusalInv
  <2>1. /\ refusal[d].mark \in Nat /\ refusal[d].mark <= n /\ Limits["client"] # 0
        /\ Cardinality({j \in 1 .. refusal[d].mark : served[j].at >= refusal[d].at - Window})
            >= Limits["client"]
    BY RefusalTypes DEF WindowInv, RefusalInv, n
  <2>2. \A j \in 1 .. refusal[d].mark : served'[j] = served[j]
    BY <1>1, <1>3, <2>1
  <2>3. {j \in 1 .. refusal[d].mark : served'[j].at >= refusal[d].at - Window}
          = {j \in 1 .. refusal[d].mark : served[j].at >= refusal[d].at - Window}
    BY <2>2
  <2>4. refusal[d].mark <= Len(served') /\ Len(served') # refusal[d].mark
    BY <1>1, <1>3, <2>1
  <2> QED BY <1>2, <2>1, <2>3, <2>4 DEF RefusalInv
<1> QED BY <1>8, <1>9, <1>10, <1>11 DEF WindowInv

\* Dropping what is outside the window changes no count that matters.
LEMMA TrimKeepsTier ==
  ASSUME TypeOK, NEW t \in Tiers, TierInv(t),
         stamps'[t] = Recent(t), clock' = clock, served' = served
  PROVE  TierInv(t)'
<1>1. /\ Len(Recent(t)) \in Nat /\ Len(Recent(t)) <= Len(stamps[t])
      /\ Ordered(Recent(t))
      /\ \A i \in DOMAIN Recent(t) : Recent(t)[i] <= clock
      /\ \A x \in Int : x >= clock - Window =>
           Cardinality(Above(Recent(t), x)) = Cardinality(Above(stamps[t], x))
  BY TierInvRecent
<1>2. /\ stamps[t] \in Seq(0 .. MaxTime) /\ Limits[t] \in Nat
      /\ \A x : ServedSince(x)' = ServedSince(x)
  BY LimiterTypes DEF ServedSince
<1>3. Limits[t] # 0 =>
        /\ Len(Recent(t)) <= Limits[t]
        /\ \A x \in Int : x >= clock - Window =>
             Cardinality(ServedSince(x)) <= Cardinality(Above(Recent(t), x))
  <2> SUFFICES ASSUME Limits[t] # 0
               PROVE  /\ Len(Recent(t)) <= Limits[t]
                      /\ \A x \in Int : x >= clock - Window =>
                           Cardinality(ServedSince(x)) <= Cardinality(Above(Recent(t), x))
    OBVIOUS
  <2>1. Len(stamps[t]) <= Limits[t] /\ Len(stamps[t]) \in Nat
    BY <1>2, StampFacts DEF TierInv
  <2>2. Len(Recent(t)) <= Limits[t]
    BY <1>1, <1>2, <2>1
  <2> QED BY <1>1, <2>2 DEF TierInv
<1> QED BY <1>1, <1>2, <1>3 DEF TierInv

\* A refusal whose client has not asked again says what it said, as long as nobody
\* is let through and stamps are only dropped.
LEMMA OldRefusal ==
  ASSUME TypeOK, NEW d \in Clients, RefusalInv(d),
         refusal'[d] = refusal[d], served' = served,
         \A x \in Int : Cardinality(Above(stamps'["client"], x))
                          <= Cardinality(Above(stamps["client"], x)),
         stamps'["client"] \in Seq(0 .. MaxTime)
  PROVE  RefusalInv(d)'
<1> SUFFICES ASSUME refusal[d].tier = "client" PROVE RefusalInv(d)'
  BY DEF RefusalInv
<1>1. "client" \in Tiers
  BY DEF Tiers
<1>2. /\ refusal[d].until \in Nat /\ Window \in Nat /\ Limits["client"] \in Nat
      /\ stamps["client"] \in Seq(0 .. MaxTime)
  BY <1>1, RefusalTypes, LimiterTypes
<1>3. Len(served) = refusal[d].mark =>
        Cardinality(Above(stamps'["client"], refusal[d].until - Window)) < Limits["client"]
  <2> SUFFICES ASSUME Len(served) = refusal[d].mark
               PROVE  Cardinality(Above(stamps'["client"], refusal[d].until - Window))
                        < Limits["client"]
    OBVIOUS
  <2>1. PICK x \in Int : x = refusal[d].until - Window
    BY <1>2
  <2> DEFINE a == Cardinality(Above(stamps["client"], x))
             b == Cardinality(Above(stamps'["client"], x))
  <2>2. b <= a /\ a < Limits["client"]
    BY <2>1 DEF RefusalInv
  <2>3. a \in Nat /\ b \in Nat
    BY <1>2, AboveCount
  <2> HIDE DEF a, b
  <2>4. b < Limits["client"]
    BY <1>2, <2>2, <2>3
  <2> QED BY <2>1, <2>4 DEF b
<1> QED BY <1>3 DEF RefusalInv

LEMMA RefusedGloballyKeeps ==
  ASSUME TypeOK, WindowInv, NEW c \in Clients, RefusedGlobally(c)
  PROVE  TypeOK' /\ WindowInv'
<1>1. /\ "global" \in Tiers /\ "client" \in Tiers
      /\ \A t \in Tiers : t = "global" \/ t = "client"
  BY DEF Tiers
<1>2. /\ stamps' = [stamps EXCEPT !["global"] = Recent("global")]
      /\ clock' = clock /\ served' = served
      /\ refusal' = [refusal EXCEPT ![c] =
           [tier |-> "global", at |-> clock, until |-> clock + Wait("global"),
            mark |-> Len(served)]]
      /\ Full("global")
  BY DEF RefusedGlobally, Refuse
<1>3. stamps \in [Tiers -> Seq(0 .. MaxTime)] /\ TierInv("global") /\ TierInv("client")
  BY <1>1 DEF TypeOK, WindowInv
<1>4. stamps'["global"] = Recent("global") /\ stamps'["client"] = stamps["client"]
  BY <1>1, <1>2, <1>3
<1>5. /\ Recent("global") \in Seq(0 .. MaxTime) /\ Len(Recent("global")) \in Nat
      /\ DOMAIN Recent("global") = 1 .. Len(Recent("global"))
      /\ \A i \in DOMAIN Recent("global") : /\ Recent("global")[i] \in Nat
                                            /\ Recent("global")[i] >= clock - Window
                                            /\ Recent("global")[i] <= clock
  BY <1>1, <1>3, TierInvRecent
<1>6. TypeOK'
  <2>1. stamps' \in [Tiers -> Seq(0 .. MaxTime)]
    BY <1>2, <1>3, <1>5
  <2>2. Wait("global") \in Nat
    <3>1. clock \in Nat /\ Window \in Nat /\ Limits["global"] \in Nat
      BY <1>1, LimiterTypes
    <3>2. Len(Recent("global")) >= 1
      BY <1>2, <1>5, <3>1 DEF Full
    <3>3. 1 \in DOMAIN Recent("global")
      BY <1>5, <3>2
    <3>4. Window - (clock - Recent("global")[1]) \in Nat
      BY <1>5, <3>1, <3>3
    <3> QED BY <3>4, RoundedUp DEF Wait
  <2>3. [tier |-> "global", at |-> clock, until |-> clock + Wait("global"),
         mark |-> Len(served)]
          \in [tier : Tiers, at : 0 .. MaxTime, until : Nat, mark : Nat]
    <3>1. clock \in Nat /\ clock \in 0 .. MaxTime /\ Len(served) \in Nat
      BY LimiterTypes
    <3>2. clock + Wait("global") \in Nat
      BY <2>2, <3>1
    <3> QED BY <1>1, <3>1, <3>2
  <2>4. refusal' \in [Clients -> {NoRefusal} \cup
          [tier : Tiers, at : 0 .. MaxTime, until : Nat, mark : Nat]]
    BY <1>2, <2>3 DEF TypeOK
  <2> QED BY <1>2, <2>1, <2>4 DEF TypeOK
<1>7. \A t \in Tiers : TierInv(t)'
  <2>1. TierInv("global")'
    BY <1>1, <1>2, <1>3, <1>4, TrimKeepsTier
  <2>2. TierInv("client")'
    BY <1>2, <1>3, <1>4 DEF TierInv, ServedSince
  <2> QED BY <1>1, <2>1, <2>2
<1>8. SecondTierExact' /\ WindowNeverExceeded'
  BY <1>2, <1>4 DEF WindowInv, SecondTierExact, WindowNeverExceeded, InWindowOf, ServedSince
<1>9. \A d \in Clients : RefusalInv(d)'
  <2> SUFFICES ASSUME NEW d \in Clients PROVE RefusalInv(d)'
    OBVIOUS
  <2>1. CASE d = c
    <3>1. refusal'[d].tier = "global"
      BY <1>2, <2>1 DEF TypeOK
    <3> QED BY <3>1 DEF RefusalInv
  <2>2. CASE d # c
    <3>1. refusal'[d] = refusal[d]
      BY <1>2, <2>2 DEF TypeOK
    <3> QED BY <1>2, <1>4, <3>1 DEF WindowInv, RefusalInv
  <2> QED BY <2>1, <2>2
<1> QED BY <1>6, <1>7, <1>8, <1>9 DEF WindowInv

\* The time a refusal tells is one at which the oldest stamp has left the window.
LEMMA ToldLongEnough ==
  ASSUME TypeOK, NEW t \in Tiers, TierInv(t), Full(t)
  PROVE  /\ Wait(t) \in Nat
         /\ Cardinality(Above(Recent(t), clock + Wait(t) - Window)) < Limits[t]
<1> DEFINE r == Recent(t)
           w == Window - (clock - r[1])
<1>1. clock \in Nat /\ Window \in Nat /\ Limits[t] \in Nat
      /\ stamps[t] \in Seq(0 .. MaxTime)
  BY LimiterTypes
<1>2. /\ r \in Seq(0 .. MaxTime) /\ Len(r) \in Nat
      /\ DOMAIN r = 1 .. Len(r) /\ Len(r) <= Len(stamps[t])
      /\ \A i \in DOMAIN r : r[i] \in Nat /\ r[i] >= clock - Window /\ r[i] <= clock
  BY TierInvRecent
<1>3. Limits[t] # 0 /\ Len(r) >= Limits[t] /\ Len(stamps[t]) <= Limits[t]
  BY DEF Full, TierInv
<1>4. Len(stamps[t]) \in Nat
  BY <1>1, StampFacts
<1>5. Len(r) = Limits[t] /\ Len(r) >= 1
  BY <1>1, <1>2, <1>3, <1>4
<1>6. 1 \in DOMAIN r
  BY <1>2, <1>5
<1>7. w \in Nat /\ r[1] \in Nat
  BY <1>1, <1>2, <1>6
<1>8. Wait(t) \in Nat /\ Wait(t) > w
  BY <1>7, RoundedUp DEF Wait
<1> HIDE DEF r
<1>9. PICK y \in Int : y = clock + Wait(t) - Window
  BY <1>1, <1>8
<1>10. y > r[1]
  BY <1>1, <1>7, <1>8, <1>9
<1>11. 1 \notin Above(r, y)
  BY <1>7, <1>10 DEF Above
<1>12. Above(r, y) \in SUBSET ((1 .. Len(r)) \ {1})
  BY <1>2, <1>11 DEF Above
<1>13. IsFiniteSet(1 .. Len(r)) /\ Cardinality(1 .. Len(r)) = Len(r)
  <2>1. Len(r) \in Nat
    BY <1>2
  <2> QED BY <2>1, FS_Interval
<1>14. /\ IsFiniteSet((1 .. Len(r)) \ {1})
       /\ Cardinality((1 .. Len(r)) \ {1}) = Len(r) - 1
  <2>1. 1 \in 1 .. Len(r)
    BY <1>2, <1>6
  <2> QED BY <1>13, <2>1, FS_RemoveElement
<1>15. Cardinality(Above(r, y)) <= Len(r) - 1 /\ Cardinality(Above(r, y)) \in Nat
  BY <1>12, <1>14, FS_Subset, FS_CardinalityType
<1>16. Cardinality(Above(r, y)) < Limits[t]
  BY <1>5, <1>15
<1> QED BY <1>8, <1>9, <1>16 DEF r

LEMMA RefusedByClientKeeps ==
  ASSUME TypeOK, WindowInv, NEW c \in Clients, RefusedByClient(c)
  PROVE  TypeOK' /\ WindowInv'
<1> DEFINE told == [tier |-> "client", at |-> clock, until |-> clock + Wait("client"),
                    mark |-> Len(served)]
<1>1. /\ "global" \in Tiers /\ "client" \in Tiers
      /\ \A t \in Tiers : t = "global" \/ t = "client"
  BY DEF Tiers
<1>2. /\ stamps' = [global |-> Recorded("global"), client |-> Recent("client")]
      /\ clock' = clock /\ served' = served
      /\ refusal' = [refusal EXCEPT ![c] = told]
      /\ Full("client") /\ ~Full("global")
  BY DEF RefusedByClient, Refuse
<1>3. stamps'["global"] = Recorded("global") /\ stamps'["client"] = Recent("client")
  BY <1>2
<1>4. /\ TierInv("global") /\ TierInv("client")
      /\ clock \in Nat /\ clock \in 0 .. MaxTime /\ Window \in Nat
      /\ Limits["client"] \in Nat /\ Limits["global"] \in Nat
      /\ stamps["client"] \in Seq(0 .. MaxTime) /\ stamps["global"] \in Seq(0 .. MaxTime)
      /\ Len(served) \in Nat /\ DOMAIN served = 1 .. Len(served)
  BY <1>1, LimiterTypes DEF WindowInv
<1>5. /\ Recent("client") \in Seq(0 .. MaxTime) /\ Len(Recent("client")) \in Nat
      /\ \A x \in Int :
           /\ Cardinality(Above(Recent("client"), x))
                <= Cardinality(Above(stamps["client"], x))
           /\ x >= clock - Window =>
                Cardinality(Above(Recent("client"), x))
                  = Cardinality(Above(stamps["client"], x))
      /\ Cardinality(Above(Recent("client"), clock - Window)) = Len(Recent("client"))
  BY <1>1, <1>4, TierInvRecent
<1>6. /\ Recorded("global") \in Seq(0 .. MaxTime)
      /\ Ordered(Recorded("global"))
      /\ \A i \in DOMAIN Recorded("global") : Recorded("global")[i] <= clock
      /\ Limits["global"] # 0 =>
           /\ Len(Recorded("global")) <= Limits["global"]
           /\ \A x \in Int : x >= clock - Window =>
                Cardinality(Above(Recorded("global"), x)) =
                  IF clock >= x THEN Cardinality(Above(stamps["global"], x)) + 1
                                ELSE Cardinality(Above(stamps["global"], x))
  BY <1>1, <1>2, <1>4, RecordedKeepsTier
<1>7. /\ Wait("client") \in Nat
      /\ Cardinality(Above(Recent("client"), clock + Wait("client") - Window))
           < Limits["client"]
  BY <1>1, <1>2, <1>4, ToldLongEnough
<1>8. told \in [tier : Tiers, at : 0 .. MaxTime, until : Nat, mark : Nat]
  <2>1. clock + Wait("client") \in Nat
    BY <1>4, <1>7
  <2> QED BY <1>1, <1>4, <2>1
<1>9. /\ told.tier = "client" /\ told.at = clock /\ told.until = clock + Wait("client")
      /\ told.mark = Len(served)
  OBVIOUS
<1> HIDE DEF told
<1>10. TypeOK'
  <2>1. stamps' \in [Tiers -> Seq(0 .. MaxTime)]
    BY <1>2, <1>5, <1>6 DEF Tiers
  <2>2. refusal' \in [Clients -> {NoRefusal} \cup
          [tier : Tiers, at : 0 .. MaxTime, until : Nat, mark : Nat]]
    BY <1>2, <1>8 DEF TypeOK
  <2> QED BY <1>2, <2>1, <2>2 DEF TypeOK
<1>11. \A x : ServedSince(x)' = ServedSince(x)
  BY <1>2 DEF ServedSince
<1>12. TierInv("client")'
  BY <1>1, <1>2, <1>3, <1>4, TrimKeepsTier
<1>13. TierInv("global")'
  <2>1. Limits["global"] # 0 => \A x \in Int : x >= clock - Window =>
          Cardinality(ServedSince(x)) <= Cardinality(Above(Recorded("global"), x))
    <3> SUFFICES ASSUME Limits["global"] # 0, NEW x \in Int, x >= clock - Window
                 PROVE  Cardinality(ServedSince(x))
                          <= Cardinality(Above(Recorded("global"), x))
      OBVIOUS
    <3> DEFINE a == Cardinality(ServedSince(x))
               b == Cardinality(Above(stamps["global"], x))
    <3>1. a \in Nat /\ b \in Nat
      BY <1>4, ServedCount, AboveCount
    <3>2. a <= b
      BY <1>4 DEF TierInv
    <3>3. Cardinality(Above(Recorded("global"), x)) = IF clock >= x THEN b + 1 ELSE b
      BY <1>6
    <3> HIDE DEF a, b
    <3>4. a <= IF clock >= x THEN b + 1 ELSE b
      BY <3>1, <3>2
    <3> QED BY <3>3, <3>4 DEF a
  <2> QED BY <1>2, <1>3, <1>6, <1>11, <2>1 DEF TierInv
<1>14. SecondTierExact'
  <2> SUFFICES ASSUME Limits["client"] # 0
               PROVE  \A x \in Int : x >= clock - Window =>
                        Cardinality(ServedSince(x)) = Cardinality(Above(Recent("client"), x))
    BY <1>2, <1>3, <1>11 DEF SecondTierExact
  <2> QED BY <1>5 DEF WindowInv, SecondTierExact
<1>15. WindowNeverExceeded'
  BY <1>2 DEF WindowInv, WindowNeverExceeded, InWindowOf
<1>16. RefusalInv(c)'
  <2>1. refusal'[c] = told
    BY <1>2 DEF TypeOK
  <2>2. Limits["client"] # 0 /\ Len(Recent("client")) >= Limits["client"]
    BY <1>2 DEF Full
  <2>3. ServedSince(clock - Window)
          = {j \in 1 .. Len(served) : served[j].at >= clock - Window}
    BY <1>4 DEF ServedSince
  <2>4. Cardinality(ServedSince(clock - Window)) = Len(Recent("client"))
    <3>1. PICK x \in Int : x = clock - Window
      BY <1>4
    <3>2. x >= clock - Window
      BY <1>4, <3>1
    <3>3. Cardinality(ServedSince(x)) = Cardinality(Above(stamps["client"], x))
      BY <2>2, <3>2 DEF WindowInv, SecondTierExact
    <3>4. Cardinality(Above(Recent("client"), x)) = Cardinality(Above(stamps["client"], x))
      BY <1>5, <3>2
    <3> QED BY <1>5, <3>1, <3>3, <3>4
  <2>5. Cardinality({j \in 1 .. Len(served) : served[j].at >= clock - Window})
          >= Limits["client"]
    BY <2>2, <2>3, <2>4
  <2>6. Len(served) <= Len(served)
    BY <1>4
  <2>7. /\ refusal'[c].mark = Len(served) /\ refusal'[c].at = clock
        /\ refusal'[c].until = clock + Wait("client")
    BY <1>9, <2>1
  <2>8. /\ refusal'[c].mark <= Len(served') /\ Limits["client"] # 0
        /\ Cardinality({j \in 1 .. refusal'[c].mark :
                          served'[j].at >= refusal'[c].at - Window}) >= Limits["client"]
    BY <1>2, <2>2, <2>5, <2>6, <2>7
  <2>9. Cardinality(Above(stamps'["client"], refusal'[c].until - Window))
          < Limits["client"]
    <3>1. PICK x \in Int : x = clock + Wait("client") - Window
      BY <1>4, <1>7
    <3>2. refusal'[c].until - Window = x
      <4>1. PICK w \in Nat : w = Wait("client")
        BY <1>7
      <4>2. refusal'[c].until = clock + w /\ x = clock + w - Window
        BY <2>7, <3>1, <4>1
      <4> QED BY <1>4, <4>1, <4>2
    <3>3. Cardinality(Above(Recent("client"), x)) < Limits["client"]
      BY <1>7, <3>1
    <3> QED BY <1>3, <3>2, <3>3
  <2> QED BY <2>8, <2>9 DEF RefusalInv
<1>17. \A d \in Clients \ {c} : RefusalInv(d)'
  <2> SUFFICES ASSUME NEW d \in Clients, d # c PROVE RefusalInv(d)'
    OBVIOUS
  <2>1. refusal'[d] = refusal[d]
    BY <1>2 DEF TypeOK
  <2> QED BY <1>2, <1>3, <1>5, <2>1, OldRefusal DEF WindowInv
<1> QED BY <1>1, <1>10, <1>12, <1>13, <1>14, <1>15, <1>16, <1>17 DEF WindowInv

\* Time only narrows what has to be counted.
LEMMA TickKeeps ==
  ASSUME TypeOK, WindowInv, Tick
  PROVE  TypeOK' /\ WindowInv'
<1>1. /\ clock \in Nat /\ Window \in Nat /\ clock \in 0 .. MaxTime /\ MaxTime \in Nat
      /\ \A t \in Tiers : stamps[t] \in Seq(0 .. MaxTime)
  BY LimiterTypes
<1>2. /\ clock' = clock + 1 /\ clock < MaxTime
      /\ stamps' = stamps /\ served' = served /\ refusal' = refusal
  BY DEF Tick
<1>3. clock' \in 0 .. MaxTime
  BY <1>1, <1>2
<1>4. TypeOK'
  BY <1>2, <1>3 DEF TypeOK
<1>5. \A x : ServedSince(x)' = ServedSince(x)
  BY <1>2 DEF ServedSince
<1>6. \A x \in Int : x >= clock' - Window => x >= clock - Window
  BY <1>1, <1>2
<1>7. \A t \in Tiers : TierInv(t)'
  <2> SUFFICES ASSUME NEW t \in Tiers PROVE TierInv(t)'
    OBVIOUS
  <2>1. \A i \in DOMAIN stamps[t] : stamps[t][i] \in Nat
    BY <1>1, StampFacts
  <2>2. \A i \in DOMAIN stamps[t] : stamps[t][i] <= clock
    BY DEF WindowInv, TierInv
  <2>3. \A i \in DOMAIN stamps[t] : stamps[t][i] <= clock'
    BY <1>1, <1>2, <2>1, <2>2
  <2> QED BY <1>2, <1>5, <1>6, <2>3 DEF WindowInv, TierInv
<1>8. SecondTierExact'
  BY <1>2, <1>5, <1>6 DEF WindowInv, SecondTierExact
<1>9. WindowNeverExceeded' /\ \A c \in Clients : RefusalInv(c)'
  BY <1>2 DEF WindowInv, WindowNeverExceeded, InWindowOf, RefusalInv
<1> QED BY <1>4, <1>7, <1>8, <1>9 DEF WindowInv

\* Nothing is in a window when the server has just started.
LEMMA StartedLimiters ==
  ASSUME stamps = [t \in Tiers |-> <<>>], served = <<>>, clock \in 0 .. MaxTime,
         refusal = [c \in Clients |-> NoRefusal]
  PROVE  TypeOK /\ WindowInv
<1>1. /\ <<>> \in Seq(0 .. MaxTime) /\ Len(<<>>) = 0 /\ DOMAIN <<>> = {}
      /\ <<>> \in Seq([at : 0 .. MaxTime, client : Clients])
  BY EmptySeq
<1>2. TypeOK
  BY <1>1 DEF TypeOK
<1>3. \A t \in Tiers : stamps[t] = <<>> /\ Limits[t] \in Nat
  BY RateLimiterConstants
<1>4. \A x : ServedSince(x) = {} /\ Above(<<>>, x) = {}
  BY <1>1 DEF ServedSince, Above
<1>5. Cardinality({}) = 0
  BY FS_EmptySet
<1>6. \A t \in Tiers : TierInv(t)
  <2> SUFFICES ASSUME NEW t \in Tiers PROVE TierInv(t)
    OBVIOUS
  <2>1. Ordered(stamps[t]) /\ \A i \in DOMAIN stamps[t] : stamps[t][i] <= clock
    BY <1>1, <1>3 DEF Ordered
  <2>2. Len(stamps[t]) <= Limits[t]
    BY <1>1, <1>3
  <2>3. \A x \in Int : Cardinality(ServedSince(x)) <= Cardinality(Above(stamps[t], x))
    <3> SUFFICES ASSUME NEW x \in Int
                 PROVE  Cardinality(ServedSince(x)) <= Cardinality(Above(stamps[t], x))
      OBVIOUS
    <3>1. ServedSince(x) = {} /\ Above(stamps[t], x) = {}
      BY <1>3, <1>4
    <3> QED BY <1>5, <3>1
  <2> QED BY <2>1, <2>2, <2>3 DEF TierInv
<1>7. SecondTierExact
  BY <1>3, <1>4 DEF SecondTierExact, Tiers
<1>8. WindowNeverExceeded
  BY <1>1 DEF WindowNeverExceeded
<1>9. \A c \in Clients : RefusalInv(c)
  BY DEF RefusalInv, NoRefusal
<1> QED BY <1>2, <1>6, <1>7, <1>8, <1>9 DEF WindowInv

-------------------------------------------------------------------------------
(* The login *)

BrakeTypes ==
  /\ failures \in Seq(0 .. MaxTime) /\ failed = Len(failures)
  /\ lockedUntil \in Nat

\* From the MaxAttempts-th failure on each one locks, and the next one that counts
\* comes after that lock: the strengthening of GuessesAreBounded and LockIsEarned.
BrakeInv ==
  /\ BrakeTypes
  /\ Ordered(failures)
  /\ \A i \in DOMAIN failures : failures[i] <= clock
  /\ Len(failures) >= MaxAttempts => lockedUntil = failures[Len(failures)] + Lockout
  /\ Len(failures) < MaxAttempts => lockedUntil <= clock
  /\ \A i \in DOMAIN failures :
       i > MaxAttempts => failures[i - 1] + Lockout <= failures[i]

LoginInv == TypeOK /\ WindowInv /\ BrakeInv

\* What SMT needs of the brake.
LEMMA BrakeFacts ==
  ASSUME TypeOK, BrakeTypes
  PROVE  /\ clock \in Nat /\ clock \in 0 .. MaxTime
         /\ Lockout \in Nat /\ MaxAttempts \in Nat /\ MaxAttempts >= 1
         /\ Len(failures) \in Nat /\ DOMAIN failures = 1 .. Len(failures)
         /\ \A i \in 1 .. Len(failures) : failures[i] \in Nat
         /\ lockedUntil \in Nat /\ failed = Len(failures)
<1>1. Lockout \in Nat /\ MaxAttempts \in Nat /\ MaxAttempts # 0
  BY LoginConstants
<1>2. clock \in Nat /\ clock \in 0 .. MaxTime
  BY LimiterTypes
<1>3. failures \in Seq(0 .. MaxTime)
  BY DEF BrakeTypes
<1>4. /\ Len(failures) \in Nat /\ DOMAIN failures = 1 .. Len(failures)
      /\ \A i \in 1 .. Len(failures) : failures[i] \in Nat
  BY <1>3, StampFacts
<1> QED BY <1>1, <1>2, <1>4 DEF BrakeTypes

\* Nothing but a later clock, or nothing at all.
LEMMA BrakeRests ==
  ASSUME TypeOK, BrakeInv, UNCHANGED brake, clock' \in Nat, clock <= clock'
  PROVE  BrakeInv'
<1>1. failed' = failed /\ lockedUntil' = lockedUntil /\ failures' = failures
  BY DEF brake
<1>2. BrakeTypes /\ BrakeTypes'
  BY <1>1 DEF BrakeInv, BrakeTypes
<1>3. /\ clock \in Nat /\ lockedUntil \in Nat /\ DOMAIN failures = 1 .. Len(failures)
      /\ \A i \in 1 .. Len(failures) : failures[i] \in Nat
  BY <1>2, BrakeFacts
<1>4. \A i \in DOMAIN failures : failures[i] <= clock'
  <2>1. \A i \in 1 .. Len(failures) : failures[i] <= clock
    BY <1>3 DEF BrakeInv
  <2> QED BY <1>3, <2>1
<1>5. Len(failures) < MaxAttempts => lockedUntil <= clock'
  <2>1. Len(failures) < MaxAttempts => lockedUntil <= clock
    BY DEF BrakeInv
  <2> QED BY <1>3, <2>1
<1> QED BY <1>1, <1>2, <1>4, <1>5 DEF BrakeInv

LEMMA SucceedKeeps ==
  ASSUME TypeOK, BrakeInv, ~Locked, Succeed, clock' = clock
  PROVE  BrakeInv'
<1>1. BrakeTypes
  BY DEF BrakeInv
<1>2. clock \in Nat /\ lockedUntil \in Nat /\ MaxAttempts \in Nat /\ MaxAttempts >= 1
  BY <1>1, BrakeFacts
<1>3. lockedUntil <= clock
  BY <1>2 DEF Locked
<1>4. failures' = <<>> /\ failed' = 0 /\ lockedUntil' = lockedUntil
  BY DEF Succeed
<1>5. <<>> \in Seq(0 .. MaxTime) /\ Len(<<>>) = 0 /\ DOMAIN <<>> = {}
  BY EmptySeq
<1>6. BrakeTypes'
  BY <1>2, <1>4, <1>5 DEF BrakeTypes
<1>7. ~(Len(failures') >= MaxAttempts)
  BY <1>2, <1>4, <1>5
<1>8. DOMAIN failures' = {}
  BY <1>4, <1>5
<1> QED BY <1>3, <1>4, <1>6, <1>7, <1>8 DEF BrakeInv, Ordered

\* A failure is only counted when the lock before it has run out.
LEMMA MismatchKeeps ==
  ASSUME TypeOK, BrakeInv, NEW c, NEW p, Mismatch(c, p), clock' = clock
  PROVE  BrakeInv'
<1> DEFINE n == Len(failures)
           u == Append(failures, clock)
<1>1. BrakeTypes
  BY DEF BrakeInv
<1>2. /\ clock \in Nat /\ clock \in 0 .. MaxTime /\ Lockout \in Nat
      /\ MaxAttempts \in Nat /\ MaxAttempts >= 1
      /\ n \in Nat /\ DOMAIN failures = 1 .. n
      /\ lockedUntil \in Nat /\ failed = n
  BY <1>1, BrakeFacts
<1>3. \A i \in 1 .. n : failures[i] \in Nat
  BY <1>1, BrakeFacts
<1>4. lockedUntil <= clock
  BY <1>2 DEF Mismatch, Locked
<1>5. /\ u \in Seq(0 .. MaxTime) /\ Len(u) = n + 1 /\ DOMAIN u = 1 .. n + 1
      /\ u[n + 1] = clock /\ \A i \in 1 .. n : u[i] = failures[i]
      /\ Ordered(u) /\ \A i \in DOMAIN u : u[i] <= clock
  <2>1. failures \in Seq(0 .. MaxTime) /\ Ordered(failures)
        /\ \A i \in DOMAIN failures : failures[i] <= clock
    BY DEF BrakeInv, BrakeTypes
  <2> QED BY <1>2, <2>1, AppendOrdered
<1>6. /\ failures' = u /\ failed' = n + 1
      /\ lockedUntil' = IF n + 1 >= MaxAttempts THEN clock + Lockout ELSE lockedUntil
  BY <1>2 DEF Mismatch, LockAfter
<1>7. /\ n >= MaxAttempts => lockedUntil = failures[n] + Lockout
      /\ \A i \in 1 .. n : i > MaxAttempts => failures[i - 1] + Lockout <= failures[i]
  BY <1>2 DEF BrakeInv
<1> HIDE DEF n, u
<1>8. BrakeTypes'
  BY <1>2, <1>5, <1>6 DEF BrakeTypes
<1>9. \A i \in 1 .. n + 1 : i > MaxAttempts => u[i - 1] + Lockout <= u[i]
  <2> SUFFICES ASSUME NEW i \in 1 .. n + 1, i > MaxAttempts
               PROVE  u[i - 1] + Lockout <= u[i]
    OBVIOUS
  <2>1. i - 1 \in 1 .. n
    BY <1>2
  <2>2. u[i - 1] = failures[i - 1]
    BY <1>5, <2>1
  <2>3. CASE i = n + 1
    <3>1. n >= MaxAttempts /\ i - 1 = n
      BY <1>2, <2>3
    <3>2. failures[n] + Lockout <= clock
      BY <1>4, <1>7, <3>1
    <3> QED BY <1>5, <2>2, <2>3, <3>1, <3>2
  <2>4. CASE i # n + 1
    <3>1. i \in 1 .. n
      BY <1>2, <2>4
    <3> QED BY <1>5, <1>7, <2>2, <3>1
  <2> QED BY <2>3, <2>4
<1>10. /\ n + 1 >= MaxAttempts => lockedUntil' = u[n + 1] + Lockout
       /\ n + 1 < MaxAttempts => lockedUntil' <= clock
  BY <1>2, <1>4, <1>5, <1>6
<1> QED BY <1>5, <1>6, <1>8, <1>9, <1>10 DEF BrakeInv

\* A started server has counted nothing.
LEMMA StartedBrake ==
  ASSUME failures = <<>>, failed = 0, lockedUntil = 0, clock \in 0 .. MaxTime
  PROVE  BrakeInv
<1>1. /\ <<>> \in Seq(0 .. MaxTime) /\ Len(<<>>) = 0 /\ DOMAIN <<>> = {}
  BY EmptySeq
<1>2. MaxAttempts \in Nat /\ MaxAttempts # 0 /\ MaxTime \in Nat
  BY LoginConstants, RateLimiterConstants
<1>3. lockedUntil <= clock /\ lockedUntil \in Nat
  BY <1>2
<1>4. ~(Len(failures) >= MaxAttempts)
  BY <1>1, <1>2
<1> QED BY <1>1, <1>3, <1>4 DEF BrakeInv, BrakeTypes, Ordered

LEMMA LimiterStep ==
  ASSUME TypeOK, WindowInv, NEW c \in Clients,
         RefusedGlobally(c) \/ RefusedByClient(c) \/ Serve(c)
  PROVE  TypeOK' /\ WindowInv' /\ clock' = clock
<1>1. CASE RefusedGlobally(c)
  BY <1>1, RefusedGloballyKeeps DEF RefusedGlobally
<1>2. CASE RefusedByClient(c)
  BY <1>2, RefusedByClientKeeps DEF RefusedByClient
<1>3. CASE Serve(c)
  BY <1>3, ServeKeepsTypes, ServeKeepsWindows DEF Serve
<1> QED BY <1>1, <1>2, <1>3

LEMMA AuthenticateKeeps ==
  ASSUME LoginInv, NEW c \in Clients, NEW p \in Passphrases, Authenticate(c, p)
  PROVE  LoginInv'
<1>1. TypeOK /\ WindowInv /\ BrakeInv /\ clock \in Nat
  BY LimiterTypes DEF LoginInv
<1>2. TypeOK' /\ WindowInv' /\ clock' = clock
  BY <1>1, LimiterStep DEF Authenticate
<1>3. clock <= clock' /\ clock' \in Nat
  BY <1>1, <1>2
<1>4. CASE Unconfigured(c) \/ RefusedLocked(c) \/ Unreadable(c)
  <2>1. UNCHANGED brake
    BY <1>4 DEF Unconfigured, RefusedLocked, Unreadable
  <2> QED BY <1>1, <1>2, <1>3, <2>1, BrakeRests DEF LoginInv
<1>5. CASE Match(c, p)
  BY <1>1, <1>2, <1>5, SucceedKeeps DEF LoginInv, Match
<1>6. CASE Mismatch(c, p)
  BY <1>1, <1>2, <1>6, MismatchKeeps DEF LoginInv
<1> QED BY <1>4, <1>5, <1>6 DEF Authenticate

\* Steps that leave the limiters and the brake alone.
LEMMA LoginRests ==
  ASSUME LoginInv, UNCHANGED vars,
         UNCHANGED <<failed, lockedUntil, failures>>
  PROVE  LoginInv'
<1>1. stamps' = stamps /\ clock' = clock /\ served' = served /\ refusal' = refusal
  BY DEF vars
<1>2. TypeOK'
  BY <1>1 DEF LoginInv, TypeOK
<1>3. WindowInv'
  BY <1>1 DEF LoginInv, WindowInv, TierInv, SecondTierExact, WindowNeverExceeded,
              RefusalInv, InWindowOf, ServedSince
<1>4. BrakeInv'
  BY <1>1 DEF LoginInv, BrakeInv, BrakeTypes
<1> QED BY <1>2, <1>3, <1>4 DEF LoginInv

LEMMA TimePasses ==
  ASSUME LoginInv, Tick, UNCHANGED brake
  PROVE  LoginInv'
<1>1. TypeOK /\ WindowInv /\ BrakeInv /\ clock \in Nat
  BY LimiterTypes DEF LoginInv
<1>2. TypeOK' /\ WindowInv'
  BY <1>1, TickKeeps
<1>3. clock' \in Nat /\ clock <= clock'
  BY <1>1 DEF Tick
<1> QED BY <1>1, <1>2, <1>3, BrakeRests DEF LoginInv

\* A server that has just been started, at any time.
Started ==
  /\ stamps = [t \in Tiers |-> <<>>] /\ served = <<>>
  /\ refusal = [c \in Clients |-> NoRefusal]
  /\ failed = 0 /\ lockedUntil = 0 /\ failures = <<>>
  /\ clock \in 0 .. MaxTime

LEMMA StartedServer == Started => LoginInv
  BY StartedLimiters, StartedBrake DEF LoginInv, Started

LEMMA RestartKeeps == LoginInv /\ Restart => LoginInv'
<1>1. LoginInv /\ Restart => Started'
  BY DEF Restart, LoginInv, TypeOK, Started
<1> QED BY <1>1, StartedServer, PTL

THEOREM LoginInvariance == LoginSpec => []LoginInv
<1>1. LoginInit => LoginInv
  <2> SUFFICES ASSUME LoginInit PROVE LoginInv
    OBVIOUS
  <2>1. clock \in 0 .. MaxTime
    BY RateLimiterConstants DEF LoginInit, Init
  <2> QED BY <2>1, StartedServer DEF LoginInit, Init, Started
<1>2. LoginInv /\ [LoginNext]_loginVars => LoginInv'
  <2> SUFFICES ASSUME LoginInv, [LoginNext]_loginVars PROVE LoginInv'
    OBVIOUS
  <2>1. ASSUME NEW c \in Clients, Other(c) PROVE LoginInv'
    <3>1. TypeOK /\ WindowInv /\ BrakeInv /\ clock \in Nat
      BY LimiterTypes DEF LoginInv
    <3>2. TypeOK' /\ WindowInv' /\ clock' = clock
      BY <2>1, <3>1, LimiterStep DEF Other
    <3>3. UNCHANGED brake /\ clock <= clock' /\ clock' \in Nat
      BY <2>1, <3>1, <3>2 DEF Other
    <3> QED BY <3>1, <3>2, <3>3, BrakeRests DEF LoginInv
  <2>2. ASSUME NEW c \in Clients, NEW p \in Passphrases, Authenticate(c, p)
        PROVE  LoginInv'
    BY <2>2, AuthenticateKeeps
  <2>3. CASE Wake
    BY <2>3, LoginRests DEF Wake
  <2>4. CASE Restart
    BY <2>4, RestartKeeps
  <2>5. ASSUME NEW p \in Passphrases, OpenForSetup(p) PROVE LoginInv'
    BY <2>5, LoginRests DEF OpenForSetup, brake
  <2>6. CASE WriteSetup
    BY <2>6, LoginRests DEF WriteSetup, brake
  <2>7. CASE SetupDies
    BY <2>7, LoginRests DEF SetupDies, brake
  <2>8. CASE Tick /\ UNCHANGED <<account, brake>>
    BY <2>8, TimePasses
  <2>9. CASE UNCHANGED loginVars
    BY <2>9, LoginRests DEF loginVars, brake
  <2> QED BY <2>1, <2>2, <2>3, <2>4, <2>5, <2>6, <2>7, <2>8, <2>9 DEF LoginNext
<1> QED BY <1>1, <1>2, PTL DEF LoginSpec

-------------------------------------------------------------------------------
(* Theorems *)

\* check_and_record: whatever clients and restarts do, no window of a tier that has
\* a limit ever holds more requests let through than that limit.
THEOREM WindowsAreNeverExceeded == LoginSpec => []WindowNeverExceeded
<1>1. LoginInv => WindowNeverExceeded
  BY DEF LoginInv, WindowInv
<1> QED BY <1>1, LoginInvariance, PTL

LEMMA WaitSuffices ==
  ASSUME TypeOK, WindowInv PROVE WaitIsEnough
<1> SUFFICES ASSUME NEW c \in Clients, refusal[c].tier = "client",
                    clock >= refusal[c].until, Len(served) = refusal[c].mark,
                    Full("client")
             PROVE  FALSE
  BY DEF WaitIsEnough
<1>1. "client" \in Tiers
  BY DEF Tiers
<1>2. /\ clock \in Nat /\ Window \in Nat /\ Limits["client"] \in Nat
      /\ stamps["client"] \in Seq(0 .. MaxTime) /\ refusal[c].until \in Nat
      /\ TierInv("client") /\ RefusalInv(c)
  BY <1>1, LimiterTypes, RefusalTypes DEF WindowInv
<1>3. PICK x \in Int : x = refusal[c].until - Window
  BY <1>2
<1>4. PICK y \in Int : y = clock - Window
  BY <1>2
<1>5. x <= y
  BY <1>2, <1>3, <1>4
<1>6. Cardinality(Above(stamps["client"], x)) < Limits["client"]
  BY <1>2, <1>3 DEF RefusalInv
<1>7. Cardinality(Above(stamps["client"], y)) = Len(Recent("client"))
      /\ Len(Recent("client")) \in Nat
  <2>1. /\ Len(Recent("client")) \in Nat
        /\ Cardinality(Above(Recent("client"), y)) = Len(Recent("client"))
    BY <1>1, <1>2, <1>4, TierInvRecent
  <2>2. y >= clock - Window
    BY <1>2, <1>4
  <2>3. Cardinality(Above(Recent("client"), y)) = Cardinality(Above(stamps["client"], y))
    BY <1>1, <1>2, <2>2, TierInvRecent
  <2> QED BY <2>1, <2>3
<1>8. Len(Recent("client")) >= Limits["client"]
  BY DEF Full
<1>9. /\ IsFiniteSet(Above(stamps["client"], x))
      /\ Cardinality(Above(stamps["client"], x)) \in Nat
  BY <1>2, AboveCount
<1>10. Above(stamps["client"], y) \in SUBSET Above(stamps["client"], x)
  <2>1. \A i \in DOMAIN stamps["client"] : stamps["client"][i] \in Nat
    BY <1>2, StampFacts
  <2>2. \A i \in DOMAIN stamps["client"] : stamps["client"][i] >= y => stamps["client"][i] >= x
    BY <1>5, <2>1
  <2> QED BY <2>2 DEF Above
<1>11. Cardinality(Above(stamps["client"], y)) <= Cardinality(Above(stamps["client"], x))
  BY <1>9, <1>10, FS_Subset
<1> QED BY <1>2, <1>6, <1>7, <1>8, <1>9, <1>11

\* check_and_record and the middleware's message: the second tier refuses only when it
\* let as many requests through as it allows, and the wait it tells is enough.
THEOREM RefusalsAreAlwaysTrue == LoginSpec => []RefusalsAreTrue
<1>1. LoginInv => RefusedOnlyWhenFull
  BY DEF LoginInv, WindowInv, RefusalInv, RefusedOnlyWhenFull
<1>2. LoginInv => WaitIsEnough
  BY WaitSuffices DEF LoginInv
<1> QED BY <1>1, <1>2, LoginInvariance, PTL DEF RefusalsAreTrue

LEMMA GuessesCounted ==
  ASSUME TypeOK, BrakeInv PROVE GuessesAreBounded
<1> DEFINE n == Len(failures)
<1>1. /\ Lockout \in Nat /\ MaxAttempts \in Nat /\ MaxAttempts >= 1
      /\ n \in Nat /\ DOMAIN failures = 1 .. n
  BY BrakeFacts DEF BrakeInv
<1>2. \A i \in 1 .. n : failures[i] \in Nat
  BY BrakeFacts DEF BrakeInv
<1>3. \A i, j \in 1 .. n : i <= j => failures[i] <= failures[j]
  BY <1>1 DEF BrakeInv, Ordered
<1>4. \A i \in 1 .. n : i > MaxAttempts => failures[i - 1] + Lockout <= failures[i]
  BY <1>1 DEF BrakeInv
<1> SUFFICES ASSUME NEW i \in 1 .. n
             PROVE  Cardinality({j \in 1 .. i : failures[j] > failures[i] - Lockout})
                      <= MaxAttempts
  BY <1>1 DEF GuessesAreBounded
<1> DEFINE T == {j \in 1 .. i : failures[j] > failures[i] - Lockout}
<1>5. CASE i <= MaxAttempts
  <2>1. T \in SUBSET (1 .. i) /\ i \in Nat
    OBVIOUS
  <2>2. IsFiniteSet(1 .. i) /\ Cardinality(1 .. i) = i
    BY <2>1, FS_Interval
  <2>3. Cardinality(T) <= i /\ Cardinality(T) \in Nat
    BY <2>1, <2>2, FS_Subset, FS_CardinalityType
  <2> HIDE DEF T
  <2>4. Cardinality(T) <= MaxAttempts
    BY <1>1, <1>5, <2>1, <2>3
  <2> QED BY <2>4 DEF T
<1>6. CASE i > MaxAttempts
  <2>1. i - 1 \in 1 .. n /\ failures[i - 1] + Lockout <= failures[i]
    BY <1>1, <1>4, <1>6
  <2>2. ASSUME NEW j \in 1 .. i, j # i
        PROVE  ~(failures[j] > failures[i] - Lockout)
    <3>1. j \in 1 .. n /\ j <= i - 1
      BY <1>1, <2>2
    <3>2. failures[j] <= failures[i - 1]
      BY <1>3, <2>1, <3>1
    <3>3. failures[j] \in Nat /\ failures[i - 1] \in Nat /\ failures[i] \in Nat
      BY <1>2, <2>1, <3>1
    <3> QED BY <1>1, <2>1, <3>2, <3>3
  <2>3. T \in SUBSET {i}
    BY <2>2
  <2>4. IsFiniteSet({i}) /\ Cardinality({i}) = 1
    BY FS_Singleton
  <2>5. Cardinality(T) <= 1 /\ Cardinality(T) \in Nat
    BY <2>3, <2>4, FS_Subset, FS_CardinalityType
  <2> HIDE DEF T
  <2>6. Cardinality(T) <= MaxAttempts
    BY <1>1, <2>5
  <2> QED BY <2>6 DEF T
<1> QED BY <1>1, <1>5, <1>6

\* authenticate: no stretch of a lockout's length ever sees more passphrases compared
\* and found wrong than MAX_ATTEMPTS, for any delays, limits and number of clients.
THEOREM GuessesAreAlwaysBounded == LoginSpec => []GuessesAreBounded
<1>1. LoginInv => GuessesAreBounded
  BY GuessesCounted DEF LoginInv
<1> QED BY <1>1, LoginInvariance, PTL

\* authenticate: every lock was earned by MAX_ATTEMPTS wrong passphrases since the last
\* success, and what is refused meanwhile does not lengthen it.
THEOREM LocksAreAlwaysEarned == LoginSpec => []LockIsEarned
<1>1. LoginInv => LockIsEarned
  <2> SUFFICES ASSUME LoginInv, Locked
               PROVE  /\ Len(failures) >= MaxAttempts
                      /\ lockedUntil = failures[Len(failures)] + Lockout
    BY DEF LockIsEarned
  <2>1. clock \in Nat /\ lockedUntil \in Nat /\ Len(failures) \in Nat /\ MaxAttempts \in Nat
    BY BrakeFacts DEF LoginInv, BrakeInv
  <2>2. ~(lockedUntil <= clock)
    BY <2>1 DEF Locked
  <2>3. Len(failures) >= MaxAttempts
    BY <2>1, <2>2 DEF LoginInv, BrakeInv
  <2> QED BY <2>3 DEF LoginInv, BrakeInv
<1> QED BY <1>1, LoginInvariance, PTL

-------------------------------------------------------------------------------
(* The sessions *)

\* The requests that may still rotate or read: on their way, or being handled.
Afoot == wire \cup IF loop = None THEN {} ELSE {loop.request}

\* The types the proofs need: no token or session beyond those drawn.
SessionTypes ==
  /\ limit \in Capacities
  /\ sessions \subseteq SessionType /\ IsFiniteSet(sessions)
  /\ drawn \in Tokens /\ last \in 0 .. drawn
  /\ now \in 0 .. LastTime
  /\ loop \in {None} \cup [request : RequestType, sid : Tokens \ {0}, at : Nat]
  /\ wire \subseteq RequestType
  /\ reply \in [Callers -> {<<>>} \cup {<<r>> : r \in ReplyType}]
  /\ pc \in [Callers -> {"ready"} \cup Kinds]
  /\ held \in [Callers -> 0 .. drawn]
  /\ mine \in [Callers -> 0 .. drawn]
  /\ started \in [Tokens -> Nat] /\ uses \in [Tokens -> Nat]
  /\ ended \subseteq 1 .. drawn

\* Nobody knows a token that was not drawn.
NothingForeseen ==
  /\ \A s \in sessions : s.token \in 1 .. drawn /\ s.sid \in 1 .. drawn
  /\ \A m \in Afoot : m.token <= drawn
  /\ \A c \in Callers : reply[c] # <<>> => reply[c][1].token <= drawn
  /\ \A t \in Tokens : t > drawn => uses[t] = 0

\* The table: capacity, tokens, ages, the last token, the one use of each token,
\* and what a logout ended.
TableInv ==
  /\ SessionsBounded
  /\ \A s \in sessions : s.created = started[s.sid]
  /\ LastTokenIsLive
  /\ \A s \in sessions :
       uses[s.token] = 0 \/ (loop # None /\ loop.request.token = s.token)
  /\ TokenUsedOnce
  /\ LoneLogoutEndsIt

\* While a request is handled its session is in the table, expired or not.
LoopInv ==
  loop # None =>
    /\ drawn < MaxTokens
    /\ loop.request.kind # "scrape"
    /\ loop.at <= started[loop.sid] + MaxLifetime
    /\ \E s \in sessions : s.token = loop.request.token /\ s.sid = loop.sid

\* The client that began the session whose token is t and has missed no answer: it
\* has, or is about to get, that token; nobody else has it; and a request that will
\* rotate it is one the client waits for.
KeepsUp(c, t) ==
  /\ (reply[c] = <<>> \/ pc[c] = "ready") =>
       (held[c] = t \/ (pc[c] = "ready" /\ held[c] = 0))
  /\ (pc[c] # "ready" /\ reply[c] # <<>>) => reply[c][1].token \in {0, t}
  /\ \A m \in Afoot : m.token = t =>
       /\ m.client = c
       /\ m.kind # "scrape" => (pc[c] = m.kind /\ reply[c] = <<>>)
  /\ \A d \in Callers \ {c} :
       held[d] # t /\ (reply[d] # <<>> => reply[d][1].token # t)

ClientInv ==
  \A c \in Callers \ lost : \A s \in sessions : s.sid = mine[c] => KeepsUp(c, s.token)

SessionInv == SessionTypes /\ NothingForeseen /\ TableInv /\ LoopInv /\ ClientInv

\* What SMT needs of the numbers.
LEMMA TableNumbers ==
  ASSUME SessionTypes
  PROVE  /\ limit \in Nat /\ limit >= 1 /\ drawn \in Nat /\ now \in Nat
         /\ MaxTokens \in Nat /\ drawn <= MaxTokens
         /\ MaxLifetime \in Nat /\ IdleTimeout \in Nat /\ LastTime \in Nat
         /\ \A s \in sessions : /\ s.token \in Nat /\ s.sid \in Nat
                                /\ s.created \in Nat /\ s.used \in Nat
                                /\ s.token \in Tokens /\ s.sid \in Tokens
<1>1. \A s \in sessions : s \in SessionType
  BY DEF SessionTypes
<1>2. \A s \in sessions : /\ s.token \in Tokens /\ s.sid \in Tokens
                          /\ s.created \in Nat /\ s.used \in Nat
  BY <1>1 DEF SessionType
<1>3. \A t \in Tokens : t \in Nat
  BY SessionConstants DEF Tokens
<1>4. limit \in Nat \ {0} /\ now \in Nat /\ drawn \in 0 .. MaxTokens
  BY SessionConstants DEF SessionTypes, Tokens
<1>5. MaxTokens \in Nat /\ MaxLifetime \in Nat /\ IdleTimeout \in Nat /\ LastTime \in Nat
  BY SessionConstants
<1> QED BY <1>2, <1>3, <1>4, <1>5

LEMMA PurgedFacts ==
  ASSUME SessionTypes, SessionsBounded
  PROVE  /\ Purged \subseteq sessions /\ IsFiniteSet(Purged)
         /\ Cardinality(Purged) \in Nat /\ Cardinality(Purged) <= limit
<1>1. Purged \in SUBSET sessions /\ IsFiniteSet(sessions)
  BY DEF Purged, SessionTypes
<1>2. /\ IsFiniteSet(Purged) /\ Cardinality(Purged) <= Cardinality(sessions)
      /\ Cardinality(Purged) \in Nat /\ Cardinality(sessions) \in Nat
  BY <1>1, FS_Subset, FS_CardinalityType
<1>3. Cardinality(sessions) <= limit /\ limit \in Nat
  BY TableNumbers DEF SessionsBounded
<1>4. Cardinality(Purged) <= limit
  BY <1>2, <1>3
<1> QED BY <1>1, <1>2, <1>4

\* A token finds the one session that has it.
LEMMA GetFacts ==
  ASSUME SessionsBounded, NEW t, Has(Purged, t)
  PROVE  /\ Get(Purged, t) \in Purged /\ Get(Purged, t).token = t
         /\ \A s \in sessions : s.token = t => s = Get(Purged, t)
<1>1. Get(Purged, t) \in Purged /\ Get(Purged, t).token = t
  BY DEF Has, Get
<1>2. Get(Purged, t) \in sessions
  BY <1>1 DEF Purged
<1> QED BY <1>1, <1>2 DEF SessionsBounded

\* A step that begins no session and gives none a new token.
Shrinks ==
  /\ sessions' \subseteq SessionType /\ IsFiniteSet(sessions')
  /\ Cardinality(sessions') <= limit
  /\ \A s \in sessions' : \E r \in sessions :
       s.token = r.token /\ s.sid = r.sid /\ s.created = r.created
  /\ \A s, r \in sessions' : s # r => s.token # r.token

LEMMA SubsetShrinks ==
  ASSUME SessionTypes, SessionsBounded, sessions' \subseteq sessions
  PROVE  Shrinks
<1>1. IsFiniteSet(sessions) /\ sessions \subseteq SessionType
  BY DEF SessionTypes
<1>2. /\ IsFiniteSet(sessions') /\ Cardinality(sessions') <= Cardinality(sessions)
      /\ Cardinality(sessions') \in Nat /\ Cardinality(sessions) \in Nat
  BY <1>1, FS_Subset, FS_CardinalityType
<1>3. Cardinality(sessions) <= limit /\ limit \in Nat
  BY TableNumbers DEF SessionsBounded
<1>4. Cardinality(sessions') <= limit
  BY <1>2, <1>3
<1> QED BY <1>1, <1>2, <1>4 DEF Shrinks, SessionsBounded

\* A touched session is the same but for the time of its use.
LEMMA TouchShrinks ==
  ASSUME SessionTypes, SessionsBounded, NEW t, Touch(t)
  PROVE  /\ Shrinks
         /\ \A r \in Purged : \E s \in sessions' : s.token = r.token /\ s.sid = r.sid
<1> DEFINE f == [s \in Purged |-> IF s.token = t THEN [s EXCEPT !.used = now] ELSE s]
<1>1. /\ Purged \subseteq sessions /\ IsFiniteSet(Purged) /\ Purged \subseteq SessionType
      /\ Cardinality(Purged) \in Nat /\ Cardinality(Purged) <= limit
      /\ limit \in Nat /\ now \in Nat
  BY PurgedFacts, TableNumbers DEF SessionTypes
<1>2. \A s \in Purged : /\ f[s] \in SessionType /\ f[s].token = s.token
                        /\ f[s].sid = s.sid /\ f[s].created = s.created
  <2> SUFFICES ASSUME NEW s \in Purged
               PROVE  /\ f[s] \in SessionType /\ f[s].token = s.token
                      /\ f[s].sid = s.sid /\ f[s].created = s.created
    OBVIOUS
  <2>1. s \in SessionType
    BY <1>1
  <2>2. CASE s.token = t
    BY <1>1, <2>1, <2>2 DEF SessionType
  <2>3. CASE s.token # t
    BY <2>1, <2>3
  <2> QED BY <2>2, <2>3
<1>3. sessions' = {f[s] : s \in Purged}
  BY DEF Touch
<1> HIDE DEF f
<1>4. f \in Surjection(Purged, sessions')
  <2>1. f = [s \in Purged |-> f[s]]
    BY DEF f
  <2>2. f \in [Purged -> sessions']
    BY <1>3, <2>1
  <2>3. \A y \in sessions' : \E x \in Purged : f[x] = y
    BY <1>3
  <2> QED BY <2>2, <2>3, Zenon DEF Surjection
<1>5. IsFiniteSet(sessions') /\ Cardinality(sessions') <= Cardinality(Purged)
      /\ Cardinality(sessions') \in Nat
  BY <1>1, <1>4, FS_Surjection, FS_CardinalityType
<1>6. Cardinality(sessions') <= limit
  BY <1>1, <1>5
<1>7. \A s, r \in sessions' : s # r => s.token # r.token
  <2> SUFFICES ASSUME NEW s \in sessions', NEW r \in sessions', s.token = r.token
               PROVE  s = r
    OBVIOUS
  <2>1. PICK x \in Purged : s = f[x]
    BY <1>3
  <2>2. PICK y \in Purged : r = f[y]
    BY <1>3
  <2>3. x.token = y.token
    BY <1>2, <2>1, <2>2
  <2>4. x = y
    BY <1>1, <2>3 DEF SessionsBounded
  <2> QED BY <2>1, <2>2, <2>4
<1>8. \A s \in sessions' : s \in SessionType /\ \E r \in sessions :
        s.token = r.token /\ s.sid = r.sid /\ s.created = r.created
  BY <1>1, <1>2, <1>3
<1>9. \A r \in Purged : \E s \in sessions' : s.token = r.token /\ s.sid = r.sid
  BY <1>2, <1>3
<1> QED BY <1>5, <1>6, <1>7, <1>8, <1>9 DEF Shrinks

LEMMA ShrinksKeeps ==
  ASSUME SessionTypes, NothingForeseen, TableInv, Shrinks,
         limit' = limit, drawn' = drawn, started' = started
  PROVE  /\ SessionsBounded'
         /\ \A s \in sessions' : s.created = started'[s.sid]
         /\ \A s \in sessions' : s.token \in 1 .. drawn' /\ s.sid \in 1 .. drawn'
<1>1. SessionsBounded'
  BY DEF Shrinks, SessionsBounded
<1>2. \A s \in sessions' : s.created = started'[s.sid]
  BY DEF Shrinks, TableInv
<1>3. \A s \in sessions' : s.token \in 1 .. drawn' /\ s.sid \in 1 .. drawn'
  BY DEF Shrinks, NothingForeseen
<1> QED BY <1>1, <1>2, <1>3

\* Who gets an answer still waited for it.
LEMMA AnswerFacts ==
  ASSUME SessionTypes, NEW m \in RequestType, NEW r \in ReplyType, Answer(m, r)
  PROVE  /\ reply' \in [Callers -> {<<>>} \cup {<<x>> : x \in ReplyType}]
         /\ \A d \in Callers :
              \/ reply'[d] = reply[d]
              \/ /\ d = m.client /\ reply'[d] = <<r>> /\ reply'[d] # <<>>
                 /\ reply'[d][1].token = r.token
                 /\ pc[d] = m.kind /\ held[d] = m.token /\ reply[d] = <<>>
         /\ (pc[m.client] = m.kind /\ held[m.client] = m.token /\ reply[m.client] = <<>>)
              => reply'[m.client] = <<r>>
<1>1. reply \in [Callers -> {<<>>} \cup {<<x>> : x \in ReplyType}]
  BY DEF SessionTypes
<1>2. m.client \in Callers
  BY DEF RequestType
<1>3. <<r>> # <<>> /\ <<r>>[1] = r
  OBVIOUS
<1>4. CASE pc[m.client] = m.kind /\ held[m.client] = m.token /\ reply[m.client] = <<>>
  <2>1. reply' = [reply EXCEPT ![m.client] = <<r>>]
    BY <1>4 DEF Answer
  <2> QED BY <1>1, <1>2, <1>3, <1>4, <2>1
<1>5. CASE ~(pc[m.client] = m.kind /\ held[m.client] = m.token /\ reply[m.client] = <<>>)
  <2>1. reply' = reply
    BY <1>5 DEF Answer
  <2> QED BY <1>1, <1>5, <2>1
<1> QED BY <1>4, <1>5

\* A request on its way, or handled.
LEMMA AfootFacts ==
  ASSUME SessionTypes
  PROVE  /\ \A m \in Afoot : /\ m \in RequestType /\ m.client \in Callers
                             /\ m.kind \in Kinds /\ m.token \in Tokens /\ m.token \in Nat
         /\ loop # None => /\ loop.request \in Afoot
                           /\ loop.sid \in Tokens /\ loop.at \in Nat
         /\ loop = None => Afoot = wire
         /\ wire \subseteq Afoot
<1>1. ASSUME loop # None PROVE loop \in [request : RequestType, sid : Tokens \ {0}, at : Nat]
  BY <1>1 DEF SessionTypes
<1>2. \A m \in Afoot : m \in RequestType
  BY <1>1 DEF Afoot, SessionTypes
<1>3. \A t \in Tokens : t \in Nat
  BY SessionConstants DEF Tokens
<1> QED BY <1>1, <1>2, <1>3 DEF Afoot, RequestType

\* The answers nobody has yet know no more than those before and the new one.
LEMMA RepliesKnown ==
  ASSUME SessionTypes, NothingForeseen, NEW m \in RequestType, NEW r \in ReplyType,
         Answer(m, r), NEW n \in Nat, drawn <= n, r.token <= n
  PROVE  \A c \in Callers : reply'[c] # <<>> => reply'[c][1].token <= n
<1> SUFFICES ASSUME NEW c \in Callers, reply'[c] # <<>> PROVE reply'[c][1].token <= n
  OBVIOUS
<1>1. CASE reply'[c] = reply[c]
  <2>1. reply[c] \in {<<>>} \cup {<<x>> : x \in ReplyType}
    BY DEF SessionTypes
  <2>2. PICK x \in ReplyType : reply[c] = <<x>>
    BY <1>1, <2>1
  <2>3. x.token \in Nat /\ drawn \in Nat
    BY TableNumbers, SessionConstants DEF ReplyType, Tokens
  <2>4. x.token <= drawn
    BY <1>1, <2>2 DEF NothingForeseen
  <2>5. reply'[c][1].token = x.token
    BY <1>1, <2>2
  <2> QED BY <2>3, <2>4, <2>5
<1>2. CASE reply'[c] # reply[c]
  <2>1. reply'[c][1].token = r.token
    BY <1>2, AnswerFacts
  <2> QED BY <2>1
<1> QED BY <1>1, <1>2

LEMMA RejectKeepsTable ==
  ASSUME SessionInv, NEW m \in wire, Reject(m)
  PROVE  SessionTypes' /\ NothingForeseen' /\ TableInv' /\ LoopInv'
<1>1. SessionTypes /\ NothingForeseen /\ TableInv /\ SessionsBounded
  BY DEF SessionInv, TableInv
<1>2. /\ loop = None /\ loop' = None
      /\ ~Has(Purged, m.token)
      /\ sessions' = Purged /\ last' = LastIn(Purged)
      /\ Answer(m, NoReply)
      /\ wire' \subseteq wire
      /\ limit' = limit /\ drawn' = drawn /\ now' = now /\ pc' = pc /\ held' = held
      /\ lost' = lost /\ mine' = mine /\ started' = started /\ uses' = uses /\ ended' = ended
  BY DEF Reject, Arrive, tokens, client, history
<1>3. m \in RequestType /\ NoReply \in ReplyType /\ NoReply.token = 0
      /\ drawn \in Nat /\ MaxTokens \in Nat
  BY <1>1, AfootFacts, TableNumbers, SessionConstants DEF NoReply, ReplyType, Tokens
<1>4. Shrinks
  BY <1>1, <1>2, SubsetShrinks, PurgedFacts
<1>5. /\ SessionsBounded'
      /\ \A s \in sessions' : s.created = started'[s.sid]
      /\ \A s \in sessions' : s.token \in 1 .. drawn' /\ s.sid \in 1 .. drawn'
  BY <1>1, <1>2, <1>4, ShrinksKeeps
<1>6. reply' \in [Callers -> {<<>>} \cup {<<x>> : x \in ReplyType}]
  BY <1>1, <1>2, <1>3, AnswerFacts
<1>7. last' \in 0 .. drawn
  BY <1>1, <1>3 DEF SessionTypes, Reject, LastIn
<1>8. SessionTypes'
  BY <1>1, <1>2, <1>4, <1>6, <1>7 DEF SessionTypes, Shrinks
<1>9. Afoot' \subseteq Afoot
  BY <1>2 DEF Afoot
<1>10. \A c \in Callers : reply'[c] # <<>> => reply'[c][1].token <= drawn
  BY <1>1, <1>2, <1>3, RepliesKnown
<1>11. NothingForeseen'
  BY <1>1, <1>2, <1>5, <1>9, <1>10 DEF NothingForeseen
<1>12. LastTokenIsLive'
  BY <1>2 DEF LastTokenIsLive, LastIn, Has, Live
<1>13. \A s \in sessions' : uses'[s.token] = 0
  BY <1>1, <1>2 DEF TableInv, Purged
<1>14. TokenUsedOnce' /\ LoneLogoutEndsIt'
  BY <1>1, <1>2 DEF TableInv, TokenUsedOnce, LoneLogoutEndsIt, Purged
<1>15. LoopInv'
  BY <1>2 DEF LoopInv
<1> QED BY <1>5, <1>8, <1>11, <1>12, <1>13, <1>14, <1>15 DEF TableInv

LEMMA ScrapeKeepsTable ==
  ASSUME SessionInv, NEW m \in wire, Scrape(m)
  PROVE  SessionTypes' /\ NothingForeseen' /\ TableInv' /\ LoopInv'
<1>1. SessionTypes /\ NothingForeseen /\ TableInv /\ SessionsBounded
  BY DEF SessionInv, TableInv
<1> DEFINE r == [ok |-> TRUE, token |-> m.token]
<1>2. /\ loop = None /\ loop' = None
      /\ Touch(m.token) /\ last' = LastIn(Purged)
      /\ Answer(m, r)
      /\ wire' \subseteq wire
      /\ limit' = limit /\ drawn' = drawn /\ now' = now /\ pc' = pc /\ held' = held
      /\ lost' = lost /\ mine' = mine /\ started' = started /\ uses' = uses /\ ended' = ended
  BY DEF Scrape, Arrive, Touch, tokens, client, history
<1>3. /\ m \in RequestType /\ m \in Afoot /\ m.token \in Tokens /\ m.token \in Nat
      /\ drawn \in Nat /\ MaxTokens \in Nat
  BY <1>1, AfootFacts, TableNumbers
<1>4. r \in ReplyType /\ r.token = m.token /\ r.token <= drawn
  BY <1>1, <1>3 DEF ReplyType, NothingForeseen
<1> HIDE DEF r
<1>5. /\ Shrinks
      /\ \A s \in Purged : \E x \in sessions' : x.token = s.token
  BY <1>1, <1>2, TouchShrinks
<1>6. /\ SessionsBounded'
      /\ \A s \in sessions' : s.created = started'[s.sid]
      /\ \A s \in sessions' : s.token \in 1 .. drawn' /\ s.sid \in 1 .. drawn'
  BY <1>1, <1>2, <1>5, ShrinksKeeps
<1>7. reply' \in [Callers -> {<<>>} \cup {<<x>> : x \in ReplyType}]
  BY <1>1, <1>2, <1>3, <1>4, AnswerFacts
<1>8. last' \in 0 .. drawn
  BY <1>1, <1>2, <1>3 DEF SessionTypes, LastIn
<1>9. SessionTypes'
  BY <1>1, <1>2, <1>5, <1>7, <1>8 DEF SessionTypes, Shrinks
<1>10. Afoot' \subseteq Afoot
  BY <1>2 DEF Afoot
<1>11. \A c \in Callers : reply'[c] # <<>> => reply'[c][1].token <= drawn
  BY <1>1, <1>2, <1>3, <1>4, RepliesKnown
<1>12. NothingForeseen'
  BY <1>1, <1>2, <1>6, <1>10, <1>11 DEF NothingForeseen
<1>13. LastTokenIsLive'
  BY <1>2, <1>5 DEF LastTokenIsLive, LastIn, Has, Live
<1>14. \A s \in sessions' : uses'[s.token] = 0
  BY <1>1, <1>2, <1>5 DEF TableInv, Shrinks
<1>15. TokenUsedOnce' /\ LoneLogoutEndsIt'
  BY <1>1, <1>2, <1>5 DEF TableInv, TokenUsedOnce, LoneLogoutEndsIt, Shrinks
<1>16. LoopInv'
  BY <1>2 DEF LoopInv
<1> QED BY <1>6, <1>9, <1>12, <1>13, <1>14, <1>15, <1>16 DEF TableInv

LEMMA ValidateKeepsTable ==
  ASSUME SessionInv, NEW m \in wire, Validate(m)
  PROVE  SessionTypes' /\ NothingForeseen' /\ TableInv' /\ LoopInv'
<1>1. SessionTypes /\ NothingForeseen /\ TableInv /\ SessionsBounded
  BY DEF SessionInv, TableInv
<1> DEFINE g == Get(Purged, m.token)
<1>2. /\ loop = None /\ loop' = [request |-> m, sid |-> g.sid, at |-> now]
      /\ Has(Purged, m.token) /\ drawn < MaxTokens /\ m.kind # "scrape"
      /\ Touch(m.token) /\ last' = LastIn(Purged)
      /\ uses' = [uses EXCEPT ![m.token] = @ + 1]
      /\ wire' \subseteq wire
      /\ limit' = limit /\ drawn' = drawn /\ now' = now /\ pc' = pc /\ held' = held
      /\ reply' = reply
      /\ lost' = lost /\ mine' = mine /\ started' = started /\ ended' = ended
  BY DEF Validate, Arrive, Touch, tokens, client
<1>3. /\ m \in RequestType /\ m \in Afoot /\ m.token \in Tokens /\ m.token \in Nat
      /\ drawn \in Nat /\ MaxTokens \in Nat /\ now \in Nat /\ MaxLifetime \in Nat
  BY <1>1, AfootFacts, TableNumbers
<1>4. g \in Purged /\ g.token = m.token /\ g \in sessions
  BY <1>1, <1>2, GetFacts DEF Purged
<1>5. /\ g.sid \in 1 .. drawn /\ g.token \in 1 .. drawn /\ g.created = started[g.sid]
      /\ g.created \in Nat /\ g.sid \in Tokens
      /\ uses[m.token] = 0
  BY <1>1, <1>2, <1>4, TableNumbers DEF NothingForeseen, TableInv
<1>6. now <= started[g.sid] + MaxLifetime
  <2>1. ~Expired(g)
    BY <1>4 DEF Purged
  <2> QED BY <1>3, <1>5, <2>1 DEF Expired
<1>7. loop' \in [request : RequestType, sid : Tokens \ {0}, at : Nat] /\ loop' # None
      /\ loop'.request = m /\ loop'.sid = g.sid /\ loop'.at = now
  BY <1>2, <1>3, <1>5 DEF None
<1> HIDE DEF g
<1>8. /\ Shrinks
      /\ \A s \in Purged : \E x \in sessions' : x.token = s.token /\ x.sid = s.sid
  BY <1>1, <1>2, TouchShrinks
<1>9. /\ SessionsBounded'
      /\ \A s \in sessions' : s.created = started'[s.sid]
      /\ \A s \in sessions' : s.token \in 1 .. drawn' /\ s.sid \in 1 .. drawn'
  BY <1>1, <1>2, <1>8, ShrinksKeeps
<1>10. last' \in 0 .. drawn
  BY <1>1, <1>2, <1>3 DEF SessionTypes, LastIn
<1>11. /\ uses' \in [Tokens -> Nat]
       /\ uses'[m.token] = 1
       /\ \A t \in Tokens \ {m.token} : uses'[t] = uses[t]
  BY <1>1, <1>2, <1>3, <1>5 DEF SessionTypes
<1>12. SessionTypes'
  BY <1>1, <1>2, <1>7, <1>8, <1>10, <1>11 DEF SessionTypes, Shrinks
<1>13. Afoot' \subseteq Afoot
  BY <1>2, <1>3, <1>7 DEF Afoot
<1>14. \A t \in Tokens : t > drawn => uses'[t] = 0
  <2>1. \A t \in Tokens : t > drawn => t # m.token
    BY <1>3, <1>5, <1>4
  <2> QED BY <1>1, <1>11, <2>1 DEF NothingForeseen
<1>15. NothingForeseen'
  BY <1>1, <1>2, <1>9, <1>13, <1>14 DEF NothingForeseen
<1>16. LastTokenIsLive'
  BY <1>2, <1>8 DEF LastTokenIsLive, LastIn, Has, Live
<1>17. \A s \in sessions' : uses'[s.token] = 0 \/ s.token = m.token
  <2>1. \A s \in sessions' : s.token \in Tokens /\ uses[s.token] = 0
    BY <1>1, <1>2, <1>8, TableNumbers DEF TableInv, Shrinks
  <2> QED BY <1>11, <2>1
<1>18. TokenUsedOnce'
  BY <1>1, <1>11 DEF TableInv, TokenUsedOnce
<1>19. LoneLogoutEndsIt'
  BY <1>1, <1>2, <1>8 DEF TableInv, LoneLogoutEndsIt, Shrinks
<1>20. LoopInv'
  <2>1. \E s \in sessions' : s.token = m.token /\ s.sid = g.sid
    BY <1>4, <1>8
  <2> QED BY <1>2, <1>6, <1>7, <2>1 DEF LoopInv
<1> QED BY <1>7, <1>9, <1>12, <1>15, <1>16, <1>17, <1>18, <1>19, <1>20 DEF TableInv

\* The table after rotate(): the session has its new token and is otherwise the same.
LEMMA RotateFacts ==
  ASSUME SessionTypes, NothingForeseen, SessionsBounded, NEW t, Has(Purged, t),
         drawn < MaxTokens,
         NEW x, x = Rotated(Get(Purged, t), drawn + 1),
         NEW T, T = Without(Purged, t) \cup {x}
  PROVE  /\ x.token = drawn + 1 /\ x.sid = Get(Purged, t).sid
         /\ x.created = Get(Purged, t).created /\ x.used = Get(Purged, t).used
         /\ T \subseteq SessionType /\ IsFiniteSet(T)
         /\ Cardinality(T) \in Nat /\ Cardinality(T) = Cardinality(Purged)
         /\ \A s \in Without(Purged, t) :
              s \in sessions /\ s.token # t /\ s.token # drawn + 1
         /\ \A s, r \in T : s # r => s.token # r.token
<1> DEFINE g == Get(Purged, t)
<1>1. /\ g \in Purged /\ g.token = t /\ g \in sessions
      /\ \A s \in sessions : s.token = t => s = g
  BY GetFacts DEF Purged
<1>2. /\ Purged \subseteq sessions /\ IsFiniteSet(Purged)
      /\ Cardinality(Purged) \in Nat
      /\ drawn \in Nat /\ MaxTokens \in Nat /\ sessions \subseteq SessionType
  BY PurgedFacts, TableNumbers DEF SessionTypes
<1>3. drawn + 1 \in Tokens
  BY <1>2 DEF Tokens
<1> HIDE DEF g
<1>4. g \in SessionType /\ x = [g EXCEPT !.token = drawn + 1]
  BY <1>1, <1>2 DEF Rotated, g
<1>5. /\ x \in SessionType /\ x.token = drawn + 1 /\ x.sid = g.sid
      /\ x.created = g.created /\ x.used = g.used
  BY <1>3, <1>4 DEF SessionType
<1>6. Without(Purged, t) = Purged \ {g}
  BY <1>1, <1>2 DEF Without
<1>7. /\ IsFiniteSet(Purged \ {g}) /\ Cardinality(Purged \ {g}) = Cardinality(Purged) - 1
  BY <1>1, <1>2, FS_RemoveElement
<1>8. \A s \in Purged \ {g} : s \in sessions /\ s.token # t /\ s.token # drawn + 1
  <2>1. \A s \in sessions : s.token \in 1 .. drawn
    BY DEF NothingForeseen
  <2> QED BY <1>1, <1>2, <2>1
<1>9. x \notin Purged \ {g}
  BY <1>5, <1>8
<1>10. IsFiniteSet(T) /\ Cardinality(T) = Cardinality(Purged)
  BY <1>2, <1>6, <1>7, <1>9, FS_AddElement
<1>11. T \subseteq SessionType
  BY <1>2, <1>5, <1>6
<1>12. \A s, r \in T : s # r => s.token # r.token
  BY <1>5, <1>6, <1>8 DEF SessionsBounded
<1> QED BY <1>2, <1>5, <1>6, <1>8, <1>10, <1>11, <1>12 DEF g

\* Without any other session, the one that is fresh is the active one.
LEMMA LoneActive ==
  ASSUME NEW x, x.token \in Nat, ~Expired(x)
  PROVE  ActiveToken({x}) = x.token
<1>1. {s \in {x} : ~Expired(s)} = {x}
  OBVIOUS
<1>2. x.token <= x.token
  OBVIOUS
<1>3. {s.token : s \in {x}} = {x.token}
  OBVIOUS
<1>4. (CHOOSE t \in {x.token} : \A s \in {x} : t <= s.token) = x.token
  BY <1>2
<1> QED BY <1>1, <1>3, <1>4 DEF ActiveToken

LEMMA FinishKeepsTable ==
  ASSUME SessionInv, Finish
  PROVE  SessionTypes' /\ NothingForeseen' /\ TableInv' /\ LoopInv'
<1>1. SessionTypes /\ NothingForeseen /\ TableInv /\ SessionsBounded /\ LoopInv
  BY DEF SessionInv, TableInv
<1> DEFINE m == loop.request
           g == Get(Purged, m.token)
           new == drawn + 1
           r == [ok |-> TRUE, token |-> IF m.kind = "logout" THEN 0 ELSE new]
<1>2. PICK x : x = Rotated(g, new)
  OBVIOUS
<1>3. PICK T : T = Without(Purged, m.token) \cup {x}
  OBVIOUS
<1>4. PICK lst : lst = LastAfter(m.token, new)
  OBVIOUS
<1>5. /\ loop # None /\ Has(Purged, m.token) /\ drawn' = new
      /\ \/ /\ m.kind = "logout"
            /\ sessions' = Without(T, ActiveToken(T))
            /\ last' = IF lst = ActiveToken(T) THEN 0 ELSE lst
            /\ ended' = ended \cup {loop.sid}
         \/ /\ m.kind # "logout" /\ sessions' = T /\ last' = lst /\ ended' = ended
      /\ Answer(m, r)
      /\ loop' = None
      /\ limit' = limit /\ now' = now /\ wire' = wire /\ pc' = pc /\ held' = held
      /\ lost' = lost /\ mine' = mine /\ started' = started /\ uses' = uses
  BY <1>2, <1>3, <1>4 DEF Finish, LogoutToken, NewToken, client
<1>6. /\ m \in RequestType /\ m.token \in Tokens /\ m.token \in Nat /\ loop.sid \in Tokens
      /\ drawn \in Nat /\ MaxTokens \in Nat /\ limit \in Nat /\ limit >= 1
  BY <1>1, <1>5, AfootFacts, TableNumbers
<1>7. drawn < MaxTokens
  BY <1>1, <1>5 DEF LoopInv
<1>8. /\ new \in Tokens /\ new \in Nat /\ 0 \in Tokens /\ new = drawn + 1
  BY <1>6, <1>7 DEF Tokens
<1>9. r \in ReplyType /\ r.token <= new
  BY <1>8 DEF ReplyType
<1>10. /\ g \in Purged /\ g.token = m.token /\ g \in sessions
       /\ \A s \in sessions : s.token = m.token => s = g
  BY <1>1, <1>5, GetFacts DEF Purged
<1>11. /\ g.sid \in 1 .. drawn /\ g.created = started[g.sid] /\ g.sid = loop.sid
  BY <1>1, <1>5, <1>10 DEF NothingForeseen, TableInv, LoopInv
<1>12. /\ x.token = new /\ x.sid = g.sid /\ x.created = g.created /\ x.used = g.used
       /\ T \subseteq SessionType /\ IsFiniteSet(T)
       /\ Cardinality(T) \in Nat /\ Cardinality(T) = Cardinality(Purged)
       /\ \A s \in Without(Purged, m.token) :
            s \in sessions /\ s.token # m.token /\ s.token # new
       /\ \A s, z \in T : s # z => s.token # z.token
  BY <1>1, <1>2, <1>3, <1>5, <1>7, RotateFacts
<1> HIDE DEF m, g, new, r
<1>13. sessions' \subseteq T
  BY <1>5 DEF Without
<1>14. IsFiniteSet(sessions') /\ Cardinality(sessions') <= limit
  <2>1. /\ IsFiniteSet(sessions') /\ Cardinality(sessions') <= Cardinality(T)
        /\ Cardinality(sessions') \in Nat
    BY <1>12, <1>13, FS_Subset, FS_CardinalityType
  <2>2. Cardinality(T) <= limit
    BY <1>1, <1>12, PurgedFacts
  <2> QED BY <1>6, <1>12, <2>1, <2>2
<1>15. \A s \in T : s = x \/ (s \in sessions /\ s.token # m.token /\ s.token # new)
  BY <1>3, <1>12
<1>16. SessionsBounded'
  BY <1>5, <1>12, <1>13, <1>14 DEF SessionsBounded
<1>17. \A s \in sessions' : s.token \in 1 .. new /\ s.sid \in 1 .. new
  <2>1. \A i \in 1 .. drawn : i \in 1 .. new
    BY <1>6, <1>8
  <2>2. new \in 1 .. new
    BY <1>6, <1>8
  <2> QED BY <1>1, <1>11, <1>12, <1>13, <1>15, <2>1, <2>2 DEF NothingForeseen
<1>18. \A s \in sessions' : s.created = started'[s.sid]
  BY <1>1, <1>5, <1>11, <1>12, <1>13, <1>15 DEF TableInv
<1>19. lst = 0 \/ \E s \in T : s.token = lst
  <2>1. CASE last = m.token
    <3>1. lst = new
      BY <1>4, <2>1 DEF LastAfter
    <3> QED BY <1>3, <1>12, <3>1
  <2>2. CASE last # m.token
    <3>1. lst = LastIn(Purged)
      BY <1>4, <2>2 DEF LastAfter
    <3>2. CASE Has(Purged, last)
      <4>1. PICK s \in Purged : s.token = last
        BY <3>2 DEF Has
      <4>2. s \in T
        BY <1>3, <2>2, <4>1 DEF Without
      <4> QED BY <3>1, <3>2, <4>1, <4>2 DEF LastIn
    <3>3. CASE ~Has(Purged, last)
      BY <3>1, <3>3 DEF LastIn
    <3> QED BY <3>2, <3>3
  <2> QED BY <2>1, <2>2
<1>20. last' = 0 \/ \E s \in sessions' : s.token = last'
  <2>1. CASE m.kind = "logout"
    <3>1. sessions' = Without(T, ActiveToken(T))
          /\ last' = IF lst = ActiveToken(T) THEN 0 ELSE lst
      BY <1>5, <2>1
    <3> QED BY <1>19, <3>1 DEF Without
  <2>2. CASE m.kind # "logout"
    BY <1>5, <1>19, <2>2
  <2> QED BY <2>1, <2>2
<1>21. LastTokenIsLive'
  BY <1>20 DEF LastTokenIsLive, Live
<1>22. last' \in 0 .. new
  <2>1. \A i \in 1 .. new : i \in 0 .. new
    BY <1>8
  <2>2. 0 \in 0 .. new
    BY <1>8
  <2> QED BY <1>17, <1>20, <2>1, <2>2
<1>23. ended' \subseteq 1 .. new
  <2>1. \A i \in 1 .. drawn : i \in 1 .. new
    BY <1>6, <1>8
  <2>2. ended' \subseteq ended \cup {loop.sid}
    BY <1>5
  <2> QED BY <1>1, <1>11, <2>1, <2>2 DEF SessionTypes
<1>24. reply' \in [Callers -> {<<>>} \cup {<<y>> : y \in ReplyType}]
  BY <1>1, <1>5, <1>6, <1>9, AnswerFacts
<1>25. SessionTypes'
  <2>1. held' \in [Callers -> 0 .. new] /\ mine' \in [Callers -> 0 .. new]
    <3>1. 0 .. drawn \subseteq 0 .. new
      BY <1>6, <1>8
    <3>2. held \in [Callers -> 0 .. drawn] /\ mine \in [Callers -> 0 .. drawn]
      BY <1>1 DEF SessionTypes
    <3> QED BY <1>5, <3>1, <3>2
  <2> QED BY <1>1, <1>5, <1>8, <1>12, <1>13, <1>14, <1>22, <1>23, <1>24, <2>1 DEF SessionTypes
<1>26. \A c \in Callers : reply'[c] # <<>> => reply'[c][1].token <= new
  <2>1. drawn <= new
    BY <1>6, <1>8
  <2> QED BY <1>1, <1>5, <1>6, <1>8, <1>9, <2>1, RepliesKnown
<1>27. \A k \in Afoot' : k.token <= new
  <2>1. Afoot' \subseteq Afoot
    BY <1>5 DEF Afoot
  <2>2. \A k \in Afoot : k.token \in Nat /\ k.token <= drawn
    BY <1>1, AfootFacts DEF NothingForeseen
  <2>3. \A k \in Afoot : k.token <= new
    BY <1>6, <1>8, <2>2
  <2> QED BY <2>1, <2>3
<1>28. \A t \in Tokens : t > new => uses'[t] = 0
  <2>1. \A t \in Tokens : t \in Nat
    BY <1>6 DEF Tokens
  <2>2. \A t \in Tokens : t > new => t > drawn
    BY <1>6, <1>8, <2>1
  <2> QED BY <1>1, <1>5, <2>2 DEF NothingForeseen
<1>29. NothingForeseen'
  BY <1>5, <1>17, <1>26, <1>27, <1>28 DEF NothingForeseen
<1>30. \A s \in sessions' : uses'[s.token] = 0
  <2>1. uses[new] = 0
    <3>1. new > drawn
      BY <1>6, <1>8
    <3> QED BY <1>1, <1>8, <3>1 DEF NothingForeseen
  <2>2. \A s \in sessions : s.token # m.token => uses[s.token] = 0
    BY <1>1 DEF TableInv, m
  <2> QED BY <1>5, <1>12, <1>13, <1>15, <2>1, <2>2
<1>31. TokenUsedOnce'
  BY <1>1, <1>5 DEF TableInv, TokenUsedOnce
<1>32. LoneLogoutEndsIt'
  <2> SUFFICES ASSUME limit = 1 PROVE \A s \in sessions' : s.sid \notin ended'
    BY <1>5 DEF LoneLogoutEndsIt
  <2>1. CASE m.kind = "logout"
    <3>1. IsFiniteSet(Purged) /\ Cardinality(Purged) \in Nat /\ Cardinality(Purged) <= 1
      BY <1>1, PurgedFacts
    <3>2. IsFiniteSet(Purged \ {g}) /\ Cardinality(Purged \ {g}) = Cardinality(Purged) - 1
          /\ Cardinality(Purged \ {g}) \in Nat
      BY <1>10, <3>1, FS_RemoveElement, FS_CardinalityType
    <3>3. Cardinality(Purged \ {g}) = 0
      BY <3>1, <3>2
    <3>4. Purged \ {g} = {}
      BY <3>2, <3>3, FS_EmptySet
    <3>5. Without(Purged, m.token) = {}
      BY <1>10, <3>4 DEF Without
    <3>6. T = {x}
      BY <1>3, <3>5
    <3>7. ~Expired(x)
      <4>1. ~Expired(g)
        BY <1>10 DEF Purged
      <4> QED BY <1>12, <4>1 DEF Expired
    <3>8. ActiveToken(T) = x.token
      BY <1>8, <1>12, <3>6, <3>7, LoneActive
    <3>9. sessions' = {}
      BY <1>5, <2>1, <3>6, <3>8 DEF Without
    <3> QED BY <3>9
  <2>2. CASE m.kind # "logout"
    <3>1. \A s \in sessions : s.sid \notin ended
      BY <1>1 DEF TableInv, LoneLogoutEndsIt
    <3> QED BY <1>5, <1>10, <1>12, <1>13, <1>15, <2>2, <3>1
  <2> QED BY <2>1, <2>2
<1>33. LoopInv'
  BY <1>5 DEF LoopInv
<1> QED BY <1>16, <1>18, <1>21, <1>25, <1>29, <1>30, <1>31, <1>32, <1>33 DEF TableInv

LEMMA FinishExpiredKeepsTable ==
  ASSUME SessionInv, FinishExpired
  PROVE  SessionTypes' /\ NothingForeseen' /\ TableInv' /\ LoopInv'
<1>1. SessionTypes /\ NothingForeseen /\ TableInv /\ SessionsBounded /\ LoopInv
  BY DEF SessionInv, TableInv
<1> DEFINE m == loop.request
           r == [ok |-> TRUE, token |-> 0]
<1>2. PICK gone : gone = IF m.kind = "logout" THEN ActiveToken(Purged) ELSE 0
  OBVIOUS
<1>3. /\ loop # None /\ ~Has(Purged, m.token)
      /\ sessions' = Without(Purged, gone)
      /\ last' = IF LastIn(Purged) = gone THEN 0 ELSE LastIn(Purged)
      /\ ended' = IF m.kind = "logout" THEN ended \cup {loop.sid} ELSE ended
      /\ Answer(m, r)
      /\ loop' = None
      /\ limit' = limit /\ drawn' = drawn /\ now' = now /\ wire' = wire
      /\ pc' = pc /\ held' = held
      /\ lost' = lost /\ mine' = mine /\ started' = started /\ uses' = uses
  BY <1>2 DEF FinishExpired, tokens, client
<1>4. /\ m \in RequestType /\ m.token \in Nat /\ loop.sid \in Tokens
      /\ drawn \in Nat /\ MaxTokens \in Nat /\ limit \in Nat /\ r \in ReplyType /\ r.token <= drawn
  BY <1>1, <1>3, AfootFacts, TableNumbers, SessionConstants DEF ReplyType, Tokens
<1>5. PICK own \in sessions : own.token = m.token /\ own.sid = loop.sid
  BY <1>1, <1>3 DEF LoopInv
<1> HIDE DEF m, r
<1>6. sessions' \subseteq Purged /\ Purged \subseteq sessions
  BY <1>3 DEF Without, Purged
<1>7. \A s \in Purged : s.token # m.token
  BY <1>3 DEF Has
<1>8. Shrinks
  BY <1>1, <1>6, SubsetShrinks
<1>9. /\ SessionsBounded'
      /\ \A s \in sessions' : s.created = started'[s.sid]
      /\ \A s \in sessions' : s.token \in 1 .. drawn' /\ s.sid \in 1 .. drawn'
  BY <1>1, <1>3, <1>8, ShrinksKeeps
<1>10. reply' \in [Callers -> {<<>>} \cup {<<x>> : x \in ReplyType}]
  BY <1>1, <1>3, <1>4, AnswerFacts
<1>11. last' \in 0 .. drawn
  BY <1>1, <1>3, <1>4 DEF SessionTypes, LastIn
<1>12. ended' \subseteq 1 .. drawn
  <2>1. own.sid \in 1 .. drawn
    BY <1>1 DEF NothingForeseen
  <2> QED BY <1>1, <1>3, <1>5, <2>1 DEF SessionTypes
<1>13. SessionTypes'
  BY <1>1, <1>3, <1>8, <1>10, <1>11, <1>12 DEF SessionTypes, Shrinks
<1>14. Afoot' \subseteq Afoot
  BY <1>3 DEF Afoot
<1>15. \A c \in Callers : reply'[c] # <<>> => reply'[c][1].token <= drawn
  BY <1>1, <1>3, <1>4, RepliesKnown
<1>16. NothingForeseen'
  BY <1>1, <1>3, <1>9, <1>14, <1>15 DEF NothingForeseen
<1>17. LastTokenIsLive'
  BY <1>3 DEF LastTokenIsLive, LastIn, Has, Live, Without
<1>18. \A s \in sessions' : uses'[s.token] = 0
  BY <1>1, <1>3, <1>6, <1>7 DEF TableInv, m
<1>19. TokenUsedOnce'
  BY <1>1, <1>3 DEF TableInv, TokenUsedOnce
<1>20. LoneLogoutEndsIt'
  <2> SUFFICES ASSUME limit = 1 PROVE sessions' = {}
    BY <1>3 DEF LoneLogoutEndsIt
  <2>1. IsFiniteSet(sessions) /\ Cardinality(sessions) \in Nat /\ Cardinality(sessions) <= 1
    BY <1>1, FS_CardinalityType DEF SessionTypes, SessionsBounded
  <2>2. IsFiniteSet(sessions \ {own}) /\ Cardinality(sessions \ {own}) = Cardinality(sessions) - 1
        /\ Cardinality(sessions \ {own}) \in Nat
    BY <1>5, <2>1, FS_RemoveElement, FS_CardinalityType
  <2>3. Cardinality(sessions \ {own}) = 0
    BY <2>1, <2>2
  <2>4. sessions \ {own} = {}
    BY <2>2, <2>3, FS_EmptySet
  <2> QED BY <1>5, <1>6, <1>7, <2>4
<1>21. LoopInv'
  BY <1>3 DEF LoopInv
<1> QED BY <1>9, <1>13, <1>16, <1>17, <1>18, <1>19, <1>20, <1>21 DEF TableInv

\* min() over a table that is not empty.
LEMMA OldestExists ==
  ASSUME NEW S \in SUBSET SessionType, S # {}
  PROVE  Oldest(S) \in S
<1>1. \A s \in S : s.created \in Nat /\ s.token \in Nat
  <2>1. \A t \in Tokens : t \in Nat
    BY SessionConstants DEF Tokens
  <2> QED BY <2>1 DEF SessionType
<1>2. {s.created : s \in S} \in SUBSET Nat /\ {s.created : s \in S} # {}
  BY <1>1
<1>3. PICK a \in {s.created : s \in S} : \A b \in {s.created : s \in S} : a <= b
  BY <1>2, LeastNat
<1>4. {s.token : s \in {z \in S : z.created = a}} \in SUBSET Nat
      /\ {s.token : s \in {z \in S : z.created = a}} # {}
  BY <1>1, <1>3
<1>5. PICK k \in {s.token : s \in {z \in S : z.created = a}} :
        \A j \in {s.token : s \in {z \in S : z.created = a}} : k <= j
  BY <1>4, LeastNat
<1>6. PICK s \in S : s.created = a /\ s.token = k
  BY <1>5
<1>7. ASSUME NEW z \in S
      PROVE  s.created < z.created \/ (s.created = z.created /\ s.token <= z.token)
  <2>1. a <= z.created /\ a \in Nat /\ z.created \in Nat
    BY <1>1, <1>3, <1>6
  <2>2. CASE z.created = a
    BY <1>5, <1>6, <2>2
  <2>3. CASE z.created # a
    BY <1>6, <2>1, <2>3
  <2> QED BY <2>2, <2>3
<1>8. \E y \in S : \A z \in S :
        y.created < z.created \/ (y.created = z.created /\ y.token <= z.token)
  BY <1>7
<1> QED BY <1>8 DEF Oldest

\* start() makes room for one.
LEMMA MakeRoomFacts ==
  ASSUME SessionTypes, SessionsBounded, NEW S, S = MakeRoom(Purged)
  PROVE  S \subseteq Purged /\ IsFiniteSet(S) /\ Cardinality(S) \in Nat /\ Cardinality(S) < limit
<1>1. /\ Purged \subseteq sessions /\ IsFiniteSet(Purged) /\ Purged \subseteq SessionType
      /\ Cardinality(Purged) \in Nat /\ Cardinality(Purged) <= limit
      /\ limit \in Nat /\ limit >= 1
  BY PurgedFacts, TableNumbers DEF SessionTypes
<1>2. CASE Cardinality(Purged) >= limit
  <2>1. S = Purged \ {Oldest(Purged)}
    BY <1>2 DEF MakeRoom
  <2>2. Purged # {}
    BY <1>1, <1>2, FS_EmptySet
  <2>3. Oldest(Purged) \in Purged
    BY <1>1, <2>2, OldestExists
  <2>4. IsFiniteSet(S) /\ Cardinality(S) = Cardinality(Purged) - 1 /\ Cardinality(S) \in Nat
    BY <1>1, <2>1, <2>3, FS_RemoveElement, FS_CardinalityType
  <2>5. Cardinality(S) < limit
    BY <1>1, <2>4
  <2> QED BY <2>1, <2>4, <2>5
<1>3. CASE ~(Cardinality(Purged) >= limit)
  <2>1. S = Purged
    BY <1>3 DEF MakeRoom
  <2>2. Cardinality(Purged) < limit
    BY <1>1, <1>3
  <2> QED BY <1>1, <2>1, <2>2
<1> QED BY <1>2, <1>3

\* What a login does to the table.
LEMMA LoginFacts ==
  ASSUME SessionInv, NEW c \in Callers, Login(c)
  PROVE  \E S \in SUBSET Purged : \E x \in SessionType :
           /\ sessions' = S \cup {x} /\ x \notin S
           /\ IsFiniteSet(S) /\ Cardinality(S) \in Nat /\ Cardinality(S) < limit
           /\ x.token = drawn + 1 /\ x.sid = drawn + 1 /\ x.created = now
           /\ \A s \in S : s \in sessions /\ s.token # drawn + 1 /\ s.sid # drawn + 1
<1>1. SessionTypes /\ NothingForeseen /\ SessionsBounded
  BY DEF SessionInv, TableInv
<1>2. PICK S : S = MakeRoom(Purged)
  OBVIOUS
<1>3. PICK x : x = [token |-> drawn + 1, sid |-> drawn + 1, created |-> now, used |-> now]
  OBVIOUS
<1>4. sessions' = S \cup {x} /\ drawn < MaxTokens
  BY <1>2, <1>3 DEF Login, Start
<1>5. S \subseteq Purged /\ IsFiniteSet(S) /\ Cardinality(S) \in Nat /\ Cardinality(S) < limit
  BY <1>1, <1>2, MakeRoomFacts
<1>6. drawn \in Nat /\ MaxTokens \in Nat /\ now \in Nat /\ drawn + 1 \in Tokens
  <2>1. drawn \in Nat /\ MaxTokens \in Nat /\ now \in Nat
    BY <1>1, TableNumbers
  <2> QED BY <1>4, <2>1 DEF Tokens
<1>7. x \in SessionType
  BY <1>3, <1>6 DEF SessionType
<1>8. x.token = drawn + 1 /\ x.sid = drawn + 1 /\ x.created = now
  BY <1>3
<1>9. \A s \in S : s \in sessions /\ s.token # drawn + 1 /\ s.sid # drawn + 1
  <2>1. \A s \in sessions : s.token \in 1 .. drawn /\ s.sid \in 1 .. drawn
    BY <1>1 DEF NothingForeseen
  <2>2. S \subseteq sessions
    BY <1>5 DEF Purged
  <2> QED BY <1>6, <2>1, <2>2
<1>10. x \notin S
  BY <1>8, <1>9
<1> QED BY <1>4, <1>5, <1>7, <1>8, <1>9, <1>10

LEMMA LoginKeepsTable ==
  ASSUME SessionInv, NEW c \in Callers, Login(c)
  PROVE  SessionTypes' /\ NothingForeseen' /\ TableInv' /\ LoopInv'
<1>1. SessionTypes /\ NothingForeseen /\ TableInv /\ SessionsBounded
  BY DEF SessionInv, TableInv
<1>2. PICK n : n = drawn + 1
  OBVIOUS
<1>3. /\ loop = None /\ loop' = None /\ drawn < MaxTokens
      /\ drawn' = n /\ last' = n
      /\ mine' = [mine EXCEPT ![c] = n]
      /\ started' = [started EXCEPT ![n] = now]
      /\ held' = [held EXCEPT ![c] = n] \/ held' = [held EXCEPT ![c] = 0]
      /\ limit' = limit /\ now' = now /\ wire' = wire /\ reply' = reply
      /\ pc' = pc /\ uses' = uses /\ ended' = ended
  BY <1>2 DEF Login, Start, network
<1>4. /\ drawn \in Nat /\ MaxTokens \in Nat /\ limit \in Nat /\ limit >= 1 /\ now \in Nat
  BY <1>1, TableNumbers
<1>5. n \in Nat /\ n > drawn /\ n = drawn + 1 /\ n \in Tokens /\ n \in 1 .. n /\ n \in 0 .. n /\ 0 \in 0 .. n
  BY <1>2, <1>3, <1>4 DEF Tokens
<1>6. 0 .. drawn \subseteq 0 .. n /\ 1 .. drawn \subseteq 1 .. n
  BY <1>4, <1>5
<1>7. PICK S \in SUBSET Purged : \E x \in SessionType :
           /\ sessions' = S \cup {x} /\ x \notin S
           /\ IsFiniteSet(S) /\ Cardinality(S) \in Nat /\ Cardinality(S) < limit
           /\ x.token = n /\ x.sid = n /\ x.created = now
           /\ \A s \in S : s \in sessions /\ s.token # n /\ s.sid # n
  BY <1>2, LoginFacts
<1>8. PICK x \in SessionType :
           /\ sessions' = S \cup {x} /\ x \notin S
           /\ IsFiniteSet(S) /\ Cardinality(S) \in Nat /\ Cardinality(S) < limit
           /\ x.token = n /\ x.sid = n /\ x.created = now
           /\ \A s \in S : s \in sessions /\ s.token # n /\ s.sid # n
  BY <1>7
<1>9. IsFiniteSet(sessions') /\ Cardinality(sessions') <= limit
  <2>1. IsFiniteSet(S \cup {x}) /\ Cardinality(S \cup {x}) = Cardinality(S) + 1
    BY <1>8, FS_AddElement
  <2> QED BY <1>4, <1>8, <2>1
<1>10. SessionsBounded'
  <2>1. \A s, r \in sessions' : s # r => s.token # r.token
    BY <1>1, <1>8 DEF SessionsBounded
  <2> QED BY <1>3, <1>9, <2>1 DEF SessionsBounded
<1>11. \A s \in sessions' : s.token \in 1 .. n /\ s.sid \in 1 .. n
  BY <1>1, <1>5, <1>6, <1>8 DEF NothingForeseen
<1>12. sessions' \subseteq SessionType
  BY <1>1, <1>8 DEF SessionTypes
<1>13. /\ held' \in [Callers -> 0 .. n] /\ mine' \in [Callers -> 0 .. n]
  <2>1. held \in [Callers -> 0 .. n] /\ mine \in [Callers -> 0 .. n]
    BY <1>1, <1>6 DEF SessionTypes
  <2> QED BY <1>3, <1>5, <2>1
<1>14. /\ started' \in [Tokens -> Nat]
       /\ started'[n] = now
       /\ \A t \in Tokens \ {n} : started'[t] = started[t]
  BY <1>1, <1>3, <1>4, <1>5 DEF SessionTypes
<1>15. SessionTypes'
  BY <1>1, <1>3, <1>5, <1>6, <1>9, <1>12, <1>13, <1>14 DEF SessionTypes
<1>16. \A k \in Afoot' : k.token <= n
  <2>1. Afoot' = Afoot
    BY <1>3 DEF Afoot
  <2>2. \A k \in Afoot : k.token \in Nat /\ k.token <= drawn
    BY <1>1, AfootFacts DEF NothingForeseen
  <2>3. \A k \in Afoot : k.token <= n
    BY <1>4, <1>5, <2>2
  <2> QED BY <2>1, <2>3
<1>17. \A d \in Callers : reply'[d] # <<>> => reply'[d][1].token <= n
  <2> SUFFICES ASSUME NEW d \in Callers, reply[d] # <<>> PROVE reply[d][1].token <= n
    BY <1>3
  <2>1. reply[d] \in {<<>>} \cup {<<y>> : y \in ReplyType}
    BY <1>1 DEF SessionTypes
  <2>2. PICK y \in ReplyType : reply[d] = <<y>>
    BY <2>1
  <2>3. y.token \in Nat
    BY <1>4 DEF ReplyType, Tokens
  <2>4. y.token <= drawn
    BY <1>1, <2>2 DEF NothingForeseen
  <2>5. y.token <= n
    BY <1>4, <1>5, <2>3, <2>4
  <2> QED BY <2>2, <2>5
<1>18. \A t \in Tokens : t > n => uses'[t] = 0
  <2>1. \A t \in Tokens : t \in Nat
    BY <1>4 DEF Tokens
  <2>2. \A t \in Tokens : t > n => t > drawn
    BY <1>4, <1>5, <2>1
  <2> QED BY <1>1, <1>3, <2>2 DEF NothingForeseen
<1>19. NothingForeseen'
  BY <1>3, <1>11, <1>16, <1>17, <1>18 DEF NothingForeseen
<1>20. \A s \in sessions' : s.created = started'[s.sid]
  <2>1. \A s \in S : s.sid \in Tokens /\ s.created = started[s.sid]
    BY <1>1, <1>8, TableNumbers DEF TableInv
  <2> QED BY <1>8, <1>14, <2>1
<1>21. LastTokenIsLive'
  BY <1>3, <1>8 DEF LastTokenIsLive, Live
<1>22. \A s \in sessions' : uses'[s.token] = 0
  <2>1. uses[n] = 0
    BY <1>1, <1>5 DEF NothingForeseen
  <2> QED BY <1>1, <1>3, <1>8, <2>1 DEF TableInv
<1>23. TokenUsedOnce'
  BY <1>1, <1>3 DEF TableInv, TokenUsedOnce
<1>24. LoneLogoutEndsIt'
  <2>1. n \notin ended
    BY <1>1, <1>4, <1>5 DEF SessionTypes
  <2> QED BY <1>1, <1>3, <1>8, <2>1 DEF TableInv, LoneLogoutEndsIt
<1>25. LoopInv'
  BY <1>3 DEF LoopInv
<1> QED BY <1>10, <1>15, <1>19, <1>20, <1>21, <1>22, <1>23, <1>24, <1>25 DEF TableInv

\* What such a step does to what the clients see.
Seen ==
  /\ now' \in 0 .. LastTime /\ wire' \subseteq RequestType
  /\ pc' \in [Callers -> {"ready"} \cup Kinds]
  /\ held' \in [Callers -> 0 .. drawn]
  /\ reply' \in [Callers -> {<<>>} \cup {<<x>> : x \in ReplyType}]
  /\ \A k \in Afoot' : k.token <= drawn
  /\ \A d \in Callers : reply'[d] # <<>> => reply'[d] = reply[d]

\* The clients, the network and the clock leave the table alone.
LEMMA OthersKeepTable ==
  ASSUME SessionInv,
         \/ \E c \in Callers : \/ LoginRefused(c) \/ Receive(c) \/ GiveUp(c)
                               \/ \E kind \in Kinds : Send(c, kind)
         \/ SessionTick
         \/ UNCHANGED sessionVars
  PROVE  SessionTypes' /\ NothingForeseen' /\ TableInv' /\ LoopInv'
<1>1. SessionTypes /\ NothingForeseen /\ TableInv /\ LoopInv
  BY DEF SessionInv
<1>2. /\ sessions' = sessions /\ limit' = limit /\ last' = last /\ drawn' = drawn
      /\ loop' = loop /\ mine' = mine /\ started' = started /\ uses' = uses /\ ended' = ended
  BY DEF LoginRefused, Receive, GiveUp, Send, SessionTick, sessionVars, store, network, client, history
<1>3. TableInv'
  BY <1>1, <1>2 DEF TableInv, SessionsBounded, LastTokenIsLive, Live, TokenUsedOnce, LoneLogoutEndsIt
<1>4. LoopInv'
  BY <1>1, <1>2 DEF LoopInv
<1>5. \A d \in Callers : reply[d] # <<>> =>
        reply[d][1] \in ReplyType /\ reply[d][1].token \in 0 .. drawn
  <2> SUFFICES ASSUME NEW d \in Callers, reply[d] # <<>>
               PROVE  reply[d][1] \in ReplyType /\ reply[d][1].token \in 0 .. drawn
    OBVIOUS
  <2>1. reply[d] \in {<<>>} \cup {<<y>> : y \in ReplyType}
    BY <1>1 DEF SessionTypes
  <2>2. PICK y \in ReplyType : reply[d] = <<y>>
    BY <2>1
  <2>3. y.token \in Nat /\ drawn \in Nat
    BY <1>1, TableNumbers DEF ReplyType, Tokens
  <2>4. y.token <= drawn
    BY <1>1, <2>2 DEF NothingForeseen
  <2>5. y.token \in 0 .. drawn
    BY <2>3, <2>4
  <2> QED BY <2>2, <2>5
<1>6. Seen
  <2>1. CASE \E c \in Callers : LoginRefused(c)
    BY <1>1, <2>1 DEF Seen, LoginRefused, sessionVars, network, client, SessionTypes, NothingForeseen, Afoot
  <2>2. CASE SessionTick
    <3>1. now' \in 0 .. LastTime
      BY <1>1, <2>2, TableNumbers DEF SessionTick, SessionTypes
    <3> QED BY <1>1, <2>2, <3>1 DEF Seen, SessionTick, network, client, SessionTypes, NothingForeseen, Afoot
  <2>3. CASE UNCHANGED sessionVars
    BY <1>1, <2>3 DEF Seen, sessionVars, network, client, SessionTypes, NothingForeseen, Afoot
  <2>4. ASSUME NEW c \in Callers, GiveUp(c)
        PROVE  Seen
    BY <1>1, <2>4 DEF Seen, GiveUp, SessionTypes, NothingForeseen, Afoot
  <2>5. ASSUME NEW c \in Callers, Receive(c)
        PROVE  Seen
    BY <1>1, <1>5, <2>5 DEF Seen, Receive, SessionTypes, NothingForeseen, Afoot
  <2>6. ASSUME NEW c \in Callers, NEW kind \in Kinds, Send(c, kind)
        PROVE  Seen
    <3> DEFINE k == [client |-> c, token |-> held[c], kind |-> kind]
    <3>1. held[c] \in 0 .. drawn /\ drawn \in Nat /\ drawn <= MaxTokens /\ MaxTokens \in Nat
      BY <1>1, TableNumbers DEF SessionTypes
    <3>2. held[c] \in Tokens /\ held[c] <= drawn
      BY <3>1 DEF Tokens
    <3>3. k \in RequestType /\ k.token <= drawn
      BY <3>2 DEF RequestType
    <3>4. wire' = wire \cup {k}
      BY <2>6 DEF Send
    <3> HIDE DEF k
    <3>5. \A j \in Afoot' : j.token <= drawn
      BY <1>1, <1>2, <3>3, <3>4 DEF NothingForeseen, Afoot
    <3>6. wire' \subseteq RequestType
      BY <1>1, <3>3, <3>4 DEF SessionTypes
    <3> QED BY <1>1, <2>6, <3>5, <3>6 DEF Seen, Send, SessionTypes
  <2> QED BY <2>1, <2>2, <2>3, <2>4, <2>5, <2>6
<1>7. SessionTypes'
  BY <1>1, <1>2, <1>6 DEF SessionTypes, Seen
<1>8. NothingForeseen'
  BY <1>1, <1>2, <1>6 DEF NothingForeseen, Seen
<1> QED BY <1>3, <1>4, <1>7, <1>8

\* Nothing the client sees has changed.
LEMMA UnseenKeepsUp ==
  ASSUME NEW c \in Callers, NEW t, KeepsUp(c, t),
         Afoot' \subseteq Afoot, UNCHANGED <<reply, client>>
  PROVE  KeepsUp(c, t)'
BY DEF KeepsUp, client

\* An answer to a request with another token, that carries another token.
LEMMA AnswerOther ==
  ASSUME SessionTypes, NEW c \in Callers, NEW t, KeepsUp(c, t),
         NEW m \in RequestType, NEW r \in ReplyType, Answer(m, r),
         m.token # t, r.token # t,
         Afoot' \subseteq Afoot, UNCHANGED client
  PROVE  KeepsUp(c, t)'
<1>1. pc' = pc /\ held' = held
  BY DEF client
<1>2. m.kind # "ready"
  BY DEF RequestType, Kinds
<1>3. \A d \in Callers :
        \/ reply'[d] = reply[d]
        \/ /\ d = m.client /\ reply'[d] # <<>> /\ reply'[d][1].token = r.token
           /\ pc[d] = m.kind /\ held[d] = m.token /\ reply[d] = <<>>
  BY AnswerFacts
<1>4. reply'[c] = reply[c]
  <2> SUFFICES ASSUME pc[c] = m.kind, held[c] = m.token, reply[c] = <<>> PROVE FALSE
    BY <1>3
  <2>1. held[c] = t
    BY <1>2 DEF KeepsUp
  <2> QED BY <2>1
<1>5. \A d \in Callers \ {c} : held[d] # t /\ (reply'[d] # <<>> => reply'[d][1].token # t)
  BY <1>3 DEF KeepsUp
<1> QED BY <1>1, <1>4, <1>5 DEF KeepsUp

LEMMA ScrapeKeepsUp ==
  ASSUME SessionInv, NEW m \in wire, Scrape(m), NEW c \in Callers, NEW t, KeepsUp(c, t)
  PROVE  KeepsUp(c, t)'
<1> DEFINE r == [ok |-> TRUE, token |-> m.token]
<1>1. /\ SessionTypes /\ Answer(m, r) /\ UNCHANGED client /\ Afoot' \subseteq Afoot
      /\ m \in RequestType /\ m \in Afoot /\ m.token \in Tokens /\ m.kind = "scrape"
  BY AfootFacts DEF SessionInv, Scrape, Arrive, Afoot
<1>2. r \in ReplyType /\ r.token = m.token
  BY <1>1 DEF ReplyType
<1> HIDE DEF r
<1>3. CASE m.token # t
  BY <1>1, <1>2, <1>3, AnswerOther
<1>4. CASE m.token = t
  <2>1. m.client = c
    BY <1>1, <1>4 DEF KeepsUp
  <2>2. \A d \in Callers \ {c} : reply'[d] = reply[d]
    BY <1>1, <1>2, <2>1, AnswerFacts
  <2>3. \/ reply'[c] = reply[c]
        \/ /\ reply'[c] # <<>> /\ reply'[c][1].token = t
           /\ pc[c] = "scrape" /\ reply[c] = <<>>
    BY <1>1, <1>2, <1>4, AnswerFacts
  <2>4. \A k \in Afoot' : k.token = t =>
           k.client = c /\ (k.kind # "scrape" => (pc[c] = k.kind /\ reply'[c] = <<>>))
    BY <1>1, <2>3 DEF KeepsUp
  <2>5. pc' = pc /\ held' = held
    BY <1>1 DEF client
  <2> QED BY <2>2, <2>3, <2>4, <2>5 DEF KeepsUp
<1> QED BY <1>3, <1>4

\* What the others know was drawn before.
LEMMA NewTokenUnknown ==
  ASSUME SessionTypes, NothingForeseen
  PROVE  /\ \A k \in Afoot : k.token # drawn + 1
         /\ \A d \in Callers : /\ held[d] # drawn + 1 /\ mine[d] # drawn + 1
                               /\ reply[d] # <<>> => reply[d][1].token # drawn + 1
<1>1. drawn \in Nat
  BY TableNumbers
<1>2. \A k \in Afoot : k.token \in Nat /\ k.token <= drawn
  BY AfootFacts DEF NothingForeseen
<1>3. \A d \in Callers : held[d] \in 0 .. drawn /\ mine[d] \in 0 .. drawn
  BY DEF SessionTypes
<1>4. ASSUME NEW d \in Callers, reply[d] # <<>>
      PROVE  reply[d][1].token # drawn + 1
  <2>1. reply[d] \in {<<>>} \cup {<<y>> : y \in ReplyType}
    BY DEF SessionTypes
  <2>2. PICK y \in ReplyType : reply[d] = <<y>>
    BY <1>4, <2>1
  <2>3. y.token \in Nat
    BY SessionConstants DEF ReplyType, Tokens
  <2>4. y.token <= drawn
    BY <1>4, <2>2 DEF NothingForeseen
  <2>5. y.token # drawn + 1
    BY <1>1, <2>3, <2>4
  <2> QED BY <2>2, <2>5
<1>5. \A k \in Afoot : k.token # drawn + 1
  BY <1>1, <1>2
<1>6. \A d \in Callers : held[d] # drawn + 1 /\ mine[d] # drawn + 1
  BY <1>1, <1>3
<1> QED BY <1>4, <1>5, <1>6

LEMMA FinishKeepsClients ==
  ASSUME SessionInv, Finish
  PROVE  ClientInv'
<1>1. /\ SessionTypes /\ NothingForeseen /\ TableInv /\ SessionsBounded /\ LoopInv /\ ClientInv
  BY DEF SessionInv, TableInv
<1> DEFINE m == loop.request
           g == Get(Purged, m.token)
           r == [ok |-> TRUE, token |-> IF m.kind = "logout" THEN 0 ELSE drawn + 1]
<1>2. PICK x : x = Rotated(g, drawn + 1)
  OBVIOUS
<1>3. PICK T : T = Without(Purged, m.token) \cup {x}
  OBVIOUS
<1>4. /\ loop # None /\ Has(Purged, m.token)
      /\ sessions' \subseteq T
      /\ Answer(m, r)
      /\ loop' = None /\ wire' = wire
      /\ UNCHANGED client /\ lost' = lost /\ mine' = mine
  BY <1>2, <1>3 DEF Finish, LogoutToken, NewToken, Without
<1>5. /\ m \in RequestType /\ m \in Afoot /\ m.kind # "scrape" /\ m.kind # "ready"
      /\ drawn \in Nat /\ MaxTokens \in Nat /\ drawn < MaxTokens
  BY <1>1, <1>4, AfootFacts, TableNumbers DEF LoopInv, Kinds
<1>6. r \in ReplyType /\ (r.token = 0 \/ r.token = drawn + 1)
  BY <1>5 DEF ReplyType, Tokens
<1>7. g \in sessions /\ g.token = m.token
  BY <1>1, <1>4, GetFacts DEF Purged
<1>8. /\ x.token = drawn + 1 /\ x.sid = g.sid
      /\ \A s \in Without(Purged, m.token) :
           s \in sessions /\ s.token # m.token /\ s.token # drawn + 1
  BY <1>1, <1>2, <1>3, <1>4, <1>5, RotateFacts
<1>9. Afoot' \subseteq Afoot
  BY <1>4 DEF Afoot
<1> HIDE DEF m, g, r
<1> SUFFICES ASSUME NEW c \in Callers \ lost, NEW s \in T, s.sid = mine[c]
             PROVE  KeepsUp(c, s.token)'
  BY <1>4 DEF ClientInv
<1>10. CASE s = x
  <2>1. KeepsUp(c, m.token)
    BY <1>1, <1>7, <1>8, <1>10 DEF ClientInv
  <2>2. m.client = c /\ pc[c] = m.kind /\ reply[c] = <<>> /\ held[c] = m.token
    BY <1>5, <2>1 DEF KeepsUp
  <2>3. reply'[c] = <<r>> /\ <<r>> # <<>> /\ <<r>>[1].token = r.token
        /\ \A d \in Callers \ {c} : reply'[d] = reply[d]
    BY <1>1, <1>4, <1>5, <1>6, <2>2, AnswerFacts
  <2>4. PICK n : n = drawn + 1
    OBVIOUS
  <2>5. /\ \A k \in Afoot' : k.token # n
        /\ \A d \in Callers \ {c} : held[d] # n /\ (reply[d] # <<>> => reply[d][1].token # n)
    BY <1>1, <1>9, <2>4, NewTokenUnknown
  <2>6. pc' = pc /\ held' = held
    BY <1>4 DEF client
  <2>7. KeepsUp(c, n)'
    BY <1>5, <1>6, <2>2, <2>3, <2>4, <2>5, <2>6 DEF KeepsUp
  <2> QED BY <1>8, <1>10, <2>4, <2>7
<1>11. CASE s # x
  <2>1. s \in sessions /\ s.token # m.token /\ s.token # drawn + 1
    BY <1>3, <1>8, <1>11
  <2>2. KeepsUp(c, s.token) /\ s.token # 0
    <3>1. s.token \in 1 .. drawn
      BY <1>1, <2>1 DEF NothingForeseen
    <3> QED BY <1>1, <1>5, <2>1, <3>1 DEF ClientInv
  <2> QED BY <1>1, <1>4, <1>5, <1>6, <1>9, <2>1, <2>2, AnswerOther
<1> QED BY <1>10, <1>11

\* The handlers that leave the clients waiting: nothing but the answer changes.
LEMMA HandlersKeepClients ==
  ASSUME SessionInv,
         \/ \E m \in wire : Reject(m) \/ Scrape(m) \/ Validate(m)
         \/ FinishExpired
  PROVE  ClientInv'
<1>1. /\ SessionTypes /\ NothingForeseen /\ SessionsBounded /\ ClientInv /\ LoopInv
  BY DEF SessionInv, TableInv
<1>2. \A s \in sessions : s.token # 0
  <2>1. drawn \in Nat /\ \A s \in sessions : s.token \in 1 .. drawn
    BY <1>1, TableNumbers DEF NothingForeseen
  <2> QED BY <2>1
<1>3. NoReply \in ReplyType /\ NoReply.token = 0
  BY SessionConstants DEF NoReply, ReplyType, Tokens
<1>4. ASSUME NEW m \in wire, Reject(m)
      PROVE  ClientInv'
  <2>1. /\ sessions' = Purged /\ Answer(m, NoReply) /\ ~Has(Purged, m.token)
        /\ UNCHANGED client /\ lost' = lost /\ mine' = mine /\ Afoot' \subseteq Afoot
        /\ m \in RequestType
    BY <1>1, <1>4, AfootFacts DEF Reject, Arrive, Afoot, history
  <2> SUFFICES ASSUME NEW c \in Callers \ lost, NEW s \in Purged, s.sid = mine[c]
               PROVE  KeepsUp(c, s.token)'
    BY <2>1 DEF ClientInv
  <2>2. s \in sessions /\ m.token # s.token /\ s.token # 0
    BY <1>2, <2>1 DEF Purged, Has
  <2>3. KeepsUp(c, s.token)
    BY <1>1, <2>2 DEF ClientInv
  <2> QED BY <1>1, <1>3, <2>1, <2>2, <2>3, AnswerOther
<1>5. ASSUME FinishExpired
      PROVE  ClientInv'
  <2> DEFINE m == loop.request
             r == [ok |-> TRUE, token |-> 0]
  <2>1. /\ sessions' \subseteq Purged /\ Answer(m, r) /\ ~Has(Purged, m.token)
        /\ UNCHANGED client /\ lost' = lost /\ mine' = mine /\ Afoot' \subseteq Afoot
        /\ m \in RequestType
    BY <1>1, <1>5, AfootFacts DEF FinishExpired, Afoot, Without
  <2>2. r \in ReplyType /\ r.token = 0
    BY SessionConstants DEF ReplyType, Tokens
  <2> HIDE DEF m, r
  <2> SUFFICES ASSUME NEW c \in Callers \ lost, NEW s \in Purged, s.sid = mine[c]
               PROVE  KeepsUp(c, s.token)'
    BY <2>1 DEF ClientInv
  <2>3. s \in sessions /\ m.token # s.token /\ s.token # 0
    BY <1>2, <2>1 DEF Purged, Has
  <2>4. KeepsUp(c, s.token)
    BY <1>1, <2>3 DEF ClientInv
  <2> QED BY <1>1, <2>1, <2>2, <2>3, <2>4, AnswerOther
<1>6. ASSUME NEW m \in wire, Scrape(m)
      PROVE  ClientInv'
  <2>1. Shrinks /\ lost' = lost /\ mine' = mine
    BY <1>1, <1>6, TouchShrinks DEF Scrape, history
  <2> SUFFICES ASSUME NEW c \in Callers \ lost, NEW s \in sessions', s.sid = mine[c]
               PROVE  KeepsUp(c, s.token)'
    BY <2>1 DEF ClientInv
  <2>2. PICK z \in sessions : s.token = z.token /\ s.sid = z.sid
    BY <2>1 DEF Shrinks
  <2>3. KeepsUp(c, s.token)
    BY <1>1, <2>2 DEF ClientInv
  <2> QED BY <1>6, <2>3, ScrapeKeepsUp
<1>7. ASSUME NEW m \in wire, Validate(m)
      PROVE  ClientInv'
  <2>1. /\ Shrinks /\ lost' = lost /\ mine' = mine
        /\ loop = None /\ loop'.request = m /\ wire' \subseteq wire
        /\ UNCHANGED <<reply, client>>
    BY <1>1, <1>7, TouchShrinks DEF Validate, Arrive
  <2>2. Afoot' \subseteq Afoot
    BY <2>1 DEF Afoot
  <2> SUFFICES ASSUME NEW c \in Callers \ lost, NEW s \in sessions', s.sid = mine[c]
               PROVE  KeepsUp(c, s.token)'
    BY <2>1 DEF ClientInv
  <2>3. PICK z \in sessions : s.token = z.token /\ s.sid = z.sid
    BY <2>1 DEF Shrinks
  <2>4. KeepsUp(c, s.token)
    BY <1>1, <2>3 DEF ClientInv
  <2> QED BY <2>1, <2>2, <2>4, UnseenKeepsUp
<1> QED BY <1>4, <1>5, <1>6, <1>7

LEMMA LoginKeepsClients ==
  ASSUME SessionInv, NEW c \in Callers, Login(c)
  PROVE  ClientInv'
<1>1. /\ SessionTypes /\ NothingForeseen /\ ClientInv
  BY DEF SessionInv
<1>2. PICK n : n = drawn + 1
  OBVIOUS
<1>3. /\ pc[c] = "ready" /\ pc' = pc /\ reply' = reply /\ Afoot' = Afoot
      /\ mine' = [mine EXCEPT ![c] = n]
      /\ \/ held' = [held EXCEPT ![c] = n] /\ lost' = lost \ {c}
         \/ held' = [held EXCEPT ![c] = 0] /\ lost' = lost \cup {c}
  BY <1>2 DEF Login, Start, network, Afoot
<1>4. /\ \A k \in Afoot : k.token # n
      /\ \A d \in Callers : /\ held[d] # n /\ mine[d] # n
                            /\ reply[d] # <<>> => reply[d][1].token # n
  BY <1>1, <1>2, NewTokenUnknown
<1>5. held \in [Callers -> 0 .. drawn] /\ mine \in [Callers -> 0 .. drawn]
  BY <1>1 DEF SessionTypes
<1>6. /\ \A d \in Callers \ {c} : held'[d] = held[d] /\ mine'[d] = mine[d]
      /\ mine'[c] = n
      /\ (held'[c] = n /\ lost' = lost \ {c}) \/ (held'[c] = 0 /\ lost' = lost \cup {c})
  BY <1>3, <1>5
<1>7. \A s \in sessions' : \/ s.sid = n /\ s.token = n
                           \/ s \in sessions /\ s.token # n /\ s.sid # n
  BY <1>1, <1>2, LoginFacts
<1>8. \A s \in sessions : s.token # 0
  <2>1. drawn \in Nat /\ \A s \in sessions : s.token \in 1 .. drawn
    BY <1>1, TableNumbers DEF NothingForeseen
  <2> QED BY <2>1
<1> SUFFICES ASSUME NEW d \in Callers \ lost', NEW s \in sessions', s.sid = mine'[d]
             PROVE  KeepsUp(d, s.token)'
  BY DEF ClientInv
<1>9. CASE d = c
  <2>1. s.token = n /\ held'[c] = n
    BY <1>6, <1>7, <1>9
  <2>2. \A e \in Callers \ {c} : held'[e] # n /\ (reply'[e] # <<>> => reply'[e][1].token # n)
    BY <1>3, <1>4, <1>6
  <2>3. KeepsUp(c, n)'
    BY <1>3, <1>4, <2>1, <2>2 DEF KeepsUp
  <2> QED BY <1>9, <2>1, <2>3
<1>10. CASE d # c
  <2>1. d \in Callers \ lost /\ s.sid = mine[d] /\ s.sid # n
    BY <1>4, <1>6, <1>10
  <2>2. s \in sessions /\ s.token # n /\ s.token # 0
    BY <1>7, <1>8, <2>1
  <2>3. KeepsUp(d, s.token)
    BY <1>1, <2>1, <2>2 DEF ClientInv
  <2>4. PICK t : t = s.token
    OBVIOUS
  <2>5. \A e \in Callers \ {d} : held'[e] # t
    BY <1>6, <2>2, <2>3, <2>4 DEF KeepsUp
  <2>6. held'[d] = held[d]
    BY <1>6, <1>10
  <2>7. KeepsUp(d, t)'
    BY <1>3, <2>3, <2>4, <2>5, <2>6 DEF KeepsUp
  <2> QED BY <2>4, <2>7
<1> QED BY <1>9, <1>10

LEMMA ClientsKeepClients ==
  ASSUME SessionInv,
         \/ \E c \in Callers : \/ LoginRefused(c) \/ Receive(c) \/ GiveUp(c)
                               \/ \E kind \in Kinds : Send(c, kind)
         \/ SessionTick
         \/ UNCHANGED sessionVars
  PROVE  ClientInv'
<1>1. SessionTypes /\ ClientInv
  BY DEF SessionInv
<1>2. sessions' = sessions /\ mine' = mine /\ lost \subseteq lost'
  BY DEF LoginRefused, Receive, GiveUp, Send, SessionTick, sessionVars, store, history
<1> SUFFICES ASSUME NEW d \in Callers \ lost', NEW s \in sessions, s.sid = mine[d]
             PROVE  KeepsUp(d, s.token)'
  BY <1>2 DEF ClientInv
<1>3. PICK t : t = s.token
  OBVIOUS
<1>4. KeepsUp(d, t)
  BY <1>1, <1>2, <1>3 DEF ClientInv
<1>5. /\ held \in [Callers -> 0 .. drawn] /\ pc \in [Callers -> {"ready"} \cup Kinds]
      /\ reply \in [Callers -> {<<>>} \cup {<<x>> : x \in ReplyType}]
      /\ \A k \in Afoot : k.kind # "ready"
  BY <1>1, AfootFacts DEF SessionTypes, Kinds
<1>6. CASE (\E c \in Callers : LoginRefused(c)) \/ SessionTick \/ UNCHANGED sessionVars
  <2>1. UNCHANGED <<reply, client>> /\ Afoot' = Afoot
    BY <1>6 DEF LoginRefused, SessionTick, sessionVars, network, Afoot
  <2>2. KeepsUp(d, t)'
    BY <1>4, <2>1, UnseenKeepsUp
  <2> QED BY <1>3, <2>2
<1>7. ASSUME NEW c \in Callers, GiveUp(c)
      PROVE  KeepsUp(d, s.token)'
  <2>1. /\ d # c /\ held' = held /\ Afoot' = Afoot
        /\ pc'[d] = pc[d] /\ reply'[d] = reply[d]
        /\ \A e \in Callers : reply'[e] = reply[e] \/ reply'[e] = <<>>
    BY <1>5, <1>7 DEF GiveUp, Afoot
  <2>2. KeepsUp(d, t)'
    BY <1>4, <2>1 DEF KeepsUp
  <2> QED BY <1>3, <2>2
<1>8. ASSUME NEW c \in Callers, Receive(c)
      PROVE  KeepsUp(d, s.token)'
  <2>1. /\ pc[c] # "ready" /\ reply[c] # <<>> /\ Afoot' = Afoot
        /\ pc'[c] = "ready" /\ reply'[c] = <<>> /\ held'[c] = reply[c][1].token
        /\ \A e \in Callers \ {c} : pc'[e] = pc[e] /\ held'[e] = held[e] /\ reply'[e] = reply[e]
    BY <1>5, <1>8 DEF Receive, Afoot
  <2>2. CASE c = d
    <3>1. held'[d] = 0 \/ held'[d] = t
      BY <1>4, <2>1, <2>2 DEF KeepsUp
    <3>2. \A k \in Afoot' : k.token = t => (k.client = d /\ k.kind = "scrape")
      BY <1>4, <2>1, <2>2 DEF KeepsUp
    <3>3. \A e \in Callers \ {d} :
            held'[e] # t /\ (reply'[e] # <<>> => reply'[e][1].token # t)
      BY <1>4, <2>1, <2>2 DEF KeepsUp
    <3>4. KeepsUp(d, t)'
      BY <2>1, <2>2, <3>1, <3>2, <3>3 DEF KeepsUp
    <3> QED BY <1>3, <3>4
  <2>3. CASE c # d
    <3>1. /\ pc'[d] = pc[d] /\ held'[d] = held[d] /\ reply'[d] = reply[d]
          /\ \A e \in Callers \ {d} :
               held'[e] # t /\ (reply'[e] # <<>> => reply'[e][1].token # t)
      BY <1>4, <2>1, <2>3 DEF KeepsUp
    <3>2. KeepsUp(d, t)'
      BY <1>4, <2>1, <3>1 DEF KeepsUp
    <3> QED BY <1>3, <3>2
  <2> QED BY <2>2, <2>3
<1>9. ASSUME NEW c \in Callers, NEW kind \in Kinds, Send(c, kind)
      PROVE  KeepsUp(d, s.token)'
  <2> DEFINE k == [client |-> c, token |-> held[c], kind |-> kind]
  <2>1. /\ pc[c] = "ready" /\ held[c] # 0 /\ held' = held /\ kind # "ready"
        /\ pc'[c] = kind /\ reply'[c] = <<>>
        /\ \A e \in Callers \ {c} : pc'[e] = pc[e] /\ reply'[e] = reply[e]
        /\ Afoot' = Afoot \cup {k}
        /\ k.client = c /\ k.token = held[c] /\ k.kind = kind
    BY <1>5, <1>9 DEF Send, Afoot, Kinds
  <2> HIDE DEF k
  <2>2. CASE c = d
    <3>1. held[d] = t
      BY <1>4, <2>1, <2>2 DEF KeepsUp
    <3>2. \A j \in Afoot : j.token = t => (j.client = d /\ j.kind = "scrape")
      BY <1>4, <1>5, <2>1, <2>2 DEF KeepsUp
    <3>3. \A e \in Callers \ {d} :
            held'[e] # t /\ (reply'[e] # <<>> => reply'[e][1].token # t)
      BY <1>4, <2>1, <2>2 DEF KeepsUp
    <3>4. KeepsUp(d, t)'
      BY <2>1, <2>2, <3>1, <3>2, <3>3 DEF KeepsUp
    <3> QED BY <1>3, <3>4
  <2>3. CASE c # d
    <3>1. k.token # t
      BY <1>4, <2>1, <2>3 DEF KeepsUp
    <3>2. \A e \in Callers \ {d} :
            held'[e] # t /\ (reply'[e] # <<>> => reply'[e][1].token # t)
      BY <1>4, <2>1, <2>3 DEF KeepsUp
    <3>3. \A j \in Afoot' : j.token = t => j \in Afoot
      BY <2>1, <3>1
    <3>4. KeepsUp(d, t)'
      BY <1>4, <2>1, <2>3, <3>2, <3>3 DEF KeepsUp
    <3> QED BY <1>3, <3>4
  <2> QED BY <2>2, <2>3
<1> QED BY <1>6, <1>7, <1>8, <1>9

LEMMA SessionStart ==
  ASSUME SessionInit
  PROVE  SessionInv
<1>1. MaxTokens \in Nat /\ 0 \in Tokens /\ LastTime \in Nat /\ Capacities \subseteq Nat \ {0}
  BY SessionConstants DEF Tokens
<1>2. IsFiniteSet({}) /\ Cardinality({}) = 0
  BY FS_EmptySet
<1>3. SessionTypes
  BY <1>1, <1>2 DEF SessionInit, SessionTypes, Tokens
<1>4. NothingForeseen
  BY DEF SessionInit, NothingForeseen, Afoot
<1>5. TableInv
  BY <1>1, <1>2 DEF SessionInit, TableInv, SessionsBounded, LastTokenIsLive, TokenUsedOnce,
                    LoneLogoutEndsIt
<1> QED BY <1>3, <1>4, <1>5 DEF SessionInv, LoopInv, ClientInv, SessionInit

LEMMA SessionStep ==
  ASSUME SessionInv, [SessionNext]_sessionVars
  PROVE  SessionInv'
<1>1. CASE \E c \in Callers : Login(c)
  BY <1>1, LoginKeepsTable, LoginKeepsClients DEF SessionInv
<1>2. CASE \/ \E m \in wire : Reject(m) \/ Scrape(m) \/ Validate(m)
           \/ FinishExpired
  BY <1>2, RejectKeepsTable, ScrapeKeepsTable, ValidateKeepsTable, FinishExpiredKeepsTable,
     HandlersKeepClients DEF SessionInv
<1>3. CASE Finish
  BY <1>3, FinishKeepsTable, FinishKeepsClients DEF SessionInv
<1>4. CASE \/ \E c \in Callers : \/ LoginRefused(c) \/ Receive(c) \/ GiveUp(c)
                                 \/ \E kind \in Kinds : Send(c, kind)
           \/ SessionTick
           \/ UNCHANGED sessionVars
  BY <1>4, OthersKeepTable, ClientsKeepClients DEF SessionInv
<1> QED BY <1>1, <1>2, <1>3, <1>4 DEF SessionNext

\* Whatever clients, network and time do, the table, the request being handled
\* and what the clients hold fit together.
THEOREM SessionInvariance == SessionSpec => []SessionInv
<1>1. SessionInit => SessionInv
  BY SessionStart
<1>2. SessionInv /\ [SessionNext]_sessionVars => SessionInv'
  BY SessionStep
<1> QED BY <1>1, <1>2, PTL DEF SessionSpec

\* SessionManager and main.py: every variable keeps its type.
THEOREM SessionTypeCorrect == SessionSpec => []SessionTypeOK
<1>1. SessionInv => SessionTypeOK
  <2> SUFFICES ASSUME SessionInv PROVE SessionTypeOK
    OBVIOUS
  <2>1. SessionTypes /\ NothingForeseen
    BY DEF SessionInv
  <2>2. drawn \in Nat /\ MaxTokens \in Nat /\ drawn <= MaxTokens
    BY <2>1, TableNumbers
  <2>3. 0 .. drawn \subseteq Tokens
    BY <2>2 DEF Tokens
  <2>4. held \in [Callers -> Tokens] /\ last \in Tokens /\ last <= drawn
    <3>1. held \in [Callers -> 0 .. drawn] /\ last \in 0 .. drawn
      BY <2>1 DEF SessionTypes
    <3> QED BY <2>2, <2>3, <3>1
  <2>5. Live \subseteq 1 .. drawn
    BY <2>1 DEF NothingForeseen, Live
  <2> QED BY <2>1, <2>4, <2>5 DEF SessionTypes, SessionTypeOK
<1> QED BY <1>1, SessionInvariance, PTL

\* rotate(), _purge_expired() and start(): a rotated session lives no longer than
\* MAX_LIFETIME after its login, there are never more sessions than allowed nor two
\* with one token, and is_active() answers for one that is there.
THEOREM SessionsAlwaysInBounds == SessionSpec => []SessionsStayInBounds
<1>1. SessionInv => SessionsStayInBounds
  BY DEF SessionInv, TableInv, LoopInv, SessionsStayInBounds, LifetimeNotExtended
<1> QED BY <1>1, SessionInvariance, PTL

\* logout() with ONTO_MAX_SESSIONS at 1: the session whose logout was answered is gone.
THEOREM LoneLogoutAlwaysEndsIt == SessionSpec => []LoneLogoutEndsIt
<1>1. SessionInv => LoneLogoutEndsIt
  BY DEF SessionInv, TableInv
<1> QED BY <1>1, SessionInvariance, PTL

\* rotate(): no token lets two requests in, delivered twice or sent again.
THEOREM TokensUsedOnce == SessionSpec => []TokenUsedOnce
<1>1. SessionInv => TokenUsedOnce
  BY DEF SessionInv, TableInv
<1> QED BY <1>1, SessionInvariance, PTL

\* X-Session-Token: a client that missed no answer holds the current token of the
\* session it logged in to.
THEOREM ClientsAlwaysKeepUp == SessionSpec => []ClientKeepsUp
<1>1. SessionInv => ClientKeepsUp
  BY DEF SessionInv, ClientInv, KeepsUp, ClientKeepsUp
<1> QED BY <1>1, SessionInvariance, PTL
===============================================================================
