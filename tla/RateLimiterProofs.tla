------------------------- MODULE RateLimiterProofs -------------------------
(***************************************************************************)
(* The rate limiter, for any clients, bucket sizes and table limits.       *)
(***************************************************************************)
EXTENDS RateLimiter, FiniteSetTheorems, TLAPS

\* What is in the bucket of ip, or would be if it asked.
Level(ip) == IF limiters[ip] = Untracked THEN Full ELSE limiters[ip]

\* The program's bucket is behind a bucket of the client's own by at most the
\* tokens of the requests it has let through beyond it.
Backed == \A ip \in IPs : lead[ip] >= 0 /\ ideal[ip] <= Level(ip) + Unit * lead[ip]

LInv == LimiterTypeOK /\ TableBounded /\ Backed

-----------------------------------------------------------------------------
(* Arithmetic.                                                             *)

\* A full bucket has a token and is a natural number of units.
LEMMA FullIsNat == Full \in Nat /\ Full >= Unit /\ Unit \in Nat /\ Unit > 0
<1>1. burst \in Nat /\ burst >= 1 /\ Unit \in Nat /\ Unit > 0
  BY RateLimiterAssumption
<1>2. ASSUME NEW u \in Nat, NEW b \in Nat, b >= 1 PROVE u * b \in Nat /\ u * b >= u
  BY <1>2, SMT
<1> QED
  BY <1>1, <1>2 DEF Full

\* What a number of requests is worth in units.
LEMMA Worth ==
  ASSUME NEW n \in Int
  PROVE  /\ Unit * n \in Int
         /\ Unit * (n + 1) = Unit * n + Unit
         /\ Unit * (n - 1) = Unit * n - Unit
         /\ n >= 0 => Unit * n >= 0
         /\ n = 0 => Unit * n = 0
<1>1. Unit \in Nat
  BY RateLimiterAssumption
<1>2. ASSUME NEW u \in Nat
      PROVE  /\ u * n \in Int
             /\ u * (n + 1) = u * n + u
             /\ u * (n - 1) = u * n - u
             /\ n >= 0 => u * n >= 0
             /\ n = 0 => u * n = 0
  BY SMT
<1> QED
  BY <1>1, <1>2

\* One request, of a bucket with b units and an own bucket with d units, when n
\* requests were let through beyond the own bucket.
LEMMA OneRequest ==
  ASSUME NEW b \in 0..Full, NEW d \in 0..Full, NEW n \in Int,
         n >= 0, d <= b + Unit * n
  PROVE  /\ Taken(b) \in 0..Full /\ Taken(d) \in 0..Full
         /\ n + Passed(b) - Passed(d) \in Int
         /\ n + Passed(b) - Passed(d) >= 0
         /\ Taken(d) <= Taken(b) + Unit * (n + Passed(b) - Passed(d))
<1> USE FullIsNat, Worth DEF Taken, Passed, Allows
<1>1. CASE (b >= Unit) = (d >= Unit)
  <2>1. n + Passed(b) - Passed(d) = n
    BY <1>1
  <2> QED
    BY <1>1, <2>1
<1>2. CASE b >= Unit /\ ~(d >= Unit)
  <2>1. n + Passed(b) - Passed(d) = n + 1
    BY <1>2
  <2> QED
    BY <1>2, <2>1
<1>3. CASE ~(b >= Unit) /\ d >= Unit
  <2>1. n + Passed(b) - Passed(d) = n - 1
    BY <1>3
  <2>2. n >= 1
    BY <1>3
  <2> QED
    BY <1>3, <2>1, <2>2
<1> QED
  BY <1>1, <1>2, <1>3

-----------------------------------------------------------------------------
(* The table.                                                              *)

\* The table allow looks into has no fewer units for anybody than the one before.
LEMMA TableForgives ==
  ASSUME LimiterTypeOK
  PROVE  /\ Table \in [IPs -> 0..Full \cup {Untracked}]
         /\ \A ip \in IPs :
              /\ Bucket(ip) \in 0..Full
              /\ Bucket(ip) >= Level(ip)
              /\ Table[ip] # Untracked => Table[ip] = limiters[ip]
<1>1. Full \in Nat /\ Untracked = -1
  BY FullIsNat DEF Untracked
<1>2. \/ Table = [ip \in IPs |-> Untracked]
      \/ Table = limiters
  BY DEF Table
<1> QED
  BY <1>1, <1>2 DEF Bucket, Level, LimiterTypeOK

\* And it has room for one entry more.
LEMMA TableHasRoom ==
  ASSUME LimiterTypeOK
  PROVE  /\ IsFiniteSet(TrackedIPs(Table))
         /\ Cardinality(TrackedIPs(Table)) <= maxTrackedIPs
<1>1. IsFiniteSet(IPs) /\ maxTrackedIPs \in Nat
  BY RateLimiterAssumption
<1>2. TrackedIPs(Table) \subseteq IPs /\ TrackedIPs(limiters) \subseteq IPs
  BY DEF TrackedIPs
<1>3. IsFiniteSet(TrackedIPs(Table)) /\ IsFiniteSet(TrackedIPs(limiters))
  BY <1>1, <1>2, FS_Subset
<1>4. CASE Cardinality(TrackedIPs(limiters)) > maxTrackedIPs
  <2>1. TrackedIPs(Table) = {}
    BY <1>4 DEF Table, TrackedIPs
  <2> QED
    BY <1>1, <1>3, <2>1, FS_EmptySet
<1>5. CASE ~(Cardinality(TrackedIPs(limiters)) > maxTrackedIPs)
  <2>1. Table = limiters
    BY <1>5 DEF Table
  <2>2. Cardinality(TrackedIPs(limiters)) \in Nat
    BY <1>3, FS_CardinalityType
  <2> QED
    BY <1>1, <1>3, <1>5, <2>1, <2>2
<1> QED
  BY <1>4, <1>5

-----------------------------------------------------------------------------
(* The invariant.                                                          *)

\* A new limiter satisfies the invariant.
LEMMA LimiterStarts == LimiterInit => LInv
<1> SUFFICES ASSUME LimiterInit PROVE LInv
  OBVIOUS
<1>1. LimiterTypeOK
  BY FullIsNat DEF LimiterInit, LimiterTypeOK
<1>2. TableBounded
  <2>1. TrackedIPs(limiters) = {}
    BY DEF LimiterInit, TrackedIPs
  <2> QED
    BY <2>1, FS_EmptySet, RateLimiterAssumption DEF TableBounded
<1>3. Backed
  <2> SUFFICES ASSUME NEW ip \in IPs
               PROVE  lead[ip] >= 0 /\ ideal[ip] <= Level(ip) + Unit * lead[ip]
    BY DEF Backed
  <2>1. lead[ip] = 0 /\ ideal[ip] = Full /\ Level(ip) = Full
    BY DEF LimiterInit, Level
  <2> QED
    BY <2>1, FullIsNat, Worth
<1> QED
  BY <1>1, <1>2, <1>3 DEF LInv

\* allow preserves the invariant.
LEMMA AllowPreserves == ASSUME LInv, NEW ip \in IPs, allow(ip) PROVE LInv'
<1>1. LimiterTypeOK /\ TableBounded /\ Backed
  BY DEF LInv
<1>2. /\ Table \in [IPs -> 0..Full \cup {Untracked}]
      /\ \A jp \in IPs : /\ Bucket(jp) \in 0..Full
                         /\ Bucket(jp) >= Level(jp)
                         /\ Table[jp] # Untracked => Table[jp] = limiters[jp]
  BY <1>1, TableForgives
<1>3. /\ limiters' = [Table EXCEPT ![ip] = Taken(Bucket(ip))]
      /\ ideal' = [ideal EXCEPT ![ip] = Taken(ideal[ip])]
      /\ lead' = [lead EXCEPT ![ip] = lead[ip] + Passed(Bucket(ip)) - Passed(ideal[ip])]
  BY DEF allow
<1>4. \A jp \in IPs : /\ ideal[jp] \in 0..Full /\ lead[jp] \in Int
                      /\ lead[jp] >= 0 /\ ideal[jp] <= Level(jp) + Unit * lead[jp]
                      /\ Level(jp) \in 0..Full
  BY <1>1, FullIsNat DEF LimiterTypeOK, Backed, Level
<1>5. ideal[ip] <= Bucket(ip) + Unit * lead[ip]
  BY <1>2, <1>4, Worth, FullIsNat
<1>6. /\ Taken(Bucket(ip)) \in 0..Full /\ Taken(ideal[ip]) \in 0..Full
      /\ lead[ip] + Passed(Bucket(ip)) - Passed(ideal[ip]) \in Int
      /\ lead[ip] + Passed(Bucket(ip)) - Passed(ideal[ip]) >= 0
      /\ Taken(ideal[ip]) <= Taken(Bucket(ip))
           + Unit * (lead[ip] + Passed(Bucket(ip)) - Passed(ideal[ip]))
  BY <1>2, <1>4, <1>5, OneRequest
<1>7. LimiterTypeOK'
  BY <1>1, <1>2, <1>3, <1>6 DEF LimiterTypeOK
<1>8. TableBounded'
  <2>1. IsFiniteSet(TrackedIPs(Table)) /\ Cardinality(TrackedIPs(Table)) <= maxTrackedIPs
    BY <1>1, TableHasRoom
  <2>2. TrackedIPs(limiters') \subseteq TrackedIPs(Table) \cup {ip}
    BY <1>2, <1>3 DEF TrackedIPs
  <2>3. /\ IsFiniteSet(TrackedIPs(Table) \cup {ip})
        /\ Cardinality(TrackedIPs(Table) \cup {ip}) <= maxTrackedIPs + 1
    <3>1. /\ IsFiniteSet(TrackedIPs(Table) \cup {ip})
          /\ \/ Cardinality(TrackedIPs(Table) \cup {ip}) = Cardinality(TrackedIPs(Table))
             \/ Cardinality(TrackedIPs(Table) \cup {ip}) = Cardinality(TrackedIPs(Table)) + 1
      BY <2>1, FS_AddElement, Zenon
    <3>2. Cardinality(TrackedIPs(Table)) \in Nat
      BY <2>1, FS_CardinalityType, Zenon
    <3> QED
      BY <2>1, <3>1, <3>2, RateLimiterAssumption
  <2>4. /\ IsFiniteSet(TrackedIPs(limiters'))
        /\ Cardinality(TrackedIPs(limiters')) <= Cardinality(TrackedIPs(Table) \cup {ip})
    BY <2>2, <2>3, FS_Subset
  <2>5. /\ Cardinality(TrackedIPs(limiters')) \in Nat
        /\ Cardinality(TrackedIPs(Table) \cup {ip}) \in Nat
    BY <2>3, <2>4, FS_CardinalityType
  <2>6. Cardinality(TrackedIPs(limiters')) <= maxTrackedIPs + 1
    BY <2>3, <2>4, <2>5, RateLimiterAssumption
  <2> QED
    BY <2>6 DEF TableBounded, TrackedIPs
<1>9. Backed'
  <2> SUFFICES ASSUME NEW jp \in IPs
               PROVE  lead'[jp] >= 0 /\ ideal'[jp] <= Level(jp)' + Unit * lead'[jp]
    BY DEF Backed
  <2>1. CASE jp = ip
    <3>1. /\ limiters'[jp] = Taken(Bucket(ip))
          /\ ideal'[jp] = Taken(ideal[ip])
          /\ lead'[jp] = lead[ip] + Passed(Bucket(ip)) - Passed(ideal[ip])
      BY <1>1, <1>2, <1>3, <2>1 DEF LimiterTypeOK
    <3>2. Level(jp)' = Taken(Bucket(ip))
      BY <1>6, <3>1, FullIsNat DEF Level, Untracked
    <3> QED
      BY <1>6, <3>1, <3>2
  <2>2. CASE jp # ip
    <3>1. limiters'[jp] = Table[jp] /\ ideal'[jp] = ideal[jp] /\ lead'[jp] = lead[jp]
      BY <1>1, <1>2, <1>3, <2>2 DEF LimiterTypeOK
    <3>2. Level(jp)' = Bucket(jp)
      BY <3>1 DEF Level, Bucket
    <3> QED
      BY <1>2, <1>4, <3>1, <3>2, Worth, FullIsNat
  <2> QED
    BY <2>1, <2>2
<1> QED
  BY <1>7, <1>8, <1>9 DEF LInv

\* Time preserves the invariant: an own bucket never overtakes by refilling.
LEMMA RefillPreserves == ASSUME LInv, Refill PROVE LInv'
<1>1. LimiterTypeOK /\ TableBounded /\ Backed
  BY DEF LInv
<1>2. ASSUME NEW u \in 0..Full
      PROVE  Refilled(u) \in 0..Full /\ Refilled(u) >= u /\ Refilled(u) <= u + 1
             /\ (u < Full => Refilled(u) = u + 1)
  BY FullIsNat DEF Refilled
<1>3. \A ip \in IPs :
        /\ limiters'[ip] = IF limiters[ip] = Untracked THEN Untracked
                                                       ELSE Refilled(limiters[ip])
        /\ ideal'[ip] = Refilled(ideal[ip])
        /\ lead'[ip] = lead[ip]
  BY DEF Refill
<1>4. LimiterTypeOK'
  BY <1>1, <1>2 DEF LimiterTypeOK, Refill
<1>5. TableBounded'
  <2>1. TrackedIPs(limiters') = TrackedIPs(limiters)
    BY <1>1, <1>2, <1>3, FullIsNat DEF TrackedIPs, LimiterTypeOK, Untracked
  <2> QED
    BY <1>1, <2>1 DEF TableBounded
<1>6. Backed'
  <2> SUFFICES ASSUME NEW ip \in IPs
               PROVE  lead'[ip] >= 0 /\ ideal'[ip] <= Level(ip)' + Unit * lead'[ip]
    BY DEF Backed
  <2>1. /\ Level(ip) \in 0..Full /\ ideal[ip] \in 0..Full
        /\ lead[ip] \in Int /\ lead[ip] >= 0
        /\ ideal[ip] <= Level(ip) + Unit * lead[ip]
    BY <1>1, FullIsNat DEF LimiterTypeOK, Backed, Level
  <2>2. Level(ip)' = IF Level(ip) < Full THEN Level(ip) + 1 ELSE Full
    BY <1>1, <1>2, <1>3, FullIsNat DEF Level, LimiterTypeOK, Untracked, Refilled
  <2>3. ideal'[ip] \in 0..Full /\ ideal'[ip] <= ideal[ip] + 1 /\ lead'[ip] = lead[ip]
    BY <1>2, <1>3, <2>1
  <2>4. Unit * lead[ip] \in Int /\ Unit * lead[ip] >= 0
    BY <2>1, Worth
  <2> QED
    BY <2>1, <2>2, <2>3, <2>4, FullIsNat
<1> QED
  BY <1>4, <1>5, <1>6 DEF LInv

\* A step that leaves the limiter alone leaves the invariant alone.
LEMMA StutterPreserves == ASSUME LInv, UNCHANGED limiterVars PROVE LInv'
BY DEF LInv, LimiterTypeOK, TableBounded, Backed, TrackedIPs, Level, limiterVars

\* The limiter keeps its invariant.
LEMMA LimiterInvariant == LimiterSpec => []LInv
<1>1. LInv /\ [LimiterNext]_limiterVars => LInv'
  BY AllowPreserves, RefillPreserves, StutterPreserves DEF LimiterNext
<1> QED
  BY LimiterStarts, <1>1, PTL DEF LimiterSpec

-----------------------------------------------------------------------------
\* newIPRateLimiter, allow and the refill of the buckets keep every bucket
\* between empty and full.
THEOREM LimiterTypeCorrect == LimiterSpec => []LimiterTypeOK
<1>1. LInv => LimiterTypeOK
  BY DEF LInv
<1> QED
  BY LimiterInvariant, <1>1, PTL

\* allow counts the entries before it adds one and throws the table away when
\* there are too many: the table never has more than one above the limit.
THEOREM LimiterCapsMemory == LimiterSpec => []TableBounded
<1>1. LInv => TableBounded
  BY DEF LInv
<1> QED
  BY LimiterInvariant, <1>1, PTL

\* Throwing the table away only ever forgives: of any sequence of requests,
\* allow lets through at least as many as a bucket of the client's own would.
THEOREM ForgettingNeverBlocks == LimiterSpec => []OnlyForgives
<1>1. LInv => OnlyForgives
  BY DEF LInv, Backed, OnlyForgives
<1> QED
  BY LimiterInvariant, <1>1, PTL
=============================================================================
