---------------------------- MODULE RateLimiter ----------------------------
(***************************************************************************)
(* ipRateLimiter (internal/rest/middleware.go): a token bucket for every   *)
(* client IP, in a table that is thrown away when it has grown too large.  *)
(*                                                                         *)
(* A bucket of x/time/rate is counted in refill units, of which a token is *)
(* Unit: time adds one unit at a time, so that buckets hold fractions of a *)
(* token.  The mutex makes allow one step.                                 *)
(*                                                                         *)
(* ideal and lead are history: the bucket the client would have to itself  *)
(* if the table were never thrown away, and how many more requests were    *)
(* let through than that bucket would have let through.                    *)
(***************************************************************************)
EXTENDS Integers, FiniteSets

CONSTANTS IPs,             \* client addresses
          Unit,            \* refill units of one token
          burst,           \* tokens of a full bucket
          maxTrackedIPs,   \* 10,000 in the code
          MaxLead          \* bound on lead: only its increase stops there

ASSUME RateLimiterAssumption ==
  /\ IsFiniteSet(IPs)
  /\ Unit \in Nat \ {0} /\ burst \in Nat \ {0}
  /\ maxTrackedIPs \in Nat /\ MaxLead \in Nat

VARIABLES limiters,   \* limiters[ip]: units in the bucket of ip
          ideal,      \* ideal[ip]: units in a bucket of its own
          lead        \* lead[ip]: requests let through beyond its own

limiterVars == <<limiters, ideal, lead>>

Untracked == -1

Full == Unit * burst

TrackedIPs(l) == {ip \in IPs : l[ip] # Untracked}

-----------------------------------------------------------------------------
\* Mutant: the table is never thrown away.
KeptTable == limiters

\* The table allow looks into: a new one if there are too many entries.
Table ==
  IF Cardinality(TrackedIPs(limiters)) > maxTrackedIPs
    THEN [ip \in IPs |-> Untracked]
    ELSE limiters

\* Mutant: a bucket starts empty.
EmptyBucket(ip) == IF Table[ip] = Untracked THEN 0 ELSE Table[ip]

\* NewLimiter: a bucket starts full.
Bucket(ip) == IF Table[ip] = Untracked THEN Full ELSE Table[ip]

\* Limiter.Allow, of the program's bucket and of the ideal one.
Allows(units) == units >= Unit

Taken(units) == IF Allows(units) THEN units - Unit ELSE units

Passed(units) == IF Allows(units) THEN 1 ELSE 0

allow(ip) ==
  /\ lead[ip] + Passed(Bucket(ip)) - Passed(ideal[ip]) <= MaxLead   \* the bound
  /\ limiters' = [Table EXCEPT ![ip] = Taken(Bucket(ip))]
  /\ ideal' = [ideal EXCEPT ![ip] = Taken(@)]
  /\ lead' = [lead EXCEPT ![ip] = @ + Passed(Bucket(ip)) - Passed(ideal[ip])]

Refilled(units) == IF units < Full THEN units + 1 ELSE units

\* Time passes.
Refill ==
  /\ limiters' = [ip \in IPs |->
       IF limiters[ip] = Untracked THEN Untracked ELSE Refilled(limiters[ip])]
  /\ ideal' = [ip \in IPs |-> Refilled(ideal[ip])]
  /\ UNCHANGED lead

LimiterInit ==
  /\ limiters = [ip \in IPs |-> Untracked]
  /\ ideal = [ip \in IPs |-> Full]
  /\ lead = [ip \in IPs |-> 0]

LimiterNext == Refill \/ \E ip \in IPs : allow(ip)

LimiterSpec == LimiterInit /\ [][LimiterNext]_limiterVars

-----------------------------------------------------------------------------
\* Buckets are empty, full or in between.
LimiterTypeOK ==
  /\ limiters \in [IPs -> 0..Full \cup {Untracked}]
  /\ ideal \in [IPs -> 0..Full]
  /\ lead \in [IPs -> Int]

\* "It caps memory": the table never has more than one entry above the limit,
\* although an entry is added before anybody counts again.
TableBounded == Cardinality(TrackedIPs(limiters)) <= maxTrackedIPs + 1

\* "Only ever forgives, never blocks": whatever other clients make the limiter
\* forget, at every moment it has let through at least as many requests of a
\* client as a bucket of its own would have.
OnlyForgives == \A ip \in IPs : lead[ip] >= 0
=============================================================================
