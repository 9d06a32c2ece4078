------------------------------ MODULE TokenBucket ------------------------------
(***************************************************************************)
(* The shadow rate limiter: ratelimit.TokenBucket, shared by all requests  *)
(* of the process and called under its mutex.  The code counts tokens in   *)
(* float64; here they are counted in parts of 1/Scale token, and the clock *)
(* in ticks that refill Rate parts each.                                   *)
(***************************************************************************)
EXTENDS Integers, Sequences

CONSTANTS
  Rate,     \* shadow_rps: parts of a token per tick (0: no limit)
  Burst,    \* shadow_burst: tokens the bucket holds
  Scale,    \* parts of one token
  MaxTime   \* bound: the clock stops here

ASSUME BucketAssumption ==
  Rate \in Nat /\ Burst \in Nat /\ Scale \in Nat \ {0} /\ MaxTime \in Nat

VARIABLES
  clock,    \* time.Now
  last,     \* TokenBucket.last
  tokens,   \* TokenBucket.tokens
  admitted  \* history: when tokens were given out

bucketVars == <<clock, last, tokens, admitted>>

\* Mutant: an idle bucket fills without limit.
RefillUncapped == tokens + (clock - last) * Rate

\* The tokens once the time since the last call is credited.
Refill == LET filled == tokens + (clock - last) * Rate
          IN  IF filled > Burst * Scale THEN Burst * Scale ELSE filled

\* Allow with its answer.
Allow(answer) ==
  \/ Rate = 0 /\ answer /\ UNCHANGED bucketVars
  \/ /\ Rate > 0 /\ Refill >= Scale /\ answer
     /\ tokens' = Refill - Scale /\ last' = clock
     /\ admitted' = Append(admitted, clock)
     /\ UNCHANGED clock
  \/ /\ Rate > 0 /\ Refill < Scale /\ ~answer
     /\ tokens' = Refill /\ last' = clock
     /\ UNCHANGED <<clock, admitted>>

ClockTick == clock < MaxTime /\ clock' = clock + 1 /\ UNCHANGED <<last, tokens, admitted>>

BucketInit == clock = 0 /\ last = 0 /\ tokens = Burst * Scale /\ admitted = <<>>
BucketNext == (\E answer \in BOOLEAN : Allow(answer)) \/ ClockTick
BucketSpec == BucketInit /\ [][BucketNext]_bucketVars

BucketType ==
  /\ clock \in 0..MaxTime /\ last \in 0..clock /\ tokens \in 0..(Burst * Scale)
  /\ admitted \in Seq(0..clock)

\* Whatever the order of calls and however long the bucket was idle, the tokens
\* given out in any stretch of time are at most the burst and what the rate refills
\* in that stretch (TokenBucket.Allow, the cap included).
RateBound ==
  \A i, j \in DOMAIN admitted :
    i <= j => (j - i + 1) * Scale <= Burst * Scale + (admitted[j] - admitted[i]) * Rate
================================================================================
