----------------------------- MODULE TokenBucket -----------------------------
(***************************************************************************)
(* The Redis token bucket of internal/ratelimit/limiter.go: the two Lua    *)
(* scripts and the key's expiry, as operators on one bucket.  A bucket     *)
(* refills rate tokens per tick; the code's rate is cap per minute.        *)
(***************************************************************************)
EXTENDS Integers

\* A bucket key: absent (new, or expired), or a level t written at time ts.
NoBucket == [live |-> FALSE, t |-> 0, ts |-> 0]

Bucket == [live : BOOLEAN, t : Int, ts : Nat]

AtMost(cap, x) == IF x > cap THEN cap ELSE x

\* The level either script computes from the stored one, before it caps it.
Refilled(b, cap, rate, now) ==
  IF b.live THEN b.t + (now - b.ts) * rate ELSE cap

\* takeScript: the level compared with the cost, and the key it writes if it admits.
Level(b, cap, rate, now) == AtMost(cap, Refilled(b, cap, rate, now))

AfterTake(b, cap, rate, now, cost) ==
  [live |-> TRUE, t |-> Level(b, cap, rate, now) - cost, ts |-> now]

\* adjustScript: delta is added to the refilled level, and only the sum is capped.
AfterAdjust(b, cap, rate, now, delta) ==
  [live |-> TRUE, t |-> AtMost(cap, Refilled(b, cap, rate, now) + delta), ts |-> now]

\* Mutant of AfterExpiry: the key lives half as long.
AfterExpiryEarly(b, now, ttl) ==
  IF b.live /\ 2 * (now - b.ts) >= ttl THEN NoBucket ELSE b

\* PEXPIRE, set by both scripts: the key goes ttl ticks after it was last written.
AfterExpiry(b, now, ttl) == IF b.live /\ now >= b.ts + ttl THEN NoBucket ELSE b

=============================================================================
