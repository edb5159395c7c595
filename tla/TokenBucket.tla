----------------------------- MODULE TokenBucket -----------------------------
(***************************************************************************)
(* The arithmetic of ratelimit.py's two Lua scripts on one Redis hash.     *)
(* A bucket is absent or [held, idle, off]: the level last written, the    *)
(* ticks since Redis ran that write, and by how much the timestamp written *)
(* with it (ARGV[1], a worker's wall clock read before the call was sent)  *)
(* was ahead of Redis at that instant.  The `ts` field is so recovered     *)
(* relative to the present, which keeps the state finite.                  *)
(*                                                                         *)
(* A tick is the unit of refill: WINDOW_MS is Window ticks, and a bucket   *)
(* of capacity rate * Window gains `rate` a tick.                          *)
(***************************************************************************)
EXTENDS Integers

CONSTANTS Window,   \* WINDOW_MS
          Absent    \* no such key: never written, or expired

\* Mutant: a bucket forgotten before time has filled it.
IdleTTLShort == 1

\* _IDLE_TTL_MS
IdleTTL == Window * 2

AtMost(m, n) == IF m <= n THEN m ELSE n
AtLeast(m, n) == IF m >= n THEN m ELSE n

Capacity(rate) == rate * Window

\* Mutant: a clock behind the last one takes tokens away.
ElapsedUnclamped(bucket, off) == bucket.idle + off - bucket.off

\* math.max(0, now - seen), for a call whose own clock reading is `off`
\* ahead of Redis: what it takes to have passed since the last write.
Elapsed(bucket, off) == AtLeast(0, bucket.idle + off - bucket.off)

\* The level a script computes before it debits or settles anything.
Level(bucket, rate, off) ==
    IF bucket = Absent
    THEN Capacity(rate)
    ELSE AtMost(Capacity(rate), bucket.held + Elapsed(bucket, off) * rate)

\* HSET tokens, ts and PEXPIRE.  The timestamp is the caller's, even when
\* it is earlier than the one it replaces.
Written(level, off) == [held |-> level, idle |-> 0, off |-> off]

\* SETTLE_SCRIPT: give back (or take more of) delta, clamped both ways.
Settled(bucket, rate, off, delta) ==
    IF rate = 0 \/ delta = 0
    THEN bucket
    ELSE Written(AtLeast(0, AtMost(Capacity(rate), Level(bucket, rate, off) + delta)), off)

\* One tick of Redis's own clock, which expires a bucket left alone.
Aged(bucket) ==
    IF bucket = Absent \/ bucket.idle + 1 >= IdleTTL
    THEN Absent
    ELSE [bucket EXCEPT !.idle = @ + 1]

\* Mutant: the wait rounded down.
WaitFloored(bucket, rate, off, cost) ==
    LET short == cost - Level(bucket, rate, off)
    IN IF short <= 0 THEN 0 ELSE short \div rate

\* retry_ms: how long until `cost` would fit, in whole ticks.
Wait(bucket, rate, off, cost) ==
    LET short == cost - Level(bucket, rate, off)
    IN IF short <= 0 THEN 0 ELSE (short + rate - 1) \div rate

=============================================================================
