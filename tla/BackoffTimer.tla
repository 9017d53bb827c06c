---------------------------- MODULE BackoffTimer ----------------------------
(***************************************************************************)
(* backoff.ExponentialTimer: the CustomTimer of backoff/backoff.go with    *)
(* the delay provider of backoff/exponential.go.                           *)
(*                                                                         *)
(* One owner calls the methods in any order.  The function given to        *)
(* time.AfterFunc runs on a goroutine of its own, which blocks on the      *)
(* unbuffered tickChannel until the owner receives.                        *)
(*                                                                         *)
(* int64 has Width bits here, 64 in the code and fewer for TLC: the clamps *)
(* of the delay provider are about where the product and the conversion    *)
(* overflow.                                                               *)
(***************************************************************************)
EXTENDS Integers

CONSTANTS
    Width,          \* bits of the integers that stand for int64
    Configs,        \* the ExponentialConfig records considered
    MaxRetries,     \* bound: calls of ScheduleRetry between two Resets
    MaxTicking      \* bound: timer goroutines blocked at the same time

ASSUME WidthAssumption == Width \in Nat \ {0, 1}

VARIABLES
    conf,           \* the configuration of this timer
    numRetries,
    currentDelay,
    bound,          \* the argument of the last rand.Int63n, 0 before any
    armed,          \* t.timer is scheduled
    ticking         \* goroutines blocked on tickChannel

timerVars == <<conf, numRetries, currentDelay, bound, armed, ticking>>

-----------------------------------------------------------------------------
(* The arithmetic of the delay provider.                                    *)

\* b to the power n.
Power(b, n) == LET power[k \in Nat] == IF k = 0 THEN 1 ELSE b * power[k - 1]
               IN  power[n]

Half   == Power(2, Width - 1)
MinInt == -Half
MaxInt == Half - 1

\* The configuration gives the base in milliseconds, a million of the units of
\* int64 each.  With a base, a growth base or a maximum of 0, or a negative base
\* or maximum, there is no delay to draw from; negative growth bases are clamped.
ASSUME ConfigAssumption ==
    \A c \in Configs : /\ c.GrowthBase \in Int \ {0}
                       /\ c.Base \in 2 .. MaxInt
                       /\ c.MaxDuration \in 1 .. MaxInt

\* int64 multiplication wraps around.
Wrap(x) == ((x + Half) % (2 * Half)) - Half

\* int64(pow) of a float64: what the amd64 conversion yields out of range.
FromFloat(x) == IF x \in MinInt .. MaxInt THEN x ELSE MinInt

Sign(x) == IF x < 0 THEN -1 ELSE 1
Abs(x)  == x * Sign(x)

\* Go's / truncates towards zero.
Quotient(a, b) == Sign(a) * Sign(b) * (Abs(a) \div Abs(b))

\* math.Pow, then the clamp "pow < 0 || pow > math.MaxInt64": the constant becomes
\* the float64 2^63, one more than MaxInt64, so the clamp sets pow to 2^63 too.
Pow(c, n) == LET pow == Power(c.GrowthBase, n)
             IN  IF pow < 0 \/ pow > MaxInt + 1 THEN MaxInt + 1 ELSE pow

\* The product, with the check of its overflow by the inverse division.
Mul(pow, base) ==
    LET mul == Wrap(pow * base)
    IN  IF pow # 0 /\ Quotient(mul, pow) # base THEN MaxInt ELSE mul

ExpDurationUnclamped(c, n) == Mul(FromFloat(Pow(c, n)), c.Base)

\* newExpDuration, the argument of rand.Int63n (which panics unless it is
\* positive).
ExpDuration(c, n) ==
    LET mul == Mul(FromFloat(Pow(c, n)), c.Base)
    IN  IF mul > c.MaxDuration THEN c.MaxDuration ELSE mul

-----------------------------------------------------------------------------
TimerInit ==
    /\ conf \in Configs
    /\ numRetries = 0
    /\ currentDelay = 0
    /\ bound = 0
    /\ armed = FALSE
    /\ ticking = 0

ScheduleRetry ==
    /\ numRetries < MaxRetries
    /\ bound' = ExpDuration(conf, numRetries)
    /\ currentDelay' \in 0 .. bound' - 1
    /\ armed' = TRUE
    /\ numRetries' = numRetries + 1
    /\ UNCHANGED <<conf, ticking>>

Fire ==
    /\ armed
    /\ ticking < MaxTicking
    /\ armed' = FALSE
    /\ ticking' = ticking + 1
    /\ UNCHANGED <<conf, numRetries, currentDelay, bound>>

\* The owner receives from ReceiveTick().
Receive ==
    /\ ticking > 0
    /\ ticking' = ticking - 1
    /\ UNCHANGED <<conf, numRetries, currentDelay, bound, armed>>

Stop ==
    /\ armed' = FALSE
    /\ UNCHANGED <<conf, numRetries, currentDelay, bound, ticking>>

Reset ==
    /\ armed' = FALSE
    /\ numRetries' = 0
    /\ currentDelay' = 0
    /\ bound' = 0
    /\ UNCHANGED <<conf, ticking>>

TimerNext == ScheduleRetry \/ Fire \/ Receive \/ Stop \/ Reset

TimerSpec == TimerInit /\ [][TimerNext]_timerVars

-----------------------------------------------------------------------------
\* rand.Int63n never panics, and the delay stays under MaxDuration, however
\* many retries there were: the clamps catch every overflow of the power and
\* of the product ("Correctly handle overflowing pow", "... mul").
DelayWithinBounds ==
    /\ ExpDuration(conf, numRetries) \in 1 .. conf.MaxDuration
    /\ currentDelay < conf.MaxDuration

=============================================================================
