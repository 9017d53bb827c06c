---------------------------- MODULE ControlProofs ----------------------------
(***************************************************************************)
(* Proofs about the mechanisms by which the agent holds itself back: the   *)
(* backoff timer, the listener's lease, the pre-sampler and the priority   *)
(* sampler, each for every value of its constants: integers of any width,  *)
(* every limit, rate, CPU usage and trace count, every finite set of       *)
(* services and of goroutines, and no bound on the number of retries,      *)
(* payloads, decays and rounds.                                            *)
(***************************************************************************)
EXTENDS BackoffTimer, Admission, PrioritySampler, SumTheorems, TLAPS

-----------------------------------------------------------------------------
(***************************************************************************)
(* The backoff timer.  Powers first: the recursion of Power has a solution *)
(* (a table for every n, and tables agree), so that powers obey it.        *)
(***************************************************************************)
\* The right-hand side of the recursion of Power, and the tables of powers of b up
\* to the n-th.
PowerStep(g, b, k) == IF k = 0 THEN 1 ELSE b * g[k - 1]
Powers(g, b) == g = [k \in Nat |-> PowerStep(g, b, k)]
PowersTo(g, b, n) == g = [k \in 0 .. n |-> PowerStep(g, b, k)]
Table(b, n) == CHOOSE g : PowersTo(g, b, n)

\* Power is the solution of its recursion.
LEMMA PowerUnfolded ==
  ASSUME NEW b, NEW n
  PROVE  Power(b, n) = (CHOOSE g : Powers(g, b))[n]
  BY DEF Power, Powers, PowerStep

\* The recursion holds in a table.
LEMMA PowersAt ==
  ASSUME NEW b, NEW n, NEW g, PowersTo(g, b, n), NEW k \in 0 .. n
  PROVE  g[k] = PowerStep(g, b, k)
  BY DEF PowersTo

\* There is a table up to every n.
LEMMA TableExists ==
  ASSUME NEW b, NEW n \in Nat
  PROVE  PowersTo(Table(b, n), b, n)
<1> DEFINE T == {k \in Nat : ~ \E g : PowersTo(g, b, k)}
<1>1. ASSUME T # {} PROVE FALSE
  <2>1. PICK k \in T : \A m \in T : k <= m
    <3>1. T \in SUBSET Nat
      OBVIOUS
    <3> HIDE DEF T
    <3> QED
      BY <1>1, <3>1, LeastNat
  <2>2. CASE k = 0
    <3> DEFINE f == [i \in 0 .. 0 |-> 1]
    <3>1. \A i \in 0 .. 0 : i = 0
      OBVIOUS
    <3>2. PowersTo(f, b, 0)
      BY <3>1 DEF PowersTo, PowerStep
    <3> QED
      BY <2>1, <2>2, <3>2
  <2>3. CASE k # 0
    <3>1. k \in Nat /\ k - 1 \in Nat /\ k - 1 \notin T
      BY <2>1, <2>3
    <3>2. PICK g : PowersTo(g, b, k - 1)
      BY <3>1
    <3> DEFINE f == [i \in 0 .. k |-> IF i = k THEN b * g[k - 1] ELSE g[i]]
    <3>3. ASSUME NEW i \in 0 .. k PROVE f[i] = PowerStep(f, b, i)
      <4>1. CASE i = k
        <5>1. f[i] = b * g[k - 1] /\ k - 1 \in 0 .. k /\ k - 1 # k
          BY <3>1, <4>1
        <5>2. f[k - 1] = g[k - 1]
          BY <5>1
        <5> QED
          BY <2>3, <4>1, <5>1, <5>2 DEF PowerStep
      <4>2. CASE i # k
        <5>1. i \in 0 .. k - 1 /\ f[i] = g[i]
          BY <3>1, <4>2
        <5>2. g[i] = PowerStep(g, b, i)
          BY <3>2, <5>1, PowersAt
        <5>3. i # 0 => i - 1 \in 0 .. k /\ i - 1 # k
          BY <3>1, <5>1
        <5>4. i # 0 => f[i - 1] = g[i - 1]
          BY <5>3
        <5> QED
          BY <5>1, <5>2, <5>4 DEF PowerStep
      <4> QED
        BY <4>1, <4>2
    <3>4. PowersTo(f, b, k)
      <4>1. f = [i \in 0 .. k |-> f[i]]
        OBVIOUS
      <4> HIDE DEF f
      <4> QED
        BY <3>3, <4>1 DEF PowersTo
    <3> QED
      BY <2>1, <3>4
  <2> QED
    BY <2>2, <2>3
<1>2. \E g : PowersTo(g, b, n)
  BY <1>1
<1> QED
  BY <1>2 DEF Table

\* A table and the next one agree.
LEMMA TablesAgree ==
  ASSUME NEW b, NEW n \in Nat, NEW g, NEW h, PowersTo(g, b, n), PowersTo(h, b, n + 1)
  PROVE  g[n] = h[n]
<1> DEFINE T == {k \in 0 .. n : g[k] # h[k]}
<1>1. ASSUME T # {} PROVE FALSE
  <2>1. PICK k \in T : \A m \in T : k <= m
    <3>1. T \in SUBSET Nat
      OBVIOUS
    <3> HIDE DEF T
    <3> QED
      BY <1>1, <3>1, LeastNat
  <2>2. k \in 0 .. n /\ k \in 0 .. n + 1 /\ g[k] # h[k]
    BY <2>1
  <2>3. g[k] = PowerStep(g, b, k) /\ h[k] = PowerStep(h, b, k)
    BY <2>2, PowersAt
  <2>4. k # 0
    BY <2>2, <2>3 DEF PowerStep
  <2>5. k - 1 \in 0 .. n /\ ~(k <= k - 1)
    BY <2>2, <2>4
  <2>6. g[k - 1] = h[k - 1]
    BY <2>1, <2>5
  <2> QED
    BY <2>2, <2>3, <2>4, <2>6 DEF PowerStep
<1>2. n \in 0 .. n
  OBVIOUS
<1> QED
  BY <1>1, <1>2

\* The recursion that defines Power.
LEMMA PowerDef ==
  ASSUME NEW b
  PROVE  /\ Power(b, 0) = 1
         /\ \A n \in Nat : Power(b, n + 1) = b * Power(b, n)
<1> DEFINE f == [k \in Nat |-> Table(b, k)[k]]
<1>1. ASSUME NEW k \in Nat PROVE f[k] = PowerStep(f, b, k)
  <2>1. f[k] = PowerStep(Table(b, k), b, k)
    BY TableExists, PowersAt
  <2>2. CASE k = 0
    BY <2>1, <2>2 DEF PowerStep
  <2>3. CASE k # 0
    <3>1. k - 1 \in Nat /\ (k - 1) + 1 = k
      BY <2>3
    <3>2. Table(b, k - 1)[k - 1] = Table(b, k)[k - 1]
      BY <3>1, TableExists, TablesAgree
    <3>3. f[k - 1] = Table(b, k - 1)[k - 1]
      BY <3>1
    <3> HIDE DEF f
    <3> QED
      BY <2>1, <2>3, <3>2, <3>3 DEF PowerStep
  <2> QED
    BY <2>2, <2>3
<1>2. Powers(f, b)
  <2>1. f = [k \in Nat |-> f[k]]
    OBVIOUS
  <2> HIDE DEF f
  <2> QED
    BY <1>1, <2>1 DEF Powers
<1> DEFINE p == CHOOSE g : Powers(g, b)
<1>3. Powers(p, b)
  BY <1>2
<1>4. \A n : Power(b, n) = p[n]
  BY PowerUnfolded
<1> HIDE DEF p
<1>5. \A n \in Nat : p[n] = PowerStep(p, b, n)
  BY <1>3 DEF Powers
<1>6. p[0] = 1
  BY <1>5 DEF PowerStep
<1>7. ASSUME NEW n \in Nat PROVE p[n + 1] = b * p[n]
  <2>1. n + 1 \in Nat /\ n + 1 # 0 /\ (n + 1) - 1 = n
    OBVIOUS
  <2> QED
    BY <1>5, <2>1 DEF PowerStep
<1> QED
  BY <1>4, <1>6, <1>7

\* The powers of a number that is not 0 are not 0 either; those of 2 are positive.
LEMMA PowerType ==
  ASSUME NEW b \in Int \ {0}, NEW n \in Nat
  PROVE  /\ Power(b, n) \in Int \ {0}
         /\ b > 0 => Power(b, n) > 0
<1> DEFINE Good(k) == Power(b, k) \in Int \ {0} /\ (b > 0 => Power(b, k) > 0)
           T == {k \in Nat : ~Good(k)}
<1>1. ASSUME T # {} PROVE FALSE
  <2>1. PICK k \in T : \A m \in T : k <= m
    <3>1. T \in SUBSET Nat
      OBVIOUS
    <3> HIDE DEF T
    <3> QED
      BY <1>1, <3>1, LeastNat
  <2>2. k # 0
    BY <2>1, PowerDef
  <2>3. k - 1 \in Nat /\ (k - 1) + 1 = k /\ Good(k - 1)
    BY <2>1, <2>2
  <2>4. Power(b, k) = b * Power(b, k - 1)
    BY <2>3, PowerDef
  <2> DEFINE q == Power(b, k - 1)
  <2>5. q \in Int \ {0} /\ (b > 0 => q > 0) /\ Power(b, k) = b * q
    BY <2>3, <2>4
  <2> HIDE DEF q
  <2>6. b * q \in Int \ {0} /\ (b > 0 => b * q > 0)
    BY <2>5
  <2> QED
    BY <2>1, <2>5, <2>6
<1> QED
  BY <1>1

-----------------------------------------------------------------------------
(***************************************************************************)
(* The delay.  After its clamp the power is between 1 and 2^63.  Below     *)
(* 2^63 the inverse division tells a wrapped product from an exact one; at *)
(* 2^63, which int64 turns into the smallest integer, the quotient is too  *)
(* small to be the base, of at least 2 units.  Any float64 between 1 and   *)
(* 2^63 will do, so that the rounding of math.Pow makes no difference.     *)
(***************************************************************************)
\* The smallest integer has a magnitude of 2 at least.
LEMMA HalfType == Half \in Nat /\ Half >= 2
<1>1. Width - 2 \in Nat /\ (Width - 2) + 1 = Width - 1
  BY WidthAssumption
<1>2. Power(2, Width - 1) = 2 * Power(2, Width - 2)
  BY <1>1, PowerDef
<1>3. Power(2, Width - 2) \in Int /\ Power(2, Width - 2) > 0
  BY <1>1, PowerType
<1> QED
  BY <1>2, <1>3 DEF Half

\* What the division of natural numbers yields.
LEMMA DivBounds ==
  ASSUME NEW a \in Nat, NEW d \in Nat \ {0}
  PROVE  a \div d \in Nat /\ (a \div d) * d <= a /\ a < (a \div d) * d + d
  OBVIOUS

\* Only one quotient fits.
LEMMA DivUnique ==
  ASSUME NEW a \in Nat, NEW d \in Nat \ {0}, NEW q \in Nat, q * d <= a, a < q * d + d
  PROVE  a \div d = q
<1> DEFINE p == a \div d
<1>1. p \in Nat /\ p * d <= a /\ a < p * d + d
  BY DivBounds
<1> HIDE DEF p
<1>2. ASSUME p < q PROVE FALSE
  <2>1. p + 1 <= q
    BY <1>1, <1>2
  <2>2. (p + 1) * d <= q * d
    BY <1>1, <2>1
  <2> QED
    BY <1>1, <2>2
<1>3. ASSUME q < p PROVE FALSE
  <2>1. q + 1 <= p
    BY <1>1, <1>3
  <2>2. (q + 1) * d <= p * d
    BY <1>1, <2>1
  <2> QED
    BY <1>1, <2>2
<1> QED
  BY <1>1, <1>2, <1>3 DEF p

\* A wrapped number is in range, and one in range is not changed.
LEMMA WrapType ==
  ASSUME NEW x \in Int
  PROVE  /\ Wrap(x) \in Int /\ -Half <= Wrap(x) /\ Wrap(x) < Half
         /\ -Half <= x /\ x < Half => Wrap(x) = x
<1> DEFINE m == (x + Half) % (2 * Half)
<1>1. m \in 0 .. 2 * Half - 1
  BY HalfType
<1>2. -Half <= x /\ x < Half => m = x + Half
  BY HalfType
<1> HIDE DEF m
<1>3. Wrap(x) = m - Half
  BY DEF Wrap, m
<1> QED
  BY <1>1, <1>2, <1>3, HalfType

\* The quotient of two numbers by their signs.
LEMMA QuotientCases ==
  ASSUME NEW a \in Int, NEW d \in Int \ {0}
  PROVE  /\ a >= 0 /\ d > 0 => Quotient(a, d) = a \div d
         /\ a < 0 /\ d > 0 => Quotient(a, d) = -((-a) \div d)
         /\ a >= 0 /\ d < 0 => Quotient(a, d) = -(a \div (-d))
         /\ a < 0 /\ d < 0 => Quotient(a, d) = (-a) \div (-d)
  BY DEF Quotient, Abs, Sign

\* The product of a power that did not overflow, or the largest integer when the
\* product does: a quotient that equals the base proves that nothing wrapped.
LEMMA MulInRange ==
  ASSUME NEW pow \in Nat, 1 <= pow, pow < Half, NEW base \in Nat, 2 <= base, base < Half
  PROVE  Mul(pow, base) = IF pow * base < Half THEN pow * base ELSE MaxInt
<1> DEFINE P == pow * base
           m == Wrap(P)
<1>1. P \in Nat /\ P >= 1 /\ P = base * pow
  OBVIOUS
<1>2. Half \in Nat /\ m \in Int /\ -Half <= m /\ m < Half /\ (P < Half => m = P)
  <2> HIDE DEF P
  <2> QED
    BY <1>1, WrapType, HalfType
<1>3. Mul(pow, base) = IF pow # 0 /\ Quotient(m, pow) # base THEN MaxInt ELSE m
  BY DEF Mul
<1> HIDE DEF m
<1>4. CASE P < Half
  <2>1. m = P /\ m \in Nat /\ base * pow <= m /\ m < base * pow + pow
    BY <1>1, <1>2, <1>4
  <2>2. m \div pow = base
    BY <2>1, DivUnique
  <2>3. Quotient(m, pow) = base
    BY <2>1, <2>2, QuotientCases
  <2> QED
    BY <1>3, <1>4, <2>1, <2>3
<1>5. CASE ~(P < Half)
  <2>1. Quotient(m, pow) # base
    <3>1. CASE m >= 0
      <4>1. Quotient(m, pow) = m \div pow
        BY <1>2, <3>1, QuotientCases
      <4>2. (m \div pow) * pow <= m
        BY <1>2, <3>1, DivBounds
      <4> HIDE DEF P
      <4> QED
        BY <1>1, <1>2, <1>5, <4>1, <4>2
    <3>2. CASE m < 0
      <4>1. Quotient(m, pow) = -((-m) \div pow)
        BY <1>2, <3>2, QuotientCases
      <4>2. (-m) \div pow \in Nat
        BY <1>2, <3>2, DivBounds
      <4> QED
        BY <4>1, <4>2
    <3> QED
      BY <1>2, <3>1, <3>2
  <2> QED
    BY <1>3, <1>5, <2>1
<1> QED
  BY <1>4, <1>5

\* The clamped power 2^63 converts to the smallest integer; the quotient is -1, 0
\* or 1 then and differs from the base.
LEMMA MulClamped ==
  ASSUME NEW base \in Nat, 2 <= base, base < Half
  PROVE  Mul(-Half, base) = MaxInt
<1> DEFINE P == (-Half) * base
           m == Wrap(P)
<1>1. P \in Int
  BY HalfType
<1>2. Half \in Nat /\ Half >= 2 /\ m \in Int /\ -Half <= m /\ m < Half
  <2> HIDE DEF P
  <2> QED
    BY <1>1, WrapType, HalfType
<1>3. Mul(-Half, base) = IF -Half # 0 /\ Quotient(m, -Half) # base THEN MaxInt ELSE m
  BY DEF Mul
<1> HIDE DEF m
<1>4. \A a \in 0 .. Half : a \div Half \in {0, 1}
  BY <1>2
<1>5. Quotient(m, -Half) \in {-1, 0, 1}
  <2>1. -Half \in Int \ {0} /\ -Half < 0 /\ -(-Half) = Half
    BY <1>2
  <2>2. CASE m >= 0
    <3>1. Quotient(m, -Half) = -(m \div Half)
      BY <1>2, <2>1, <2>2, QuotientCases
    <3>2. m \div Half \in {0, 1}
      BY <1>2, <1>4, <2>2
    <3> QED
      BY <3>1, <3>2
  <2>3. CASE m < 0
    <3>1. Quotient(m, -Half) = (-m) \div Half
      BY <1>2, <2>1, <2>3, QuotientCases
    <3>2. (-m) \div Half \in {0, 1}
      BY <1>2, <1>4, <2>3
    <3> QED
      BY <3>1, <3>2
  <2> QED
    BY <1>2, <2>2, <2>3
<1> QED
  BY <1>2, <1>3, <1>5

\* However many retries there were, the delay is drawn from an interval that is
\* not empty and within MaxDuration.
LEMMA DurationType ==
  ASSUME NEW c \in Configs, NEW n \in Nat
  PROVE  ExpDuration(c, n) \in 1 .. c.MaxDuration
<1> DEFINE pow == Pow(c, n)
           mul == Mul(FromFloat(pow), c.Base)
<1>0. /\ c.GrowthBase \in Int \ {0} /\ c.Base \in Nat /\ 2 <= c.Base /\ c.Base < Half
      /\ c.MaxDuration \in Nat /\ 1 <= c.MaxDuration /\ c.MaxDuration <= MaxInt
      /\ Half \in Nat /\ Half >= 2 /\ MaxInt = Half - 1 /\ MinInt = -Half
  BY ConfigAssumption, HalfType DEF MaxInt, MinInt
<1>1. pow \in Nat /\ 1 <= pow /\ pow <= Half
  <2>1. Power(c.GrowthBase, n) \in Int \ {0}
    BY <1>0, PowerType
  <2> QED
    BY <1>0, <2>1 DEF Pow
<1>2. mul \in Nat /\ 1 <= mul /\ mul <= MaxInt
  <2> HIDE DEF pow
  <2>1. CASE pow < Half
    <3>1. FromFloat(pow) = pow
      BY <1>0, <1>1, <2>1 DEF FromFloat
    <3>2. mul = IF pow * c.Base < Half THEN pow * c.Base ELSE MaxInt
      BY <1>0, <1>1, <2>1, <3>1, MulInRange
    <3>3. pow * c.Base \in Nat /\ pow * c.Base >= 1
      BY <1>0, <1>1
    <3> QED
      BY <1>0, <3>2, <3>3
  <2>2. CASE pow = Half
    <3>1. FromFloat(pow) = -Half
      BY <1>0, <2>2 DEF FromFloat
    <3> QED
      BY <1>0, <3>1, MulClamped
  <2> QED
    BY <1>0, <1>1, <2>1, <2>2
<1> HIDE DEF mul
<1>3. ExpDuration(c, n) = IF mul > c.MaxDuration THEN c.MaxDuration ELSE mul
  BY DEF ExpDuration, mul
<1> QED
  BY <1>0, <1>2, <1>3

\* The timer keeps its configuration and draws every delay below MaxDuration.
TimerInv ==
    /\ conf \in Configs
    /\ numRetries \in Nat
    /\ currentDelay \in Nat /\ currentDelay < conf.MaxDuration

\* rand.Int63n never panics and no delay reaches MaxDuration, for integers of
\* every width and however often ScheduleRetry is called without a Reset.
THEOREM DelayBounded == TimerSpec => []DelayWithinBounds
<1>0. \A c \in Configs : c.MaxDuration \in Nat /\ 1 <= c.MaxDuration
  BY ConfigAssumption, HalfType DEF MaxInt
<1>1. TimerInit => TimerInv
  BY <1>0 DEF TimerInit, TimerInv
<1>2. TimerInv /\ [TimerNext]_timerVars => TimerInv'
  <2> SUFFICES ASSUME TimerInv, [TimerNext]_timerVars PROVE TimerInv'
    OBVIOUS
  <2>1. CASE ScheduleRetry
    <3>1. /\ conf \in Configs /\ numRetries \in Nat /\ conf' = conf
          /\ numRetries' = numRetries + 1
          /\ bound' = ExpDuration(conf, numRetries)
          /\ currentDelay' \in 0 .. bound' - 1
      BY <2>1 DEF ScheduleRetry, TimerInv
    <3>2. bound' \in 1 .. conf.MaxDuration
      BY <3>1, DurationType
    <3> QED
      BY <1>0, <3>1, <3>2 DEF TimerInv
  <2>2. CASE Reset
    BY <1>0, <2>2 DEF Reset, TimerInv
  <2>3. UNCHANGED <<conf, numRetries, currentDelay>> \/ ScheduleRetry \/ Reset
    BY DEF TimerNext, timerVars, Fire, Receive, Stop
  <2>4. CASE UNCHANGED <<conf, numRetries, currentDelay>>
    BY <2>4 DEF TimerInv
  <2> QED
    BY <2>1, <2>2, <2>3, <2>4
<1>3. TimerInv => DelayWithinBounds
  BY DurationType DEF TimerInv, DelayWithinBounds
<1> QED
  BY <1>1, <1>2, <1>3, PTL DEF TimerSpec

-----------------------------------------------------------------------------
(***************************************************************************)
(* The lease.  Between its test and its decrement Accept holds one unit of *)
(* a lease, of this period or of an earlier one; a connection that was     *)
(* accepted and not yet counted is the only one beyond the decrements.     *)
(***************************************************************************)
LeaseInv ==
    /\ connLease \in Int /\ accepted \in Nat
    /\ accepting \in {"call", "wait", "decrement"}
    /\ connLease <= ConnectionLimit
    /\ connLease >= 0 \/ connLease = ConnectionLimit
    /\ accepting # "call" => connLease >= 1
    /\ ConnectionLimit <= 0 => accepted = 0
    /\ ConnectionLimit > 0 =>
          accepted <= ConnectionLimit - connLease + (IF accepting = "decrement" THEN 1 ELSE 0)

\* Every step of the server's loop and of Refresh keeps the lease in order.
LEMMA NextLease == LeaseInv /\ [AdmissionNext]_admissionVars => LeaseInv'
<1> SUFFICES ASSUME LeaseInv, [AdmissionNext]_admissionVars PROVE LeaseInv'
  OBVIOUS
<1> USE AdmissionAssumption DEF LeaseInv, listenerVars
<1>1. CASE UNCHANGED listenerVars
  BY <1>1
<1>2. CASE Refresh
  BY <1>2 DEF Refresh
<1>3. CASE AcceptChecks
  BY <1>3 DEF AcceptChecks, Exhausted
<1>4. CASE AcceptReturns
  BY <1>4 DEF AcceptReturns
<1>5. CASE AcceptDecrements
  BY <1>5 DEF AcceptDecrements
<1>6. UNCHANGED listenerVars \/ Refresh \/ AcceptChecks \/ AcceptReturns \/ AcceptDecrements
  BY DEF AdmissionNext, admissionVars, sampleWithCount, decayScore, WatchdogReads, SetRate
<1> QED
  BY <1>1, <1>2, <1>3, <1>4, <1>5, <1>6

\* No lease period accepts more connections than its limit, although Accept
\* tests the lease before it waits and takes from it after, with Refresh in
\* between.
THEOREM LeaseCorrect == AdmissionSpec => []ConnectionsWithinLease
<1>1. AdmissionInit => LeaseInv
  BY AdmissionAssumption DEF AdmissionInit, NewRateLimitedListener, LeaseInv
<1>2. LeaseInv => ConnectionsWithinLease
  BY AdmissionAssumption DEF LeaseInv, ConnectionsWithinLease
<1> QED
  BY <1>1, <1>2, NextLease, PTL DEF AdmissionSpec

-----------------------------------------------------------------------------
(***************************************************************************)
(* The rate.  While the watchdog has not moved the target, a payload is    *)
(* dropped only when too much was kept and kept only when it was not, so   *)
(* that each one moves the distance from the target towards zero or beyond *)
(* it by at most its own traces; a decay shrinks distance and allowance.   *)
(***************************************************************************)
Rate == [n : Nat \ {0}, d : Nat \ {0}]

\* The kept traces beyond what the rate asks for, in units of 1 / (unit * rate.d).
Distance == (seen - dropped) * rate.d - seen * rate.n
Allowance == LargestPayload * unit * rate.d

RateInv ==
    /\ preSampleRate \in Rate /\ preSampleRate.n <= preSampleRate.d
    /\ rate \in Rate /\ ~Greater(rate, preSampleRate)
    /\ seen \in Nat /\ dropped \in Nat /\ dropped <= seen
    /\ unit \in Nat \ {0}
    /\ adjusted \in BOOLEAN
    /\ watchdog = <<>> \/ \E r \in Rate : watchdog = <<r>> /\ ~Greater(r, preSampleRate)
    /\ ~adjusted => /\ rate = preSampleRate
                    /\ Distance <= Allowance /\ -Distance <= Allowance

\* A product of positive numbers is positive.
LEMMA PositiveProduct ==
  ASSUME NEW a \in Nat \ {0}, NEW b \in Nat \ {0}
  PROVE  a * b \in Nat \ {0}
  OBVIOUS

\* Multiplication is monotonic.
LEMMA ProductMonotonic ==
  ASSUME NEW a \in Int, NEW b \in Int, NEW c \in Nat, a <= b
  PROVE  a * c <= b * c
  OBVIOUS

\* The largest payload is the maximum of the trace counts, and at least 0.
LEMMA LargestType ==
  /\ LargestPayload \in Nat
  /\ \A c \in TraceCounts : c \in Int /\ c <= LargestPayload
<1>1. /\ LargestPayload \in TraceCounts
      /\ \A x \in TraceCounts : x <= LargestPayload
  BY AdmissionAssumption DEF LargestPayload
<1> QED
  BY <1>1, AdmissionAssumption

\* RealRate is a fraction that is not negative.
LEMMA RealRateType ==
  ASSUME RateInv
  PROVE  RealRate.n \in Nat /\ RealRate.d \in Nat \ {0}
  BY DEF RateInv, RealRate, Rate

\* CalcPreSampleRate never returns a rate of 0.
LEMMA CalcType ==
  ASSUME NEW userAvg \in Nat, NEW current, current.n \in Nat, current.d \in Nat \ {0},
         current.n # 0 => current \in Rate
  PROVE  CalcPreSampleRate(userAvg, current) \in Rate
<1> DEFINE newRate == [n |-> current.n * MaxCPU, d |-> current.d * userAvg]
           mean    == [n |-> current.n * (MaxCPU + userAvg), d |-> current.d * 2 * userAvg]
           delta   == MaxCPU - userAvg
           rateMin == [n |-> 1, d |-> 20]
           calc  == CalcPreSampleRate(userAvg, current)
<1>1. One \in Rate /\ rateMin \in Rate
  BY DEF One, Rate
<1>2. CASE MaxCPU <= 0 \/ userAvg = 0 \/ current.n = 0
  BY <1>1, <1>2 DEF CalcPreSampleRate
<1>3. CASE ~(MaxCPU <= 0 \/ userAvg = 0 \/ current.n = 0)
  <2>1. current.n \in Nat \ {0} /\ userAvg \in Nat \ {0} /\ MaxCPU + userAvg \in Nat \ {0}
    BY <1>3, AdmissionAssumption
  <2>2. current.n * (MaxCPU + userAvg) \in Nat \ {0}
    BY <2>1, PositiveProduct
  <2>3. current.d * 2 \in Nat \ {0}
    OBVIOUS
  <2>4. current.d * 2 * userAvg \in Nat \ {0}
    BY <2>1, <2>3, PositiveProduct
  <2>5. mean \in Rate
    BY <2>2, <2>4 DEF Rate
  <2>6. calc = One \/ calc = current \/ calc = rateMin \/ calc = mean
    BY <1>3 DEF CalcPreSampleRate
  <2> QED
    BY <1>1, <1>3, <2>1, <2>5, <2>6
<1> QED
  BY <1>2, <1>3

\* What one payload does to the statistics.
LEMMA SampleRate ==
  ASSUME RateInv, NEW traceCount \in TraceCounts, sampleWithCount(traceCount)
  PROVE  RateInv'
<1> DEFINE c == traceCount * unit
           n == rate.n
           d == rate.d
<1>0. /\ UNCHANGED <<preSampleRate, rate, unit, watchdog, adjusted>>
      /\ n \in Nat \ {0} /\ d \in Nat \ {0} /\ seen \in Nat /\ dropped \in Nat
      /\ dropped <= seen /\ unit \in Nat \ {0} /\ traceCount \in Int
  BY AdmissionAssumption DEF sampleWithCount, RateInv, Rate
<1>1. CASE traceCount <= 0
  <2>1. UNCHANGED <<seen, dropped>>
    BY <1>1 DEF sampleWithCount
  <2> QED
    BY <1>0, <2>1 DEF RateInv, Distance, Allowance
<1>2. CASE traceCount > 0
  <2>1. c \in Nat \ {0}
    BY <1>0, <1>2, PositiveProduct
  <2>2. /\ seen' = seen + c
        /\ dropped' = IF Greater(RealRate, rate) THEN dropped + c ELSE dropped
    BY <1>0, <1>2 DEF sampleWithCount
  <2>3. Greater(RealRate, rate) <=> Distance > 0
    <3>1. CASE seen = 0
      <4>1. ~Greater(RealRate, rate)
        BY <1>0, <3>1 DEF RealRate, Greater
      <4>2. Distance = 0
        BY <1>0, <3>1 DEF Distance
      <4> QED
        BY <4>1, <4>2
    <3>2. CASE seen # 0
      <4>1. RealRate = [n |-> seen - dropped, d |-> seen]
        BY <1>0, <3>2 DEF RealRate
      <4>2. Greater(RealRate, rate) <=> (seen - dropped) * d > n * seen
        BY <4>1 DEF Greater
      <4> QED
        BY <1>0, <4>2 DEF Distance
    <3> QED
      BY <3>1, <3>2
  <2>4. ASSUME ~adjusted
        PROVE  Distance' <= Allowance' /\ -Distance' <= Allowance'
    <3>1. n <= d /\ Distance \in Int /\ Distance <= Allowance /\ -Distance <= Allowance
      BY <1>0, <2>4 DEF RateInv, Distance
    <3>2. Allowance' = Allowance /\ Allowance \in Int
      BY <1>0, LargestType DEF Allowance
    <3>3. c * d <= Allowance /\ c * n <= c * d /\ c * n \in Nat /\ c * d \in Nat
      <4>1. c <= LargestPayload * unit /\ LargestPayload * unit \in Int
        BY <1>0, LargestType, ProductMonotonic
      <4>2. c * d <= LargestPayload * unit * d
        BY <1>0, <2>1, <4>1, ProductMonotonic
      <4>3. c \in Nat /\ n * c <= d * c
        BY <1>0, <2>1, <3>1, ProductMonotonic
      <4> HIDE DEF c
      <4>4. n * c = c * n /\ d * c = c * d /\ c * n \in Nat /\ c * d \in Nat
        BY <1>0, <4>3
      <4> QED
        BY <4>2, <4>3, <4>4 DEF Allowance
    <3> HIDE DEF c
    <3>4. CASE Distance > 0
      <4>1. Distance' = (seen + c - (dropped + c)) * d - (seen + c) * n
        <5>1. seen' = seen + c /\ dropped' = dropped + c /\ rate' = rate
          BY <1>0, <2>2, <2>3, <3>4
        <5>2. c \in Nat
          BY <2>1
        <5> QED
          BY <1>0, <5>1, <5>2 DEF Distance
      <4>2. Distance' = Distance - c * n
        <5>1. c \in Nat
          BY <2>1
        <5> HIDE DEF n, d
        <5>2. (seen + c - (dropped + c)) * d - (seen + c) * n
                = (seen - dropped) * d - seen * n - c * n
          BY <1>0, <5>1
        <5> QED
          BY <4>1, <5>2 DEF Distance, n, d
      <4> QED
        BY <3>1, <3>2, <3>3, <3>4, <4>2
    <3>5. CASE ~(Distance > 0)
      <4>1. Distance' = (seen + c - dropped) * d - (seen + c) * n
        <5>1. seen' = seen + c /\ dropped' = dropped /\ rate' = rate
          BY <1>0, <2>2, <2>3, <3>5
        <5>2. c \in Nat
          BY <2>1
        <5> QED
          BY <1>0, <5>1, <5>2 DEF Distance
      <4>2. Distance' = Distance + (c * d - c * n)
        <5>1. c \in Nat
          BY <2>1
        <5> HIDE DEF n, d
        <5>2. (seen + c - dropped) * d - (seen + c) * n
                = (seen - dropped) * d - seen * n + (c * d - c * n)
          BY <1>0, <5>1
        <5> QED
          BY <4>1, <5>2 DEF Distance, n, d
      <4> QED
        BY <3>1, <3>2, <3>3, <3>5, <4>2
    <3> QED
      BY <3>4, <3>5
  <2>5. seen' \in Nat /\ dropped' \in Nat /\ dropped' <= seen'
    BY <1>0, <2>1, <2>2
  <2> QED
    BY <1>0, <2>4, <2>5 DEF RateInv
<1> QED
  BY <1>0, <1>1, <1>2

\* A decay keeps the proportion of the traces dropped.
LEMMA DecayRate ==
  ASSUME RateInv, decayScore
  PROVE  RateInv'
<1>0. /\ UNCHANGED <<preSampleRate, rate, watchdog, adjusted>>
      /\ seen' = seen * 8 /\ dropped' = dropped * 8 /\ unit' = unit * 9
      /\ rate.n \in Nat \ {0} /\ rate.d \in Nat \ {0} /\ seen \in Nat /\ dropped \in Nat
      /\ dropped <= seen /\ unit \in Nat \ {0}
  BY DEF decayScore, DecayAll, RateInv, Rate
<1>1. Distance' = 8 * Distance /\ Distance \in Int
  BY <1>0 DEF Distance
<1>2. Allowance' = 9 * Allowance /\ Allowance \in Int
  <2>1. LargestPayload' = LargestPayload
    OBVIOUS
  <2> QED
    BY <1>0, <2>1, LargestType DEF Allowance
<1>3. ~adjusted => Distance' <= Allowance' /\ -Distance' <= Allowance'
  BY <1>1, <1>2 DEF RateInv
<1> QED
  BY <1>0, <1>3 DEF RateInv

\* What the watchdog computes is a rate, and not above the configured one.
LEMMA WatchdogRate ==
  ASSUME RateInv, NEW userAvg \in UserAvgs, WatchdogReads(userAvg)
  PROVE  RateInv'
<1> DEFINE new == CalcPreSampleRate(userAvg, RealRate)
           set == IF Greater(new, preSampleRate) THEN preSampleRate ELSE new
<1>0. UNCHANGED <<preSampleRate, rate, seen, dropped, unit, adjusted>> /\ watchdog' = <<set>>
  BY DEF WatchdogReads
<1>1. RealRate.n # 0 => RealRate \in Rate
  BY DEF RealRate, RateInv, Rate
<1>2. new \in Rate
  BY <1>1, RealRateType, CalcType, AdmissionAssumption
<1> HIDE DEF new
<1>3. set \in Rate /\ ~Greater(set, preSampleRate)
  BY <1>2 DEF RateInv, Greater, Rate
<1> HIDE DEF set
<1> QED
  BY <1>0, <1>3 DEF RateInv, Distance, Allowance

\* Every step keeps the statistics in order.
LEMMA NextRate == RateInv /\ [AdmissionNext]_admissionVars => RateInv'
<1> SUFFICES ASSUME RateInv, [AdmissionNext]_admissionVars PROVE RateInv'
  OBVIOUS
<1>1. CASE UNCHANGED samplerVars
  BY <1>1 DEF samplerVars, RateInv, Distance, Allowance
<1>2. ASSUME NEW traceCount \in TraceCounts, sampleWithCount(traceCount) PROVE RateInv'
  BY <1>2, SampleRate
<1>3. CASE decayScore
  BY <1>3, DecayRate
<1>4. ASSUME NEW userAvg \in UserAvgs, WatchdogReads(userAvg) PROVE RateInv'
  BY <1>4, WatchdogRate
<1>5. CASE SetRate
  <2>1. /\ watchdog # <<>> /\ rate' = watchdog[1] /\ watchdog' = <<>> /\ adjusted' = TRUE
        /\ UNCHANGED <<preSampleRate, seen, dropped, unit>>
    BY <1>5 DEF SetRate
  <2>2. PICK r \in Rate : watchdog = <<r>> /\ ~Greater(r, preSampleRate)
    BY <2>1 DEF RateInv
  <2>3. rate' = r
    BY <2>1, <2>2
  <2> QED
    BY <2>1, <2>2, <2>3 DEF RateInv
<1>6. \/ UNCHANGED samplerVars
      \/ \E traceCount \in TraceCounts : sampleWithCount(traceCount)
      \/ decayScore
      \/ \E userAvg \in UserAvgs : WatchdogReads(userAvg)
      \/ SetRate
  BY DEF AdmissionNext, admissionVars, Refresh, AcceptChecks, AcceptReturns, AcceptDecrements
<1> QED
  BY <1>1, <1>2, <1>3, <1>4, <1>5, <1>6

\* The traces kept stay within one payload of the target rate through every
\* payload and decay while the target stands, and the watchdog never sets a rate
\* of 0 or one above the configuration.
THEOREM RateCorrect == AdmissionSpec => []KeptTracksRate
<1>1. AdmissionInit => RateInv
  <2> SUFFICES ASSUME AdmissionInit PROVE RateInv
    OBVIOUS
  <2>1. /\ preSampleRate \in Rate /\ preSampleRate.n <= preSampleRate.d
        /\ rate = preSampleRate /\ seen = 0 /\ dropped = 0 /\ unit = 1
        /\ watchdog = <<>> /\ adjusted = FALSE
    BY AdmissionAssumption DEF AdmissionInit, Rate
  <2>2. Distance = 0 /\ Allowance = LargestPayload * rate.d
    BY <2>1, LargestType DEF Distance, Allowance, Rate
  <2>3. Allowance >= 0 /\ Allowance \in Int
    BY <2>1, <2>2, LargestType DEF Rate
  <2>4. ~Greater(rate, preSampleRate)
    BY <2>1 DEF Rate, Greater
  <2>5. Distance <= Allowance /\ -Distance <= Allowance
    BY <2>2, <2>3
  <2>6. seen \in Nat /\ dropped \in Nat /\ dropped <= seen /\ unit \in Nat \ {0}
    BY <2>1
  <2>7. adjusted \in BOOLEAN
    BY <2>1
  <2> QED
    BY <2>1, <2>4, <2>5, <2>6, <2>7, Zenon DEF RateInv
<1>2. RateInv => KeptTracksRate
  <2> SUFFICES ASSUME RateInv PROVE KeptTracksRate
    OBVIOUS
  <2>1. dropped \in 0 .. seen /\ 0 < rate.n
    BY DEF RateInv, Rate
  <2> QED
    BY <2>1 DEF RateInv, KeptTracksRate, Distance, Allowance
<1> QED
  BY <1>1, <1>2, NextRate, PTL DEF AdmissionSpec

-----------------------------------------------------------------------------
(***************************************************************************)
(* The scores of the priority sampler: every count adds the same to a      *)
(* score and to the total, and every decay leaves in the total what it     *)
(* deletes.                                                                *)
(***************************************************************************)
\* A goroutine that registered its trace is about to count one of the services;
\* scores and their total are natural numbers.
ScoreTypes ==
    /\ scale \in Nat
    /\ scores \in [Services -> Nat]
    /\ totalScore \in Nat
    /\ forgotten \in Nat
    /\ DOMAIN pc = Threads /\ DOMAIN trace = Threads
    /\ \A t \in Threads : pc[t] = "registered" => trace[t].service \in Services

ScoreInv == ScoreTypes /\ TotalConserved

\* The sum of the scores is defined.
LEMMA ScoresSummable ==
  ASSUME NEW f \in [Services -> Nat]
  PROVE  IsFiniteSet(Services) /\ IntOn(f, Services) /\ SumFunctionOnSet(f, Services) \in Int
<1>1. IsFiniteSet(Services) /\ IntOn(f, Services)
  BY ConfAssumption DEF IntOn
<1> QED
  BY <1>1, SumInt

\* Counting a trace adds the same to a score and to the total.
LEMMA CountConserved ==
  ASSUME ScoreInv, NEW s \in Services, CountSignature(s), forgotten' = forgotten
  PROVE  TotalConserved' /\ scores' \in [Services -> Nat] /\ totalScore' \in Nat
<1>1. /\ scores \in [Services -> Nat] /\ totalScore \in Nat /\ scale \in Nat /\ forgotten \in Nat
      /\ SumFunctionOnSet(scores, Services) + forgotten = totalScore
  BY DEF ScoreInv, ScoreTypes, TotalConserved
<1>2. /\ scores' \in [Services -> Nat] /\ totalScore' = totalScore + scale
      /\ scores'[s] = scores[s] + scale
      /\ \A x \in Services \ {s} : scores[x] = scores'[x]
  BY <1>1 DEF CountSignature
<1>3. SumFunctionOnSet(scores', Services)
        = SumFunctionOnSet(scores, Services) - scores[s] + scores'[s]
  BY <1>1, <1>2, ScoresSummable, SumChange
<1>4. SumFunctionOnSet(scores, Services) \in Int /\ scores[s] \in Nat
  BY <1>1, ScoresSummable
<1> QED
  BY <1>1, <1>2, <1>3, <1>4 DEF TotalConserved

\* The sum of naturals.
LEMMA NaturalSum ==
  ASSUME NEW f \in [Services -> Nat]
  PROVE  SumFunctionOnSet(f, Services) \in Nat
<1> DEFINE zero == [s \in Services |-> 0]
<1>1. zero \in [Services -> Nat] /\ \A s \in Services : zero[s] = 0 /\ zero[s] <= f[s]
  OBVIOUS
<1> HIDE DEF zero
<1>2. SumFunctionOnSet(zero, Services) = 0
  BY <1>1, ScoresSummable, SumZero
<1>3. SumFunctionOnSet(zero, Services) <= SumFunctionOnSet(f, Services)
  BY <1>1, ScoresSummable, SumMonotonic
<1>4. SumFunctionOnSet(f, Services) \in Int
  BY ScoresSummable
<1> QED
  BY <1>2, <1>3, <1>4

\* A score is decayed or deleted: with the deleted ones the decayed scores are the old
\* ones times the denominator of the factor, like the total.
LEMMA DecayConserved ==
  ASSUME ScoreInv, DecayScore
  PROVE  /\ TotalConserved' /\ scores' \in [Services -> Nat] /\ totalScore' \in Nat
         /\ scale' \in Nat /\ forgotten' \in Nat
<1> DEFINE gone == [s \in Services |-> Deleted(scores[s])]
           lost == [s \in Services |-> FactorD * gone[s]]
           both == [s \in Services |-> FactorD * scores[s]]
<1>1. /\ scores \in [Services -> Nat] /\ totalScore \in Nat /\ scale \in Nat /\ forgotten \in Nat
      /\ SumFunctionOnSet(scores, Services) + forgotten = totalScore
      /\ FactorD \in Nat /\ FactorN \in Nat
  BY ConfAssumption DEF ScoreInv, ScoreTypes, TotalConserved
<1>2. ASSUME NEW s \in Services
      PROVE  /\ gone[s] \in Nat /\ lost[s] = FactorD * gone[s] /\ lost[s] \in Nat
             /\ both[s] = FactorD * scores[s] /\ both[s] \in Nat
             /\ scores'[s] \in Nat /\ both[s] = scores'[s] + lost[s]
  <2> DEFINE v == scores[s]
             h == Lasts(v)
  <2>1. v \in Nat
    BY <1>1
  <2>2. gone[s] = (IF h THEN 0 ELSE v) /\ scores'[s] = (IF h THEN FactorD * v ELSE 0)
    BY DEF Deleted, DecayScore, DecayOne
  <2>3. lost[s] = FactorD * gone[s] /\ both[s] = FactorD * v
    OBVIOUS
  <2> HIDE DEF v, h, gone, lost, both
  <2>4. FactorD * v \in Nat /\ FactorD * 0 = 0
    BY <1>1, <2>1
  <2>5. CASE h
    BY <2>1, <2>2, <2>3, <2>4, <2>5 DEF v
  <2>6. CASE ~h
    BY <2>1, <2>2, <2>3, <2>4, <2>6 DEF v
  <2> QED
    BY <2>5, <2>6
<1>3. gone \in [Services -> Nat] /\ lost \in [Services -> Nat] /\ both \in [Services -> Nat]
  <2>1. gone \in [Services -> Nat]
    BY <1>2
  <2>2. lost \in [Services -> Nat]
    <3> HIDE DEF gone
    <3> QED
      BY <1>2
  <2>3. both \in [Services -> Nat]
    BY <1>2
  <2> QED
    BY <2>1, <2>2, <2>3
<1>4. scores' \in [Services -> Nat]
  BY <1>2 DEF DecayScore
<1>5. /\ totalScore' = FactorD * totalScore /\ scale' = FactorN * scale
      /\ forgotten' = FactorD * (forgotten + SumFunctionOnSet(gone, Services))
  BY DEF DecayScore, SumFunction
<1> HIDE DEF gone, lost, both
<1> DEFINE old == SumFunctionOnSet(scores, Services)
           new == SumFunctionOnSet(scores', Services)
           g == SumFunctionOnSet(gone, Services)
           l == SumFunctionOnSet(lost, Services)
           b == SumFunctionOnSet(both, Services)
<1>6. old \in Int /\ new \in Int /\ g \in Nat /\ l \in Int /\ b \in Int
  BY <1>1, <1>3, <1>4, ScoresSummable, NaturalSum
<1>7. b = new + l
  BY <1>2, <1>3, <1>4, ScoresSummable, SumPlus
<1>8. b = FactorD * old
  BY <1>1, <1>2, ScoresSummable, SumTimes
<1>9. l = FactorD * g
  BY <1>1, <1>2, <1>3, ScoresSummable, SumTimes
<1>10. old + forgotten = totalScore /\ forgotten' = FactorD * (forgotten + g)
  BY <1>1, <1>5
<1> HIDE DEF old, new, g, l, b
<1>11. FactorD * (forgotten + g) = FactorD * forgotten + FactorD * g
       /\ FactorD * (old + forgotten) = FactorD * old + FactorD * forgotten
  BY <1>1, <1>6
<1>12. FactorD * forgotten \in Nat /\ FactorD * g \in Nat /\ FactorD * old \in Int
       /\ FactorD * totalScore \in Nat /\ FactorN * scale \in Nat
  BY <1>1, <1>6
<1>13. new + forgotten' = totalScore'
  BY <1>5, <1>6, <1>7, <1>8, <1>9, <1>10, <1>11, <1>12
<1>14. forgotten' \in Nat /\ totalScore' \in Nat /\ scale' \in Nat
  BY <1>5, <1>10, <1>11, <1>12
<1> QED
  BY <1>4, <1>13, <1>14 DEF TotalConserved, new

\* Every step of every goroutine conserves the scores.
LEMMA NextScore == ScoreInv /\ [Next]_vars => ScoreInv'
<1> SUFFICES ASSUME ScoreInv, [Next]_vars PROVE ScoreInv'
  OBVIOUS
<1>0. ScoreTypes /\ TotalConserved
  BY DEF ScoreInv
<1> USE <1>0 DEF backendVars, syncVars
<1>1. CASE UNCHANGED <<pc, trace, scale, scores, totalScore, forgotten>>
  BY <1>1 DEF ScoreInv, ScoreTypes, TotalConserved
<1>2. ASSUME NEW t \in Threads, NEW s \in Services, NEW p \in Priorities,
             SampleRegister(t, s, p)
      PROVE  ScoreInv'
  <2>1. /\ pc' = [pc EXCEPT ![t] = "registered"]
        /\ trace' = [trace EXCEPT ![t] = [service |-> s, priority |-> p]]
        /\ UNCHANGED <<scale, scores, totalScore, forgotten>>
    BY <1>2 DEF SampleRegister
  <2>2. ScoreTypes'
    BY <2>1 DEF ScoreTypes
  <2> QED
    BY <2>1, <2>2 DEF ScoreInv, TotalConserved
<1>3. ASSUME NEW t \in Threads, SampleCountSignature(t) PROVE ScoreInv'
  <2>1. /\ pc[t] = "registered" /\ CountSignature(trace[t].service)
        /\ UNCHANGED <<scale, forgotten>>
    BY <1>3 DEF SampleCountSignature
  <2>2. trace[t].service \in Services
    BY <2>1 DEF ScoreTypes
  <2>3. TotalConserved' /\ scores' \in [Services -> Nat] /\ totalScore' \in Nat
    BY <2>1, <2>2, CountConserved
  <2>4. /\ DOMAIN pc' = Threads /\ DOMAIN trace' = Threads
        /\ \A u \in Threads : pc'[u] = "registered" => trace'[u].service \in Services
    BY <1>3 DEF SampleCountSignature, Return, ScoreTypes
  <2> QED
    BY <2>1, <2>3, <2>4 DEF ScoreInv, ScoreTypes
<1>4. ASSUME NEW t \in Threads, CountSample(t) PROVE ScoreInv'
  <2>1. ScoreTypes'
    BY <1>4 DEF CountSample, Return, ScoreTypes
  <2> QED
    BY <1>4, <2>1 DEF CountSample, ScoreInv, TotalConserved
<1>5. CASE DecayTick
  <2>1. DecayScore /\ UNCHANGED <<pc, trace>>
    BY <1>5 DEF DecayTick
  <2>2. /\ TotalConserved' /\ scores' \in [Services -> Nat] /\ totalScore' \in Nat
        /\ scale' \in Nat /\ forgotten' \in Nat
    BY <2>1, DecayConserved
  <2> QED
    BY <2>1, <2>2 DEF ScoreInv, ScoreTypes
<1>6. \/ UNCHANGED <<pc, trace, scale, scores, totalScore, forgotten>>
      \/ \E t \in Threads :
            \/ \E s \in Services, p \in Priorities : SampleRegister(t, s, p)
            \/ SampleCountSignature(t)
            \/ CountSample(t)
      \/ DecayTick
  BY DEF Next, Sample, SampleUncounted, Sync, SyncReadRates, SyncPruneCatalog, SyncSetAll, vars
<1> QED
  BY <1>1, <1>2, <1>3, <1>4, <1>5, <1>6

\* The total score that the default rate is computed from is, whatever decays fall
\* between the counts, the sum of the scores of the signatures and of the decayed scores
\* of the deleted entries: for every decay factor and every offset below which an entry
\* is deleted, in exact arithmetic.
THEOREM ScoresConserved == Spec => []TotalConserved
<1>1. Init => ScoreInv
  <2> SUFFICES ASSUME Init PROVE ScoreInv
    OBVIOUS
  <2>1. /\ scores \in [Services -> Nat] /\ (\A s \in Services : scores[s] = 0) /\ totalScore = 0
        /\ forgotten = 0 /\ scale = 1
    BY DEF Init, NewMemoryBackend
  <2>2. SumFunctionOnSet(scores, Services) = 0
    BY <2>1, ScoresSummable, SumZero
  <2>3. ScoreTypes
    BY <2>1 DEF Init, ScoreTypes
  <2> QED
    BY <2>1, <2>2, <2>3 DEF ScoreInv, TotalConserved
<1>2. ScoreInv => TotalConserved
  BY DEF ScoreInv
<1> QED
  BY <1>1, <1>2, NextScore, PTL DEF Spec
=============================================================================
