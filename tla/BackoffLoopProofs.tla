-------------------------- MODULE BackoffLoopProofs --------------------------
(***************************************************************************)
(* The backoff of RetryManager is sound for all integer options, given that*)
(* RetryManager.__init__ makes all three positive: TypeOK says so, and is  *)
(* the inductive invariant of both theorems.                               *)
(***************************************************************************)
EXTENDS BackoffLoop, TLAPS

\* Whatever the option, the value in force is positive.
LEMMA EffectivePositive ==
    ASSUME NEW option \in Int, NEW default \in Nat \ {0}
    PROVE  Effective(option, default) \in Nat \ {0}
BY DEF Effective

\* base * (attempt + 1) is the only product: positive and at least base.
LEMMA LinearBackoffBounds ==
    ASSUME NEW base \in Nat \ {0}, NEW cap \in Nat \ {0}, NEW n \in Nat
    PROVE  LinearBackoff(base, cap, n) \in 1 .. cap
<1> DEFINE x == base * (n + 1)
<1>1. x \in Nat \ {0}
  BY SMT
<1>2. LinearBackoff(base, cap, n) = IF x > cap THEN cap ELSE x
  BY DEF LinearBackoff
<1> HIDE DEF x
<1> QED
  BY <1>1, <1>2

\* The lower end of the window: half of the linear backoff, at least 1 ms.
LEMMA LowBackoffBounds ==
    ASSUME NEW linear \in Nat \ {0}
    PROVE  /\ LowBackoff(linear) \in 1 .. linear
           /\ 2 * LowBackoff(linear) + 1 >= linear
BY SMT DEF LowBackoff

\* The window handed to random.randint: never empty, never below 1 ms or half
\* of the linear backoff, never above the cap.
LEMMA WindowSound ==
    ASSUME NEW base \in Nat \ {0}, NEW cap \in Nat \ {0}, NEW n \in Nat
    PROVE  /\ calculate_backoff(base, cap, n) # {}
           /\ \A s \in calculate_backoff(base, cap, n) :
                 /\ s \in 1 .. cap
                 /\ 2 * s + 1 >= LinearBackoff(base, cap, n)
<1> DEFINE linear == LinearBackoff(base, cap, n)
<1>1. linear \in 1 .. cap
  BY LinearBackoffBounds
<1>2. LowBackoff(linear) \in 1 .. linear /\ 2 * LowBackoff(linear) + 1 >= linear
  BY <1>1, LowBackoffBounds
<1>3. calculate_backoff(base, cap, n) = LowBackoff(linear) .. linear
  BY DEF calculate_backoff
<1> HIDE DEF linear
<1>4. calculate_backoff(base, cap, n) # {}
  <2>1. linear \in LowBackoff(linear) .. linear
    BY <1>1, <1>2
  <2> QED
    BY <1>3, <2>1
<1>5. ASSUME NEW s \in calculate_backoff(base, cap, n)
      PROVE  s \in 1 .. cap /\ 2 * s + 1 >= linear
  BY <1>1, <1>2, <1>3
<1> QED
  BY <1>4, <1>5 DEF linear

\* RetryManager.__init__ replaces every option that is not positive.
LEMMA BackoffInitInv == Init => TypeOK
<1> SUFFICES ASSUME Init PROVE TypeOK
  OBVIOUS
<1>1. PICK r \in Options, b \in Options, c \in Options :
        /\ max_retries = Effective(r, DEFAULT_MAX_RETRIES)
        /\ base_backoff_ms = Effective(b, DEFAULT_BASE_BACKOFF_MS)
        /\ max_backoff_ms = Effective(c, DEFAULT_MAX_BACKOFF_MS)
  BY DEF Init
<1>2. r \in Int /\ b \in Int /\ c \in Int
  BY BackoffLoopAssumption
<1>3. /\ max_retries \in Nat \ {0}
      /\ base_backoff_ms \in Nat \ {0}
      /\ max_backoff_ms \in Nat \ {0}
  BY <1>1, <1>2, EffectivePositive
     DEF DEFAULT_MAX_RETRIES, DEFAULT_BASE_BACKOFF_MS, DEFAULT_MAX_BACKOFF_MS
<1> QED
  BY <1>3 DEF Init, TypeOK

\* A failure within the limit and a wake-up keep the types.
LEMMA BackoffStepInv == TypeOK /\ [Next]_vars => TypeOK'
<1> SUFFICES ASSUME TypeOK, [Next]_vars PROVE TypeOK'
  OBVIOUS
<1>1. CASE Retry
  <2>1. attempts \in Nat /\ sleep' \in 1 .. max_backoff_ms
    BY <1>1, WindowSound DEF Retry, TypeOK
  <2> QED
    BY <1>1, <2>1 DEF Retry, TypeOK, options
<1>2. CASE Wake
  BY <1>2 DEF Wake, TypeOK, options
<1>3. CASE UNCHANGED vars
  BY <1>3 DEF vars, TypeOK, options
<1> QED
  BY <1>1, <1>2, <1>3 DEF Next

\* The options are effective, hence positive, and a sleep that is under way is at
\* least 1 ms and at most the cap, whatever integers the application passes.
THEOREM BackoffTypeOK == Spec => []TypeOK
BY BackoffInitInv, BackoffStepInv, PTL DEF Spec

\* random.randint is never called with low > high, whatever the application put
\* into ProducerOptions or ConsumerOptions.
THEOREM BackoffRetryPossible == Spec => []RetryPossible
<1>1. TypeOK => RetryPossible
  BY WindowSound DEF TypeOK, RetryPossible, Window
<1> QED
  BY BackoffInitInv, BackoffStepInv, <1>1, PTL DEF Spec

\* Every sleep between two attempts is at least 1 ms, at least half of the
\* linear backoff, and at most the cap.
THEOREM BackoffSleepInBounds == Spec => SleepInBounds
<1> DEFINE A == attempts' # attempts =>
                  /\ sleep' >= 1
                  /\ sleep' <= max_backoff_ms
                  /\ 2 * sleep' + 1 >= LinearBackoff(base_backoff_ms, max_backoff_ms, attempts)
<1>1. TypeOK /\ [Next]_vars => [A]_vars
  <2> SUFFICES ASSUME TypeOK, Retry \/ Wake PROVE A
    BY DEF Next
  <2>1. CASE Retry
    <3>1. /\ base_backoff_ms \in Nat \ {0} /\ max_backoff_ms \in Nat \ {0} /\ attempts \in Nat
          /\ sleep' \in calculate_backoff(base_backoff_ms, max_backoff_ms, attempts)
      BY <2>1 DEF Retry, TypeOK
    <3>2. /\ sleep' \in 1 .. max_backoff_ms
          /\ 2 * sleep' + 1 >= LinearBackoff(base_backoff_ms, max_backoff_ms, attempts)
      BY <3>1, WindowSound
    <3> QED
      BY <3>1, <3>2
  <2>2. CASE Wake
    BY <2>2 DEF Wake
  <2> QED
    BY <2>1, <2>2
<1> QED
  BY BackoffInitInv, BackoffStepInv, <1>1, PTL DEF Spec, SleepInBounds
=============================================================================
