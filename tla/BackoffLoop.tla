----------------------------- MODULE BackoffLoop -----------------------------
(***************************************************************************)
(* One retry loop on its own: the backoff of RetryManager for every choice *)
(* of the three options, which the application passes on unchecked in      *)
(* ProducerOptions and ConsumerOptions. The shape is that of the loops in  *)
(* Producer.send, TopicProducer.create and TopicConsumer.subscribe: sleep, *)
(* try again, give up after more than max_retries failures.                *)
(***************************************************************************)
EXTENDS RetryManager

CONSTANT Options     \* values for max_retries, base_ and max_backoff_ms

ASSUME BackoffLoopAssumption == Options \subseteq Int

VARIABLES max_retries, base_backoff_ms, max_backoff_ms,  \* of the RetryManager
          attempts,   \* failures so far
          sleep       \* milliseconds to sleep now, 0 while an attempt runs

options == <<max_retries, base_backoff_ms, max_backoff_ms>>
vars == <<options, attempts, sleep>>

\* RetryManager.__init__.
Init ==
    /\ \E r, b, c \in Options :
          /\ max_retries = Effective(r, DEFAULT_MAX_RETRIES)
          /\ base_backoff_ms = Effective(b, DEFAULT_BASE_BACKOFF_MS)
          /\ max_backoff_ms = Effective(c, DEFAULT_MAX_BACKOFF_MS)
    /\ attempts = 0
    /\ sleep = 0

\* The attempt fails and the loop goes on: calculate_backoff(attempts - 1) with
\* the new value of attempts.
Retry ==
    /\ sleep = 0
    /\ attempts + 1 <= max_retries
    /\ attempts' = attempts + 1
    /\ sleep' \in calculate_backoff(base_backoff_ms, max_backoff_ms, attempts)
    /\ UNCHANGED options

\* asyncio.sleep returns and the next attempt starts.
Wake ==
    /\ sleep > 0
    /\ sleep' = 0
    /\ UNCHANGED <<options, attempts>>

Next == Retry \/ Wake

Spec == Init /\ [][Next]_vars
-----------------------------------------------------------------------------
TypeOK ==
    /\ max_retries \in Nat \ {0}
    /\ base_backoff_ms \in Nat \ {0}
    /\ max_backoff_ms \in Nat \ {0}
    /\ attempts \in 0 .. max_retries
    /\ sleep \in 0 .. max_backoff_ms

Window(n) == calculate_backoff(base_backoff_ms, max_backoff_ms, n)

\* A loop that may go on always can: the window handed to random.randint is
\* never empty (it would raise ValueError out of send()), whatever the options.
RetryPossible == attempts < max_retries => Window(attempts) # {}

\* A loop that retries never spins: it sleeps at least 1 ms and at least half of
\* the linear backoff between two attempts, and never longer than the cap.
SleepInBounds ==
    [][ attempts' # attempts =>
          /\ sleep' >= 1
          /\ sleep' <= max_backoff_ms
          /\ 2 * sleep' + 1 >= LinearBackoff(base_backoff_ms, max_backoff_ms, attempts)
      ]_vars
=============================================================================
