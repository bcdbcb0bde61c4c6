----------------------------- MODULE Transport -----------------------------
(***************************************************************************)
(* The decisions of httpc's retrying transport and of its error            *)
(* classification as operators: which outcome of a round trip is tried     *)
(* again (httpc/transport.go), after which wait, and which Fault the       *)
(* caller is told (httpc/fault.go). Durations are integers in some unit;   *)
(* the arithmetic on them has the width of a time.Duration.                *)
(***************************************************************************)
EXTENDS Integers

CONSTANTS
  MaxRetries,  \* RetryConfig.MaxRetries
  BaseDelay,   \* RetryConfig.BaseDelay
  MaxDelay,    \* RetryConfig.MaxDelay; 0 sets no limit to a Retry-After
  Second,      \* time.Second, in the unit of the durations
  Width,       \* bits of a time.Duration
  Demands      \* the numbers of seconds servers put into a Retry-After

\* BaseDelay may not start above the cap: RoundTrip caps only what it doubles.
ASSUME TransportAssumption ==
  /\ MaxRetries \in Nat /\ BaseDelay \in Nat /\ MaxDelay \in Nat
  /\ BaseDelay <= MaxDelay \/ MaxDelay = 0
  /\ Second \in Nat \ {0} /\ Width \in Nat \ {0} /\ Demands \subseteq Nat
-----------------------------------------------------------------------------
(* Plausible mistakes in this code, for checking that the properties see them *)

ExceedsMut_SleptOut(d) == FALSE
-----------------------------------------------------------------------------
(* What a round trip comes to *)

\* The statuses the code tells apart. "down" is any 5xx but 501, "odd" any
\* other status outside 2xx.
Statuses == {"ok", "unauthorized", "forbidden", "not_found", "conflict",
             "too_many", "not_allowed", "not_implemented", "down", "odd"}

\* Besides a status, a transport error or an error of the request's context.
Outcomes == Statuses \cup {"lost", "cancelled"}

\* The outcomes RoundTrip tries again, for a method that is idempotent.
Transient(out) == out \in {"lost", "too_many", "not_implemented", "down"}

\* Classify, on the error a call returns. "undecodable" is a 2xx whose body is
\* not the JSON it should be.
Classify(out) ==
  CASE out = "ok" -> "none"
    [] out \in {"unauthorized", "forbidden"} -> "auth"
    [] out \in {"not_found", "conflict"} -> out
    [] out = "too_many" -> "rate_limited"
    [] out \in {"not_allowed", "not_implemented"} -> "unsupported"
    [] out \in {"down", "lost", "cancelled"} -> "unavailable"
    [] OTHER -> "unknown"
-----------------------------------------------------------------------------
(* How long to wait *)

\* Go's multiplication of two 64-bit integers keeps the low bits.
Int64(x) == ((x + 2^(Width - 1)) % 2^Width) - 2^(Width - 1)

\* The Retry-After headers: absent, unreadable or negative, a number of seconds,
\* or a date so far ahead.
NoHeader == <<"none", 0>>
Headers == {NoHeader} \cup ({"seconds"} \X Demands) \cup ({"date"} \X {-1, 1, MaxDelay + 1})

\* How long the server asks the client to stay away.
Asked(h) == IF h[1] = "seconds" THEN h[2] * Second ELSE h[2]

\* The duration read from a header, in a set that is empty when there is none.
ParseRetryAfter(h) ==
  CASE h[1] = "seconds" -> {Int64(h[2] * Second)}
    [] h[1] = "date"    -> {IF h[2] > 0 THEN h[2] ELSE 0}
    [] OTHER            -> {}

\* A demand the transport does not wait out.
Exceeds(d) == MaxDelay > 0 /\ d > MaxDelay

\* The waits backoffFor may return: what the header asks for or, without one,
\* the delay jittered down by up to half. Empty: the retries end here.
BackoffFor(h, delay) ==
  IF ParseRetryAfter(h) # {}
  THEN {d \in ParseRetryAfter(h) : ~Exceeds(d)}
  ELSE (delay \div 2)..(2 * (delay \div 2))

\* The delay of the next attempt.
Doubled(delay) ==
  IF delay >= MaxDelay THEN delay
  ELSE IF 2 * delay > MaxDelay THEN MaxDelay ELSE 2 * delay
=============================================================================
