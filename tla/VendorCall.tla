----------------------------- MODULE VendorCall -----------------------------
(* One HTTP client of a connector and the calls made through it: the slots    *)
(* of RateLimiter, the retries of installHttpPolicy() and the interceptor     *)
(* that init() adds for an expired bearer.                                    *)
EXTENDS Naturals, FiniteSets

CONSTANTS
  Call,         \* calls to the vendor
  Interval,     \* 1000 / requestsPerSecond, on the model's clock
  MaxRetries,   \* opts.maxRetries
  Delays,       \* what Retry-After or the backoff may ask for
  MaxRepeats,   \* bound: repetitions after a 401 of one call
  MaxTime       \* bound: the clock

VARIABLES
  time,
  inits,            \* the init() calls so far: each makes a limiter of its own
  nextAvailableAt,  \* of the client's limiter
  call              \* per call: where it is, its client, slot, due time, counts

callVars == <<time, inits, nextAvailableAt, call>>

Unsent == [at |-> "new", of |-> 0, slot |-> 0, due |-> 0, crmRetryCount |-> 0,
           repeats |-> 0]

Init ==
  /\ time = 0 /\ inits = 0
  /\ nextAvailableAt = [n \in {0, 1} |-> 0]
  /\ call = [c \in Call |-> Unsent]

Later(s, t) == IF s < t THEN t ELSE s

\* Mutant: the interval is counted from now, not from the slot.
NextAfterNow(at) == time + Interval

NextAfter(at) == at + Interval

\* limiter.acquire(), in the client's request interceptor
Acquire(c, n, entry) ==
  LET at == Later(time, nextAvailableAt[n]) IN
  /\ nextAvailableAt' = [nextAvailableAt EXCEPT ![n] = NextAfter(at)]
  /\ call' = [call EXCEPT ![c] = [entry EXCEPT !.at = "queued", !.slot = at,
                                               !.of = n, !.due = 0]]

Request(c) ==
  /\ call[c].at = "new"
  /\ Acquire(c, inits, call[c])
  /\ UNCHANGED <<time, inits>>

\* The timer of the slot; timers may be late.
Send(c) ==
  /\ call[c].at = "queued" /\ call[c].slot <= time
  /\ call' = [call EXCEPT ![c].at = "sent"]
  /\ UNCHANGED <<time, inits, nextAvailableAt>>

\* The caller has its answer: a reply, an error that the policy does not handle
\* (below 500 and not 429), a 429 or 5xx after the last retry, or a 401 for which
\* getAccessToken() finds no session.
Ends(c) ==
  /\ call[c].at = "sent"
  /\ call' = [call EXCEPT ![c] = [Unsent EXCEPT !.at = "over"]]
  /\ UNCHANGED <<time, inits, nextAvailableAt>>

\* 429 or 5xx
Throttled(c) ==
  /\ call[c].at = "sent" /\ call[c].crmRetryCount < MaxRetries
  /\ \E d \in Delays :
       call' = [call EXCEPT ![c].at = "backoff", ![c].due = time + d,
                            ![c].slot = 0, ![c].crmRetryCount = @ + 1]
  /\ UNCHANGED <<time, inits, nextAvailableAt>>

\* The retry goes through the client, and its limiter, once more.
Retry(c) ==
  /\ call[c].at = "backoff" /\ call[c].due <= time
  /\ Acquire(c, call[c].of, call[c])
  /\ UNCHANGED <<time, inits>>

\* 401: a session is fetched, the defaults get its bearer, and the request is
\* repeated as it was, its own header included. Nothing counts these.
Unauthorized(c) ==
  /\ call[c].at = "sent" /\ call[c].repeats < MaxRepeats
  /\ Acquire(c, call[c].of, [call[c] EXCEPT !.repeats = @ + 1])
  /\ UNCHANGED <<time, inits>>

\* init() again
Reinit ==
  /\ inits = 0
  /\ inits' = 1
  /\ UNCHANGED <<time, nextAvailableAt, call>>

Tick ==
  /\ time < MaxTime
  /\ time' = time + 1
  /\ UNCHANGED <<inits, nextAvailableAt, call>>

Next == \/ Reinit \/ Tick
        \/ \E c \in Call : \/ Request(c) \/ Send(c) \/ Ends(c) \/ Throttled(c)
                           \/ Retry(c) \/ Unauthorized(c)

Spec == Init /\ [][Next]_callVars

-----------------------------------------------------------------------------
TypeOK ==
  /\ time \in 0 .. MaxTime /\ inits \in {0, 1}
  /\ nextAvailableAt \in [{0, 1} -> Nat]
  /\ call \in [Call -> [at : {"new", "queued", "sent", "backoff", "over"},
                        of : {0, 1}, slot : Nat, due : Nat,
                        crmRetryCount : 0 .. MaxRetries,
                        repeats : 0 .. MaxRepeats]]

HasSlot(c) == call[c].at \in {"queued", "sent"}

\* A burst cannot exceed the vendor's limit (rateLimiter.ts:1-5): the slots of
\* two requests of one client that wait or are under way are an interval apart,
\* whatever retries, late timers and idle time lie between them.
SlotsSpaced ==
  \A c, d \in Call :
    c # d /\ HasSlot(c) /\ HasSlot(d) /\ call[c].of = call[d].of =>
      call[c].slot + Interval <= call[d].slot \/ call[d].slot + Interval <= call[c].slot

\* The same across an initialization, which begins with an idle limiter.
SlotsSpacedAcrossClients ==
  \A c, d \in Call :
    c # d /\ HasSlot(c) /\ HasSlot(d) =>
      call[c].slot + Interval <= call[d].slot \/ call[d].slot + Interval <= call[c].slot

\* "Refresh the bearer on 401 once" (salesforceConnector.ts:53).
RefreshedOnce == \A c \in Call : call[c].repeats <= 1
=============================================================================
