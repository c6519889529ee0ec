----------------------------- MODULE CircuitBreaker -----------------------------
\* What one circuit breaker promises to the callers of its model, whatever the
\* other models and breakers do.  It opens when the failures since it last closed
\* reach the threshold; every further failure starts its window anew; it closes
\* when a call that was out is answered, or when somebody enters after the window;
\* and nobody enters before.  Who is in may try again, open or not.
EXTENDS Naturals

CONSTANTS
  Caller,
  Threshold, Window,  \* failures that open it, seconds it stays open
  None

VARIABLES
  count,  \* failures since it last closed
  since,  \* None when closed, or the seconds since it opened, up to Window
  inside, \* the callers that have turned to the model and not yet left it
  out     \* those of them that are waiting for its answer

breaker == <<count, since, inside, out>>

Init == count = 0 /\ since = None /\ inside = {} /\ out = {}

Closed == count' = 0 /\ since' = None

Enter(c) ==
  /\ c \notin inside
  /\ inside' = inside \cup {c} /\ out' = out \cup {c}
  /\ \/ since = None /\ UNCHANGED <<count, since>>
     \/ since = Window /\ Closed

Leave(c) == inside' = inside \ {c} /\ out' = out \ {c}

Succeed(c) == c \in out /\ Leave(c) /\ Closed

Fail(c) ==
  /\ c \in out
  /\ out' = out \ {c} /\ inside' \in {inside, inside \ {c}}
  /\ count' = count + 1
  /\ since' = IF count' >= Threshold THEN 0 ELSE since

TryAgain(c) ==
  /\ c \in inside \ out
  /\ out' = out \cup {c}
  /\ UNCHANGED <<count, since, inside>>

GiveUp(c) == c \in inside /\ Leave(c) /\ UNCHANGED <<count, since>>

Age ==
  /\ since # None /\ since < Window
  /\ since' = since + 1
  /\ UNCHANGED <<count, inside, out>>

Next ==
  \/ Age
  \/ \E c \in Caller : Enter(c) \/ Succeed(c) \/ Fail(c) \/ TryAgain(c) \/ GiveUp(c)

Step == Next \/ UNCHANGED breaker

Spec == Init /\ [][Next]_breaker
================================================================================
