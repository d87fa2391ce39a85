----------------------------- MODULE NiceHashCall -----------------------------
(***************************************************************************)
(* One call of the NiceHash client (nicehash-client/src/client.ts): its    *)
(* attempts, which of its failures are tried again, and what the exchange  *)
(* does with each request, an abandoned one included.                      *)
(***************************************************************************)
EXTENDS Naturals

CONSTANTS
    Class,        \* retry class of the endpoint: "read", "mutate" or "cancel"
    MaxRetries,   \* attempts of a call
    Authorized    \* the endpoint is public, or there are credentials

VARIABLES
    callPc,         \* "send", "wait", "asleep"; then "returned" or "threw"
    attempt,    \* attempts made
    error,      \* what the last one failed with
    request,    \* the request waited for: "held" by the exchange or "applied"
    stray,      \* requests given up that the exchange may yet carry out
    applied     \* requests it has carried out

callVars == <<callPc, attempt, error, request, stray, applied>>

CallInit ==
    /\ callPc = "send" /\ attempt = 0 /\ error = "none"
    /\ request = "held" /\ stray = 0 /\ applied = 0

-----------------------------------------------------------------------------
(* The client. *)

\* retryOpts and isTransient().  A failure while the body is read is neither an API error
\* nor a NiceHashNetworkError.
IsTransient(failure) ==
    \/ failure = "limited"
    \/ Class \in {"read", "cancel"} /\ failure \in {"server", "network"}

Attempt ==
    /\ callPc = "send" /\ Authorized
    /\ callPc' = "wait" /\ attempt' = attempt + 1 /\ request' = "held"
    /\ UNCHANGED <<error, stray, applied>>

\* NiceHashAuthMissingError: nothing is sent.
Unauthorized ==
    /\ callPc = "send" /\ ~Authorized
    /\ callPc' = "threw" /\ error' = "auth"
    /\ UNCHANGED <<attempt, request, stray, applied>>

\* The catch of withRetry().
Fails(failure) ==
    /\ error' = failure
    /\ callPc' = (IF attempt >= MaxRetries \/ ~IsTransient(failure) THEN "threw" ELSE "asleep")
    /\ UNCHANGED <<attempt, request, applied>>

Retry ==
    /\ callPc = "asleep" /\ callPc' = "send"
    /\ UNCHANGED <<attempt, error, request, stray, applied>>

-----------------------------------------------------------------------------
(* The exchange. *)

CarryOut ==
    /\ callPc = "wait" /\ request = "held"
    /\ request' = "applied" /\ applied' = applied + 1
    /\ UNCHANGED <<callPc, attempt, error, stray>>

\* A request that timed out, or was answered by a 5xx, is carried out after all, or dropped.
StrayEnds ==
    /\ stray > 0 /\ stray' = stray - 1
    /\ applied' \in {applied, applied + 1}
    /\ UNCHANGED <<callPc, attempt, error, request>>

Succeeds ==
    /\ callPc = "wait" /\ request = "applied"
    /\ callPc' = "returned"
    /\ UNCHANGED <<attempt, error, request, stray, applied>>

\* 4xx, 429 among them: not carried out.
Refuses ==
    /\ callPc = "wait" /\ request = "held"
    /\ \/ Fails("refused")
       \/ Fails("limited")
    /\ UNCHANGED stray

\* 5xx, or a connection that breaks or times out: carried out or not, or not yet.
Breaks ==
    /\ callPc = "wait"
    /\ stray' = (IF request = "held" THEN stray + 1 ELSE stray)
    /\ \/ Fails("server")
       \/ Fails("network")

\* The answer's head comes through and its body does not.
BodyLost ==
    /\ callPc = "wait" /\ request = "applied"
    /\ Fails("body")
    /\ UNCHANGED stray

CallNext ==
    \/ Attempt \/ Unauthorized \/ Retry
    \/ CarryOut \/ StrayEnds \/ Succeeds \/ Refuses \/ Breaks \/ BodyLost

CallSpec == CallInit /\ [][CallNext]_callVars

-----------------------------------------------------------------------------

\* What the caller is told.
Outcome ==
    CASE callPc = "returned" -> "done"
      [] callPc = "threw" /\ error \in {"refused", "limited", "auth"} -> "refused"
      [] callPc = "threw" /\ error \notin {"refused", "limited", "auth"} -> "unknown"
      [] OTHER -> "pending"

Once == INSTANCE SingleEffect WITH effect <- applied, outcome <- Outcome
=============================================================================
