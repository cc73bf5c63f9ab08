------------------------------ MODULE TxRetrier ------------------------------
(***************************************************************************)
(* WaitForTransactionWithRetry (pkg/txutil/retry.go): SendTransactionWith- *)
(* Retry sends one signed transaction, retrying after a backoff on the     *)
(* errors IsRetryableError accepts, then WaitForConfirmation waits for it. *)
(*                                                                         *)
(* The node is seen through the one transaction: whether it sits in the    *)
(* node's pool (pooled) and whether and how it was mined (ReceiptChain).   *)
(* What SendTransaction answers depends on that state, and the network may *)
(* lose the request or the response.  The wait is the abstract receipt     *)
(* wait ReceiptWait, which ConfirmationWaiter is shown to implement (run   *)
(* cw_refines), so its steps stand for those of WaitForConfirmation.       *)
(***************************************************************************)
EXTENDS ReceiptChain, Integers

CONSTANTS
    MaxRetries,      \* RetryConfig.MaxRetries
    InitialBackoff,  \* RetryConfig.InitialBackoff, in ticks
    MaxBackoff,      \* RetryConfig.MaxBackoff
    MultNum,         \* RetryConfig.BackoffMultiple = MultNum / MultDen,
    MultDen,         \*   a binary fraction, exact in float64
    MaxConfirmations \* the calls checked ask for 0..MaxConfirmations

ASSUME TxRetrierAssumption ==
    /\ MaxRetries \in Int
    /\ {InitialBackoff, MaxBackoff, MultNum, MaxConfirmations} \subseteq Nat
    /\ MultDen \in Nat \ {0}

\* The errors SendTransaction can return, by their message: "nonce too
\* low", "already known", "replacement transaction underpriced",
\* "insufficient funds for gas", an i/o timeout, "connection refused",
\* "connection reset by peer", and the context's own error ("context
\* deadline exceeded" or "context canceled").
SendError == {"nonceTooLow", "alreadyKnown", "insufficientFunds", "ioTimeout",
              "connRefused", "connReset", "ctxErr"}

\* IsRetryableError: the lower-cased message contains one of the listed
\* substrings.  Only "insufficient funds" and the context's error contain
\* none of them.
IsRetryableError(e) == e \notin {"insufficientFunds", "ctxErr"}

\* Mutant: the cap is not applied.
GrowBackoffUncapped(b) == (b * MultNum) \div MultDen

\* Mutant: at the cap the backoff starts again from the initial value.
GrowBackoffResetAtCap(b) ==
    LET grown == (b * MultNum) \div MultDen
    IN  IF grown > MaxBackoff THEN InitialBackoff ELSE grown

\* backoff = time.Duration(float64(backoff) * BackoffMultiple), capped.
GrowBackoff(b) ==
    LET grown == (b * MultNum) \div MultDen
    IN  IF grown > MaxBackoff THEN MaxBackoff ELSE grown

VARIABLES
    phase,       \* "send", "backoff", "waiting" (WaitForConfirmation), "done"
    attempt,     \* the loop variable of SendTransactionWithRetry
    backoff,
    lastWait,    \* the backoff last waited (0 before the first retry)
    lastErr,     \* "none" or the error of the last attempt
    sendResult,  \* "none", "sent", "nonRetryable", "maxRetries", "canceled"
    pooled,      \* the transaction is in the node's pool
    waitResult,  \* the wait's result ("pending" until it returns)
    expired,     \* the caller's context is done
    confirmations \* the argument of the call

retrierVars == <<phase, attempt, backoff, lastWait, lastErr, sendResult>>
vars == <<retrierVars, pooled, waitResult, expired, confirmations, chainVars>>

\* WaitForConfirmation as its abstract specification.
W == INSTANCE ReceiptWait WITH result <- waitResult, depth <- confirmations

SendResult == {"none", "sent", "nonRetryable", "maxRetries", "canceled"}

TypeOK ==
    /\ ChainTypeOK
    /\ phase \in {"send", "backoff", "waiting", "done"}
    /\ attempt \in 0..(IF MaxRetries < 0 THEN 0 ELSE MaxRetries + 1)
    /\ backoff \in 0..(IF InitialBackoff > MaxBackoff THEN InitialBackoff ELSE MaxBackoff)
    /\ lastWait \in Nat
    /\ lastErr \in SendError \cup {"none"}
    /\ sendResult \in SendResult
    /\ pooled \in BOOLEAN
    /\ waitResult \in W!Outcome \cup {"pending"}
    /\ expired \in BOOLEAN
    /\ confirmations \in 0..MaxConfirmations

\* The loop starts at attempt 0 with the initial backoff; a negative
\* MaxRetries skips it.
Init ==
    /\ ChainInit
    /\ attempt = 0
    /\ backoff = InitialBackoff
    /\ lastWait = 0
    /\ lastErr = "none"
    /\ pooled = FALSE
    /\ waitResult = "pending"
    /\ expired = FALSE
    /\ confirmations \in 0..MaxConfirmations
    /\ IF MaxRetries >= 0
         THEN phase = "send" /\ sendResult = "none"
         ELSE phase = "done" /\ sendResult = "maxRetries"

\* Mutant: a retryable error goes round the loop without counting.
FailedNoCount(e) ==
    /\ lastErr' = e
    /\ \/ /\ ~IsRetryableError(e)
          /\ phase' = "done" /\ sendResult' = "nonRetryable"
       \/ /\ IsRetryableError(e)
          /\ phase' = "backoff"
          /\ UNCHANGED sendResult
    /\ UNCHANGED <<attempt, backoff, lastWait>>

\* An attempt that returned the error e: return it unless it is
\* retryable, return "max retries exceeded" after the last attempt, and
\* otherwise go round the loop to the backoff.
Failed(e) ==
    /\ lastErr' = e
    /\ \/ /\ ~IsRetryableError(e)
          /\ phase' = "done" /\ sendResult' = "nonRetryable"
          /\ UNCHANGED attempt
       \/ /\ IsRetryableError(e)
          /\ attempt = MaxRetries
          /\ phase' = "done" /\ sendResult' = "maxRetries"
          /\ attempt' = attempt + 1
       \/ /\ IsRetryableError(e)
          /\ attempt < MaxRetries
          /\ phase' = "backoff" /\ attempt' = attempt + 1
          /\ UNCHANGED sendResult
    /\ UNCHANGED <<backoff, lastWait>>

\* What the node answers a transaction it does not have: it admits it,
\* or refuses it for the balance.
Unknown == ~pooled /\ mined = NotMined

\* SendTransaction returns nil: the node admitted the transaction (or,
\* already holding it, accepted it again).  The hash is returned and
\* WaitForConfirmation starts.
SendOk ==
    /\ phase = "send"
    /\ ~expired
    /\ mined = NotMined
    /\ pooled' = TRUE
    /\ phase' = "waiting"
    /\ sendResult' = "sent"
    /\ UNCHANGED <<attempt, backoff, lastWait, lastErr, waitResult, expired, confirmations, chainVars>>

\* The node admitted the transaction but the response is lost: the call
\* returns a transport error, or the context's error when the deadline
\* fell during the call.
SendLost ==
    /\ phase = "send"
    /\ ~expired
    /\ mined = NotMined
    /\ pooled' = TRUE
    /\ \E e \in {"ioTimeout", "connReset", "ctxErr"} : Failed(e)
    /\ UNCHANGED <<waitResult, expired, confirmations, chainVars>>

\* The request never reached the node; with a context already done the
\* call fails at once with the context's error.
SendUndelivered ==
    /\ phase = "send"
    /\ \E e \in IF expired THEN {"ctxErr"} ELSE {"ioTimeout", "connRefused", "connReset"} :
           Failed(e)
    /\ UNCHANGED <<pooled, waitResult, expired, confirmations, chainVars>>

\* The node refuses: a transaction it already pools is "already known",
\* a mined one's nonce is "too low", an unknown one lacks funds.
SendRefused ==
    /\ phase = "send"
    /\ ~expired
    /\ \E e \in SendError :
          /\ \/ pooled /\ e = "alreadyKnown"
             \/ mined # NotMined /\ e = "nonceTooLow"
             \/ Unknown /\ e = "insufficientFunds"
          /\ Failed(e)
    /\ UNCHANGED <<pooled, waitResult, expired, confirmations, chainVars>>

\* select case <-ctx.Done(): return ctx.Err().
BackoffCanceled ==
    /\ phase = "backoff"
    /\ expired
    /\ phase' = "done"
    /\ sendResult' = "canceled"
    /\ UNCHANGED <<attempt, backoff, lastWait, lastErr, pooled, waitResult, expired, confirmations, chainVars>>

\* select case <-time.After(backoff): grow the backoff, then send again.
BackoffElapsed ==
    /\ phase = "backoff"
    /\ lastWait' = backoff
    /\ backoff' = GrowBackoff(backoff)
    /\ phase' = "send"
    /\ UNCHANGED <<attempt, lastErr, sendResult, pooled, waitResult, expired, confirmations, chainVars>>

\* WaitForConfirmation returns; WaitForTransactionWithRetry returns the
\* receipt or the wrapped error.
WaitReturns ==
    /\ phase = "waiting"
    /\ \/ W!Confirm \/ W!FailOnchain \/ W!TimeOut \/ W!GiveUp
    /\ phase' = "done"
    /\ UNCHANGED <<attempt, backoff, lastWait, lastErr, sendResult, pooled>>

\* The caller's context ends.
Expire ==
    /\ phase # "done"
    /\ ~expired
    /\ expired' = TRUE
    /\ UNCHANGED <<retrierVars, pooled, waitResult, confirmations, chainVars>>

\* The node mines the pooled transaction, or another block.
Mine ==
    /\ pooled
    /\ MineTx
    /\ pooled' = FALSE
    /\ UNCHANGED <<retrierVars, waitResult, expired, confirmations>>

Block ==
    /\ NewBlock
    /\ UNCHANGED <<retrierVars, pooled, waitResult, expired, confirmations>>

Send == SendOk \/ SendLost \/ SendUndelivered \/ SendRefused

Next ==
    \/ Send \/ BackoffCanceled \/ BackoffElapsed \/ WaitReturns
    \/ Expire \/ Mine \/ Block

Spec == Init /\ [][Next]_vars

\* The goroutine runs and time.After fires: each attempt and each backoff
\* ends.  Nothing is assumed of the node or of the caller's context.
FairSpec == Spec /\ WF_vars(Send) /\ WF_vars(BackoffElapsed)

-----------------------------------------------------------------------------
(* Properties *)

\* SendTransactionWithRetry ends: after at most MaxRetries + 1 attempts it
\* returns the hash (and the wait starts) or an error, whatever the node
\* answers and whether or not the caller's context ever ends.
SendTerminates == <>(phase \in {"waiting", "done"})

\* With a multiplier of at least 1 and an initial backoff within the cap,
\* the backoffs waited between attempts never shrink and never exceed
\* MaxBackoff: the growth and the cap applied after each wait keep the
\* retries spaced out as configured.
BackoffMonotone ==
    [][ /\ MultNum >= MultDen
        /\ InitialBackoff <= MaxBackoff
        /\ lastWait' # lastWait
        => lastWait <= lastWait' /\ lastWait' <= MaxBackoff ]_vars

\* The design's sent flag (spec 4.7) takes an error of the send as the
\* signal that the nonce is safe to reclaim, and the retrier (spec 4.4)
\* surfaces "max retries exceeded" once its retries are spent: such an
\* error should mean the transaction never reached the node, neither
\* pooled nor mined.  Retrying "already known" and "nonce too low" (which
\* say the opposite) in place makes this a question.
SendErrorMeansUnsent ==
    sendResult = "maxRetries" => ~pooled /\ mined = NotMined

=============================================================================
