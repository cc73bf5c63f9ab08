--------------------------- MODULE TxRetrierProofs ---------------------------
(***************************************************************************)
(* Proofs about WaitForTransactionWithRetry (TxRetrier), for every retry   *)
(* configuration the type RetryConfig admits (any MaxRetries, backoffs and *)
(* a multiplier MultNum / MultDen): its states are well typed, and with a  *)
(* multiplier of at least 1 and an initial backoff within the cap the      *)
(* backoffs it waits never shrink and never pass the cap.                  *)
(***************************************************************************)
EXTENDS TxRetrier, TLAPS

\* The cap of the backoff range in TypeOK.
BackoffCap == IF InitialBackoff > MaxBackoff THEN InitialBackoff ELSE MaxBackoff

\* The loop sends and backs off only while attempt <= MaxRetries.
AttemptInLoop == phase \in {"send", "backoff"} => attempt <= MaxRetries

\* Under the hypotheses of BackoffMonotone, the backoff about to be waited
\* is at least the last one waited, and within the cap.
BackoffBounds ==
    MultNum >= MultDen /\ InitialBackoff <= MaxBackoff =>
        lastWait <= backoff /\ backoff <= MaxBackoff

IInv == TypeOK /\ AttemptInLoop /\ BackoffBounds

-----------------------------------------------------------------------------
(* Lemmas about the growth of the backoff *)

\* The product and the quotient of the growth are natural numbers.
LEMMA GrownNat ==
    ASSUME NEW b \in Nat
    PROVE  (b * MultNum) \div MultDen \in Nat
<1>1. b * MultNum \in Nat
    BY TxRetrierAssumption
<1>2. QED
    BY <1>1, TxRetrierAssumption

\* A grown backoff stays within the cap of TypeOK.
LEMMA GrowInRange ==
    ASSUME NEW b \in Nat
    PROVE  GrowBackoff(b) \in 0..BackoffCap
BY GrownNat, TxRetrierAssumption DEF GrowBackoff, BackoffCap

\* With a multiplier of at least 1 the backoff does not shrink below b
\* before the cap, and the cap is never passed.
LEMMA GrowMonotone ==
    ASSUME NEW b \in Nat, MultNum >= MultDen, b <= MaxBackoff
    PROVE  b <= GrowBackoff(b) /\ GrowBackoff(b) <= MaxBackoff
<1> DEFINE grown == (b * MultNum) \div MultDen
<1>1. b * MultDen <= b * MultNum
    BY TxRetrierAssumption
<1>2. (b * MultDen) \div MultDen = b
    BY TxRetrierAssumption
<1>3. b <= grown
    BY <1>1, <1>2, TxRetrierAssumption
<1>4. GrowBackoff(b) = IF grown > MaxBackoff THEN MaxBackoff ELSE grown
    BY DEF GrowBackoff
<1>5. QED
    BY <1>3, <1>4, GrownNat, TxRetrierAssumption

-----------------------------------------------------------------------------
(* The inductive invariant *)

LEMMA InitIInv == Init => IInv
<1> SUFFICES ASSUME Init PROVE IInv
    OBVIOUS
<1>1. ChainTypeOK
    BY MaxHeadAssumption DEF Init, ChainInit, ChainTypeOK, NotMined
<1>2. /\ phase \in {"send", "backoff", "waiting", "done"}
      /\ attempt \in 0..(IF MaxRetries < 0 THEN 0 ELSE MaxRetries + 1)
      /\ AttemptInLoop
    BY TxRetrierAssumption DEF Init, AttemptInLoop
<1>3. backoff \in 0..BackoffCap /\ lastWait \in Nat /\ BackoffBounds
    BY TxRetrierAssumption DEF Init, BackoffCap, BackoffBounds
<1>4. /\ lastErr \in SendError \cup {"none"} /\ sendResult \in SendResult
      /\ pooled \in BOOLEAN /\ waitResult \in W!Outcome \cup {"pending"}
      /\ expired \in BOOLEAN /\ confirmations \in 0..MaxConfirmations
    BY DEF Init, SendResult
<1>5. QED
    BY <1>1, <1>2, <1>3, <1>4 DEF IInv, TypeOK, BackoffCap

\* The retrier's steps leave the chain alone; the node's keep it typed.
LEMMA StepChain == IInv /\ [Next]_vars => ChainTypeOK'
<1> SUFFICES ASSUME IInv, [Next]_vars PROVE ChainTypeOK'
    OBVIOUS
<1>1. CASE Mine \/ Block
    BY <1>1, MaxHeadAssumption
    DEF IInv, TypeOK, Mine, Block, MineTx, NewBlock, ChainTypeOK, TxStatus, NotMined
<1>2. CASE WaitReturns
    BY <1>2 DEF IInv, TypeOK, WaitReturns, W!Confirm, W!FailOnchain, W!TimeOut,
               W!GiveUp, W!chainVars, chainVars, ChainTypeOK
<1>3. CASE ~(Mine \/ Block \/ WaitReturns)
    <2>1. UNCHANGED chainVars
        BY <1>3 DEF Next, vars, Send, SendOk, SendLost, SendUndelivered,
                    SendRefused, BackoffCanceled, BackoffElapsed, Expire
    <2>2. QED
        BY <2>1 DEF IInv, TypeOK, chainVars, ChainTypeOK
<1>4. QED
    BY <1>1, <1>2, <1>3

\* An attempt that fails keeps the counter in range and inside the loop.
LEMMA FailedAttempt ==
    ASSUME IInv, phase = "send", NEW e \in SendError, Failed(e)
    PROVE  /\ attempt' \in 0..(IF MaxRetries < 0 THEN 0 ELSE MaxRetries + 1)
           /\ phase' \in {"send", "backoff", "waiting", "done"}
           /\ (phase' \in {"send", "backoff"} => attempt' <= MaxRetries)
           /\ lastErr' \in SendError \cup {"none"} /\ sendResult' \in SendResult
           /\ UNCHANGED <<backoff, lastWait>>
<1>1. attempt \in 0..MaxRetries /\ MaxRetries \in Int /\ sendResult \in SendResult
    BY TxRetrierAssumption DEF IInv, TypeOK, AttemptInLoop
<1>2. QED
    BY <1>1 DEF Failed, SendResult

\* The retrier's own variables keep their types and stay in the loop.
LEMMA StepRetrier ==
    IInv /\ [Next]_vars =>
        /\ phase' \in {"send", "backoff", "waiting", "done"}
        /\ attempt' \in 0..(IF MaxRetries < 0 THEN 0 ELSE MaxRetries + 1)
        /\ AttemptInLoop'
        /\ lastErr' \in SendError \cup {"none"}
        /\ sendResult' \in SendResult
        /\ UNCHANGED <<backoff, lastWait>> \/ BackoffElapsed
<1> SUFFICES ASSUME IInv, [Next]_vars
             PROVE  /\ phase' \in {"send", "backoff", "waiting", "done"}
                    /\ attempt' \in 0..(IF MaxRetries < 0 THEN 0 ELSE MaxRetries + 1)
                    /\ AttemptInLoop'
                    /\ lastErr' \in SendError \cup {"none"}
                    /\ sendResult' \in SendResult
                    /\ UNCHANGED <<backoff, lastWait>> \/ BackoffElapsed
    OBVIOUS
<1>0. /\ phase \in {"send", "backoff", "waiting", "done"}
      /\ attempt \in 0..(IF MaxRetries < 0 THEN 0 ELSE MaxRetries + 1)
      /\ AttemptInLoop
      /\ lastErr \in SendError \cup {"none"}
      /\ sendResult \in SendResult
    BY DEF IInv, TypeOK
<1> USE DEF AttemptInLoop
<1>1. CASE SendOk
    BY <1>0, <1>1 DEF SendOk, SendResult
<1>2. CASE SendLost \/ SendUndelivered \/ SendRefused
    <2>1. PICK e \in SendError : phase = "send" /\ Failed(e)
        BY <1>2 DEF SendLost, SendUndelivered, SendRefused, SendError
    <2>2. QED
        BY <2>1, FailedAttempt
<1>3. CASE BackoffCanceled
    BY <1>0, <1>3 DEF BackoffCanceled, SendResult
<1>4. CASE BackoffElapsed
    BY <1>0, <1>4 DEF BackoffElapsed
<1>5. CASE WaitReturns
    BY <1>0, <1>5 DEF WaitReturns
<1>6. CASE Expire \/ Mine \/ Block \/ UNCHANGED vars
    BY <1>0, <1>6 DEF Expire, Mine, Block, vars, retrierVars
<1>7. QED
    BY <1>1, <1>2, <1>3, <1>4, <1>5, <1>6 DEF Next, Send

\* The backoff stays in its range, and under the hypotheses of
\* BackoffMonotone between the last one waited and the cap.
LEMMA StepBackoff ==
    ASSUME IInv, UNCHANGED <<backoff, lastWait>> \/ BackoffElapsed
    PROVE  backoff' \in 0..BackoffCap /\ lastWait' \in Nat /\ BackoffBounds'
<1>0. backoff \in 0..BackoffCap /\ lastWait \in Nat /\ BackoffBounds
    BY DEF IInv, TypeOK, BackoffCap
<1>1. CASE UNCHANGED <<backoff, lastWait>>
    BY <1>0, <1>1 DEF BackoffBounds
<1>2. CASE BackoffElapsed
    <2>1. backoff' = GrowBackoff(backoff) /\ lastWait' = backoff
        BY <1>2 DEF BackoffElapsed
    <2>2. backoff' \in 0..BackoffCap /\ lastWait' \in Nat
        BY <1>0, <2>1, GrowInRange
    <2>3. BackoffBounds'
        <3>1. SUFFICES ASSUME MultNum >= MultDen, InitialBackoff <= MaxBackoff
                       PROVE  backoff <= backoff' /\ backoff' <= MaxBackoff
            BY <2>1 DEF BackoffBounds
        <3>2. backoff <= MaxBackoff
            BY <1>0, <3>1 DEF BackoffBounds
        <3>3. QED
            BY <1>0, <2>1, <3>1, <3>2, GrowMonotone
    <2>4. QED
        BY <2>2, <2>3
<1>3. QED
    BY <1>1, <1>2

\* The caller's side of the wait keeps its types.
LEMMA StepRest ==
    IInv /\ [Next]_vars =>
        /\ pooled' \in BOOLEAN
        /\ waitResult' \in W!Outcome \cup {"pending"}
        /\ expired' \in BOOLEAN
        /\ confirmations' \in 0..MaxConfirmations
<1> SUFFICES ASSUME IInv, [Next]_vars
             PROVE  /\ pooled' \in BOOLEAN
                    /\ waitResult' \in W!Outcome \cup {"pending"}
                    /\ expired' \in BOOLEAN
                    /\ confirmations' \in 0..MaxConfirmations
    OBVIOUS
<1>0. /\ pooled \in BOOLEAN /\ waitResult \in W!Outcome \cup {"pending"}
      /\ expired \in BOOLEAN /\ confirmations \in 0..MaxConfirmations
    BY DEF IInv, TypeOK
<1>1. CASE WaitReturns
    BY <1>0, <1>1 DEF WaitReturns, W!Confirm, W!FailOnchain, W!TimeOut,
                      W!GiveUp, W!Outcome
<1>2. CASE ~WaitReturns
    BY <1>0, <1>2 DEF Next, Send, SendOk, SendLost, SendUndelivered, SendRefused,
                      BackoffCanceled, BackoffElapsed, Expire, Mine, Block, vars
<1>3. QED
    BY <1>1, <1>2

LEMMA StepIInv == IInv /\ [Next]_vars => IInv'
<1> SUFFICES ASSUME IInv, [Next]_vars PROVE IInv'
    OBVIOUS
<1>1. UNCHANGED <<backoff, lastWait>> \/ BackoffElapsed
    BY StepRetrier
<1>2. QED
    BY <1>1, StepChain, StepRetrier, StepBackoff, StepRest
    DEF IInv, TypeOK, BackoffCap

-----------------------------------------------------------------------------
(* Theorems *)

\* Every reachable state of WaitForTransactionWithRetry is well typed: the
\* attempt counter never passes MaxRetries + 1 (0 when MaxRetries is
\* negative and the loop is skipped), and the backoff never passes the
\* larger of InitialBackoff and MaxBackoff.
THEOREM TypeCorrect == Spec => []TypeOK
<1>1. IInv => TypeOK
    BY DEF IInv
<1>2. QED
    BY InitIInv, StepIInv, <1>1, PTL DEF Spec

\* Each step of SendTransactionWithRetry that waits a backoff waits one at
\* least as long as the one before and no longer than MaxBackoff, when the
\* multiplier is at least 1 and InitialBackoff is within MaxBackoff.
LEMMA StepMonotone ==
    IInv /\ [Next]_vars =>
        [ /\ MultNum >= MultDen
          /\ InitialBackoff <= MaxBackoff
          /\ lastWait' # lastWait
          => lastWait <= lastWait' /\ lastWait' <= MaxBackoff ]_vars
<1> SUFFICES ASSUME IInv, [Next]_vars, MultNum >= MultDen,
                    InitialBackoff <= MaxBackoff, lastWait' # lastWait
             PROVE  lastWait <= lastWait' /\ lastWait' <= MaxBackoff
    OBVIOUS
<1>1. BackoffElapsed
    BY StepRetrier
<1>2. QED
    BY <1>1 DEF BackoffElapsed, IInv, BackoffBounds

\* The backoffs SendTransactionWithRetry waits between attempts never
\* shrink and never exceed MaxBackoff, for every configuration with a
\* multiplier of at least 1 and an initial backoff within the cap.
THEOREM BackoffMonotoneThm == Spec => BackoffMonotone
<1>1. Spec => []IInv
    BY InitIInv, StepIInv, PTL DEF Spec
<1>2. QED
    BY <1>1, StepMonotone, PTL DEF Spec, BackoffMonotone

=============================================================================
