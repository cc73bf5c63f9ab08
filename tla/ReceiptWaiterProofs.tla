------------------------- MODULE ReceiptWaiterProofs -------------------------
(***************************************************************************)
(* Proofs about WaitForReceiptWithConfig (ReceiptWaiter), for every        *)
(* MaxConsecutiveErrors, MaxPolls and MaxHead: its states are well typed,  *)
(* its counter of consecutive errors is the length of the trailing run of  *)
(* RPC errors in the history of polls (ErrorStreakRespected), and every    *)
(* step it takes is a step of the abstract receipt wait (ReceiptWait).     *)
(***************************************************************************)
EXTENDS ReceiptWaiter, TLAPS

\* The lengths j of the runs of "rpcError" that end the sequence s.
Streaks(s) == {j \in 0..Len(s) : \A i \in (Len(s) - j + 1)..Len(s) : s[i] = "rpcError"}

\* c is the longest of them.
LongestStreak(s, c) == c \in Streaks(s) /\ \A j \in Streaks(s) : j <= c

\* The chain never reports a receipt above its head.
MinedBelowHead == minedBlock <= head

\* A wait still polling has seen fewer than maxErrors errors in a row, and
\* one that gave up has seen exactly maxErrors; while it polls, and once it
\* gave up, the counter is the trailing run of errors.
CounterIsStreak ==
    /\ rwState = "polling" => consecutiveErrors < maxErrors
    /\ rwState = "rpcFailure" => consecutiveErrors = maxErrors
    /\ rwState \in {"polling", "rpcFailure"} =>
          LongestStreak(answers, consecutiveErrors)

IInv == TypeOK /\ MinedBelowHead /\ CounterIsStreak

-----------------------------------------------------------------------------
(* Lemmas about the trailing run of errors *)

LEMMA MaxErrorsPositive == maxErrors \in Nat \ {0}
    BY RWConstantsAssumption DEF maxErrors

\* The empty history has the empty run.
LEMMA StreakEmpty == LongestStreak(<<>>, 0)
    BY DEF LongestStreak, Streaks

\* An error extends the run by one.
LEMMA StreakError ==
    ASSUME NEW s \in Seq(Answer), NEW c \in Nat, LongestStreak(s, c)
    PROVE  LongestStreak(Append(s, "rpcError"), c + 1)
<1> DEFINE t == Append(s, "rpcError")
           k == Len(s)
<1>1. Len(t) = k + 1 /\ t[k + 1] = "rpcError"
      /\ \A i \in 1..k : t[i] = s[i]
    OBVIOUS
<1>2. c \in 0..k /\ \A i \in (k - c + 1)..k : s[i] = "rpcError"
    BY DEF LongestStreak, Streaks
<1>3. c + 1 \in Streaks(t)
    BY <1>1, <1>2 DEF Streaks
<1>4. ASSUME NEW j \in Streaks(t) PROVE j <= c + 1
    <2>1. CASE j = 0
        BY <2>1
    <2>2. CASE j # 0
        <3>1. j \in 1..(k + 1) /\ \A i \in (k + 1 - j + 1)..(k + 1) : t[i] = "rpcError"
            BY <1>1, <2>2 DEF Streaks
        <3>2. j - 1 \in Streaks(s)
            BY <1>1, <2>2, <3>1 DEF Streaks
        <3>3. QED
            BY <3>2 DEF LongestStreak
    <2>3. QED
        BY <2>1, <2>2
<1>5. QED
    BY <1>3, <1>4 DEF LongestStreak

\* Any other answer ends the run.
LEMMA StreakOther ==
    ASSUME NEW s \in Seq(Answer), NEW a \in Answer \ {"rpcError"}
    PROVE  LongestStreak(Append(s, a), 0)
<1> DEFINE t == Append(s, a)
<1>1. Len(t) = Len(s) + 1 /\ t[Len(s) + 1] = a
    OBVIOUS
<1>2. 0 \in Streaks(t)
    BY DEF Streaks
<1>3. ASSUME NEW j \in Streaks(t) PROVE j <= 0
    <2>1. SUFFICES ASSUME j # 0 PROVE FALSE
        BY DEF Streaks
    <2>2. Len(s) + 1 \in (Len(t) - j + 1)..Len(t)
        BY <1>1, <2>1 DEF Streaks
    <2>3. QED
        BY <1>1, <2>2 DEF Streaks
<1>4. QED
    BY <1>2, <1>3 DEF LongestStreak

\* The longest run is what TrailingErrors chooses.
LEMMA TrailingIsLongest ==
    ASSUME NEW c \in Nat, LongestStreak(answers, c)
    PROVE  TrailingErrors = c
<1>1. c \in Streaks(answers) /\ \A j \in Streaks(answers) : j <= c
    BY DEF LongestStreak
<1>2. \A j \in Streaks(answers) : (\A i \in Streaks(answers) : i <= j) => j = c
    BY <1>1 DEF Streaks
<1>3. QED
    BY <1>1, <1>2 DEF TrailingErrors, Streaks

-----------------------------------------------------------------------------
(* The inductive invariant *)

LEMMA InitIInv == Init => IInv
<1> SUFFICES ASSUME Init PROVE IInv
    OBVIOUS
<1>1. TypeOK
    <2>1. ChainTypeOK
        BY MaxHeadAssumption DEF Init, ChainTypeOK, ChainInit, TxStatus, NotMined
    <2>2. rwState \in RWState /\ expired \in BOOLEAN
        BY DEF Init, RWState
    <2>3. consecutiveErrors \in 0..maxErrors
        BY MaxErrorsPositive DEF Init
    <2>4. pollCount \in 0..MaxPolls
        BY RWConstantsAssumption DEF Init
    <2>5. answers \in Seq(Answer) /\ Len(answers) = pollCount
        BY DEF Init
    <2>6. QED
        BY <2>1, <2>2, <2>3, <2>4, <2>5 DEF TypeOK
<1>2. MinedBelowHead
    BY DEF Init, ChainInit, MinedBelowHead
<1>3. LongestStreak(answers, consecutiveErrors)
    BY StreakEmpty DEF Init
<1>4. CounterIsStreak
    BY <1>3, MaxErrorsPositive DEF Init, CounterIsStreak
<1>5. QED
    BY <1>1, <1>2, <1>4 DEF IInv

\* The steps of the waiter leave the chain alone; the chain's steps keep
\* the receipt at or below the head.
LEMMA StepChain == IInv /\ [Next]_vars => (ChainTypeOK /\ MinedBelowHead)'
<1> SUFFICES ASSUME IInv, [Next]_vars PROVE (ChainTypeOK /\ MinedBelowHead)'
    OBVIOUS
<1>1. CASE Chain
    BY <1>1, MaxHeadAssumption
    DEF IInv, TypeOK, Chain, ChainNext, MineTx, NewBlock, ChainTypeOK, MinedBelowHead
<1>2. CASE ~Chain
    <2>1. UNCHANGED chainVars
        BY <1>2 DEF Next, vars, CtxDone, PollNotFound, PollRPCError, PollReceipt, Expire
    <2>2. QED
        BY <2>1 DEF IInv, TypeOK, chainVars, ChainTypeOK, MinedBelowHead
<1>3. QED
    BY <1>1, <1>2

\* The types of the waiter's own variables.
LEMMA StepWaiterType ==
    IInv /\ [Next]_vars =>
        /\ rwState' \in RWState
        /\ consecutiveErrors' \in 0..maxErrors
        /\ pollCount' \in 0..MaxPolls
        /\ expired' \in BOOLEAN
        /\ answers' \in Seq(Answer)
        /\ Len(answers') = pollCount'
<1> SUFFICES ASSUME IInv, [Next]_vars
             PROVE  /\ rwState' \in RWState
                    /\ consecutiveErrors' \in 0..maxErrors
                    /\ pollCount' \in 0..MaxPolls
                    /\ expired' \in BOOLEAN
                    /\ answers' \in Seq(Answer)
                    /\ Len(answers') = pollCount'
    OBVIOUS
<1>0. /\ answers \in Seq(Answer) /\ Len(answers) = pollCount
      /\ consecutiveErrors \in 0..maxErrors /\ pollCount \in 0..MaxPolls
      /\ rwState \in RWState /\ expired \in BOOLEAN
      /\ rwState = "polling" => consecutiveErrors < maxErrors
      /\ maxErrors \in Nat \ {0} /\ MaxPolls \in Nat
    BY MaxErrorsPositive, RWConstantsAssumption DEF IInv, TypeOK, CounterIsStreak
<1>1. CASE CtxDone
    BY <1>0, <1>1 DEF CtxDone, RWState
<1>2. CASE PollNotFound
    BY <1>0, <1>2 DEF PollNotFound, Tick, Answer
<1>3. CASE PollRPCError
    BY <1>0, <1>3 DEF PollRPCError, Tick, Answer, RWState
<1>4. CASE PollReceipt
    BY <1>0, <1>4 DEF PollReceipt, Tick, Answer, RWState
<1>5. CASE Expire
    BY <1>0, <1>5 DEF Expire
<1>6. CASE Chain
    BY <1>0, <1>6 DEF Chain, rwVars
<1>7. CASE UNCHANGED vars
    BY <1>0, <1>7 DEF vars, rwVars
<1>8. QED
    BY <1>1, <1>2, <1>3, <1>4, <1>5, <1>6, <1>7 DEF Next

\* The counter follows the trailing run of errors.
LEMMA StepCounter == IInv /\ [Next]_vars => CounterIsStreak'
<1> SUFFICES ASSUME IInv, [Next]_vars PROVE CounterIsStreak'
    OBVIOUS
<1>0. /\ answers \in Seq(Answer) /\ consecutiveErrors \in Nat
      /\ maxErrors \in Nat \ {0}
      /\ rwState = "polling" => consecutiveErrors < maxErrors
      /\ rwState = "rpcFailure" => consecutiveErrors = maxErrors
      /\ rwState \in {"polling", "rpcFailure"} =>
            LongestStreak(answers, consecutiveErrors)
    BY MaxErrorsPositive DEF IInv, TypeOK, CounterIsStreak
<1>1. CASE CtxDone
    BY <1>0, <1>1 DEF CtxDone, CounterIsStreak
<1>2. CASE PollNotFound
    <2>1. LongestStreak(answers', consecutiveErrors')
        BY <1>0, <1>2, StreakOther DEF PollNotFound, Tick, Answer
    <2>2. QED
        BY <1>0, <1>2, <2>1 DEF PollNotFound, Tick, CounterIsStreak
<1>3. CASE PollRPCError
    <2>1. rwState = "polling" /\ LongestStreak(answers, consecutiveErrors)
        BY <1>0, <1>3 DEF PollRPCError, Tick
    <2>2. LongestStreak(answers', consecutiveErrors')
        BY <1>0, <1>3, <2>1, StreakError DEF PollRPCError, Tick
    <2>3. QED
        BY <1>0, <1>3, <2>1, <2>2 DEF PollRPCError, Tick, CounterIsStreak
<1>4. CASE PollReceipt
    BY <1>4 DEF PollReceipt, Tick, CounterIsStreak
<1>5. CASE Expire
    BY <1>0, <1>5 DEF Expire, CounterIsStreak
<1>6. CASE Chain
    BY <1>0, <1>6 DEF Chain, rwVars, CounterIsStreak
<1>7. CASE UNCHANGED vars
    BY <1>0, <1>7 DEF vars, rwVars, CounterIsStreak
<1>8. QED
    BY <1>1, <1>2, <1>3, <1>4, <1>5, <1>6, <1>7 DEF Next

LEMMA StepIInv == IInv /\ [Next]_vars => IInv'
    BY StepChain, StepWaiterType, StepCounter DEF IInv, TypeOK

-----------------------------------------------------------------------------
(* Theorems *)

\* Every reachable state of WaitForReceiptWithConfig is well typed: in
\* particular the counter of consecutive errors never exceeds maxErrors.
THEOREM TypeCorrect == Spec => []TypeOK
<1>1. IInv => TypeOK
    BY DEF IInv
<1>2. QED
    BY InitIInv, StepIInv, <1>1, PTL DEF Spec

\* The consecutive-error tolerance of WaitForReceiptWithConfig: while it
\* polls, fewer than maxErrors RPC errors have come in a row since the
\* last other answer, and it returns ErrReceiptRPCFailure exactly at the
\* maxErrors-th, for every MaxConsecutiveErrors (0 meaning 5).
THEOREM ErrorStreakInv == Spec => []ErrorStreakRespected
<1>1. IInv => ErrorStreakRespected
    <2> SUFFICES ASSUME IInv PROVE ErrorStreakRespected
        OBVIOUS
    <2>1. consecutiveErrors \in Nat
        BY DEF IInv, TypeOK
    <2>2. rwState \in {"polling", "rpcFailure"} => TrailingErrors = consecutiveErrors
        BY <2>1, TrailingIsLongest DEF IInv, CounterIsStreak
    <2>3. QED
        BY <2>2 DEF IInv, CounterIsStreak, ErrorStreakRespected
<1>2. QED
    BY InitIInv, StepIInv, <1>1, PTL DEF Spec

\* The outcome WaitForReceiptWithConfig reports, as a ReceiptWait result.
LEMMA StepRefines == IInv /\ [Next]_vars => [RW!WaitNext]_RW!waitVars
<1> SUFFICES ASSUME IInv, [Next]_vars PROVE [RW!WaitNext]_RW!waitVars
    OBVIOUS
<1> USE DEF RW!chainVars, RW!waitVars, chainVars
<1>0. minedBlock <= head /\ minedBlock \in Nat /\ head \in Nat
    BY MaxHeadAssumption DEF IInv, TypeOK, ChainTypeOK, MinedBelowHead
<1>1. CASE CtxDone
    BY <1>1 DEF CtxDone, RW!WaitNext, RW!TimeOut, chainVars
<1>2. CASE PollNotFound
    BY <1>2 DEF PollNotFound, Tick, RW!waitVars, chainVars
<1>3. CASE PollRPCError
    BY <1>3 DEF PollRPCError, Tick, RW!WaitNext, RW!GiveUp, RW!waitVars, chainVars
<1>4. CASE PollReceipt
    <2>1. mined \in TxStatus
        BY <1>4 DEF PollReceipt, IInv, TypeOK, ChainTypeOK, TxStatus, NotMined
    <2>2. CASE mined = "successful"
        <3>1. RW!Confirm
            BY <1>0, <1>4, <2>2 DEF PollReceipt, Tick, RW!Confirm
        <3>2. QED
            BY <3>1 DEF RW!WaitNext
    <2>3. CASE mined = "failed"
        <3>1. RW!FailOnchain
            BY <1>4, <2>3 DEF PollReceipt, Tick, RW!FailOnchain
        <3>2. QED
            BY <3>1 DEF RW!WaitNext
    <2>4. QED
        BY <2>1, <2>2, <2>3 DEF TxStatus
<1>5. CASE Expire
    BY <1>5 DEF Expire, RW!WaitNext, RW!Expire, chainVars
<1>6. CASE Chain
    BY <1>6 DEF Chain, rwVars, RW!WaitNext, RW!Chain, RW!ChainNext, ChainNext,
                RW!MineTx, RW!NewBlock, MineTx, NewBlock, RW!NotMined, RW!TxStatus,
                NotMined, TxStatus
<1>7. CASE UNCHANGED vars
    BY <1>7 DEF vars, rwVars, RW!waitVars, chainVars
<1>8. QED
    BY <1>1, <1>2, <1>3, <1>4, <1>5, <1>6, <1>7 DEF Next

\* Every behaviour of WaitForReceiptWithConfig is a behaviour of the
\* abstract receipt wait with no confirmation depth: it returns the
\* receipt only for a transaction mined with success, a failure only for
\* one mined with failure, a timeout only once the deadline passed.
THEOREM RefinesReceiptWait == Spec => RW!WaitSpec
<1>1. Init => RW!WaitInit
    BY DEF Init, RW!WaitInit, ChainInit, RW!ChainInit, RW!NotMined, NotMined
<1>2. Spec => []IInv
    BY InitIInv, StepIInv, PTL DEF Spec
<1>3. []IInv /\ [][Next]_vars => [][RW!WaitNext]_RW!waitVars
    BY StepRefines, PTL
<1>4. QED
    BY <1>1, <1>2, <1>3, PTL DEF Spec, RW!WaitSpec

=============================================================================
