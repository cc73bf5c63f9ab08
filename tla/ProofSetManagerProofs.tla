------------------------ MODULE ProofSetManagerProofs ------------------------
(***************************************************************************)
(* Proofs about ProofSetManager for every value of the constants: the      *)
(* specification is type correct, two operations never hold the same      *)
(* nonce (NoncesExclusive), and the transaction an operation waits for is  *)
(* never displaced from the node's pool (SentTxNotDisplaced).              *)
(***************************************************************************)
EXTENDS ProofSetManager, WellFoundedInduction, TLAPS

(***************************************************************************)
(* GetNonce's pool branch takes the least pooled nonce (sort.Slice, then   *)
(* element 0).  When the pool is not empty that least nonce exists: the    *)
(* nonces with a positive count form a non-empty set of naturals, and <    *)
(* is well founded on Nat.                                                 *)
(***************************************************************************)
LEMMA MinReclaimableIsLeast ==
    ASSUME reclaimable \in [Nonces -> Nat], HasReclaimable
    PROVE  /\ MinReclaimable \in Nonces
           /\ reclaimable[MinReclaimable] > 0
           /\ \A m \in Nonces : reclaimable[m] > 0 => MinReclaimable <= m
<1> DEFINE T == {n \in Nonces : reclaimable[n] > 0}
<1>1. T \subseteq Nat /\ T # {}
    BY DEF HasReclaimable, Nonces
<1>2. \E x \in T : \A y \in T : ~(<<y, x>> \in OpToRel(<, Nat))
    BY <1>1, NatLessThanWellFounded, WFMin
<1>3. \E x \in T : \A y \in T : x <= y
    <2>1. PICK x \in T : \A y \in T : ~(<<y, x>> \in OpToRel(<, Nat))
        BY <1>2
    <2>2. ASSUME NEW y \in T PROVE x <= y
        <3>1. <<y, x>> \in Nat \X Nat
            BY <1>1
        <3>2. ~(y < x)
            BY <2>1, <3>1, Zenon DEF OpToRel
        <3>3. QED
            BY <3>2, <1>1
    <2>3. QED
        BY <2>2
<1>4. QED
    BY <1>3 DEF MinReclaimable

-----------------------------------------------------------------------------

(***************************************************************************)
(* Type correctness.  Every step keeps the variables in their types; the   *)
(* only step that needs more than the definitions is the pool branch of    *)
(* GetNonce, whose decrement stays in Nat by MinReclaimableIsLeast.        *)
(***************************************************************************)
LEMMA TypeOKInit == Init => TypeOK
    BY MaxNonceAssumption, MaxSendsAssumption
    DEF Init, TypeOK, NMInit, NMTypeOK, LInit, LTypeOK, Active, PC, Nonces

\* The conjuncts of TypeOK about the goroutines running the operations.
ProcsTypeOK ==
    /\ pc \in [Procs -> PC]
    /\ held \in [Procs -> Nonces \cup {NoNonce}]
    /\ txOf \in [Procs -> TxIds \cup {NoTx}]
    /\ sends \in 0..MaxSends
    /\ unresolved \subseteq Nonces
    /\ \A p \in Procs : Active(p) <=> held[p] # NoNonce
    /\ \A p \in Procs : pc[p] = "waiting" <=> txOf[p] # NoTx

\* MarkFailed and MarkConfirmed keep the manager's fields in their types.
LEMMA MarkFailedType ==
    ASSUME NMTypeOK, NEW n \in Nonces, MarkFailed(n) PROVE NMTypeOK'
    BY DEF NMTypeOK, MarkFailed

LEMMA MarkConfirmedType ==
    ASSUME NMTypeOK, NEW n \in Nonces, MarkConfirmed(n) PROVE NMTypeOK'
    BY DEF NMTypeOK, MarkConfirmed

\* Admitting a well-formed transaction keeps the ledger in its type.
LEMMA AdmitType ==
    ASSUME LTypeOK, NEW tx \in Tx, Admit(tx) PROVE LTypeOK'
    BY DEF LTypeOK, Admit

\* An operation that returns resets its goroutine's slot.
LEMMA ReturnType ==
    ASSUME ProcsTypeOK, NEW p \in Procs, Return(p),
           sends' \in 0..MaxSends, unresolved' \subseteq Nonces
    PROVE  ProcsTypeOK'
    BY NoNonceAssumption, NoTxAssumption DEF ProcsTypeOK, Return, Active, PC

\* An operation past GetNonce holds a nonce of Nonces.
LEMMA HeldNonce ==
    ASSUME ProcsTypeOK, NEW p \in Procs, pc[p] \in {"allocated", "waiting"}
    PROVE  held[p] \in Nonces
    BY DEF ProcsTypeOK, Active

LEMMA TypeOKNext == TypeOK /\ [Next]_vars => TypeOK'
<1> SUFFICES ASSUME NMTypeOK, LTypeOK, ProcsTypeOK, [Next]_vars
             PROVE  NMTypeOK' /\ LTypeOK' /\ ProcsTypeOK'
    BY DEF TypeOK, ProcsTypeOK
<1> USE MaxNonceAssumption, MaxSendsAssumption, NoNonceAssumption, NoTxAssumption
<1>1. ASSUME NEW p \in Procs, Allocate(p)
      PROVE  NMTypeOK' /\ LTypeOK' /\ ProcsTypeOK'
    <2>1. PICK n \in Nonces : GetNonce(PendingNonceAt, n) /\ held' = [held EXCEPT ![p] = n]
        BY <1>1 DEF Allocate
    <2>2. NMTypeOK'
        <3>1. CASE GetNonceReclaimed(n)
            <4>1. reclaimable[n] > 0
                BY <3>1, MinReclaimableIsLeast DEF GetNonceReclaimed, NMTypeOK
            <4>2. QED
                BY <3>1, <4>1 DEF GetNonceReclaimed, NMTypeOK
        <3>2. CASE GetNonceFromCounter(PendingNonceAt, n)
            BY <3>2 DEF GetNonceFromCounter, NMTypeOK, Nonces
        <3>3. QED
            BY <2>1, <3>1, <3>2 DEF GetNonce
    <2>3. LTypeOK'
        BY <1>1 DEF Allocate, LTypeOK, ledgerVars
    <2>4. ProcsTypeOK'
        BY <1>1, <2>1 DEF Allocate, ProcsTypeOK, Active, PC, Nonces
    <2>5. QED
        BY <2>2, <2>3, <2>4
<1>2. ASSUME NEW p \in Procs, LocalFailure(p)
      PROVE  NMTypeOK' /\ LTypeOK' /\ ProcsTypeOK'
    <2>1. held[p] \in Nonces
        BY <1>2, HeldNonce DEF LocalFailure
    <2>2. QED
        BY <1>2, <2>1, MarkFailedType, ReturnType DEF LocalFailure, LTypeOK, ProcsTypeOK, ledgerVars
<1>3. ASSUME NEW p \in Procs, SendAccepted(p)
      PROVE  NMTypeOK' /\ LTypeOK' /\ ProcsTypeOK'
    <2>1. held[p] \in Nonces /\ sends + 1 \in TxIds /\ sends + 1 \in Nat
        BY <1>3, HeldNonce DEF SendAccepted, ProcsTypeOK, TxIds
    <2>2. [nonce |-> held[p], id |-> sends + 1] \in Tx
        BY <2>1 DEF Nonces, Tx
    <2>3. LTypeOK'
        BY <1>3, <2>2, AdmitType DEF SendAccepted
    <2>4. ProcsTypeOK'
        BY <1>3, <2>1 DEF SendAccepted, ProcsTypeOK, Active, PC, TxIds
    <2>5. QED
        BY <1>3, <2>3, <2>4 DEF SendAccepted, NMTypeOK, nmVars
<1>4. ASSUME NEW p \in Procs, SendRejected(p)
      PROVE  NMTypeOK' /\ LTypeOK' /\ ProcsTypeOK'
    <2>1. held[p] \in Nonces
        BY <1>4, HeldNonce DEF SendRejected
    <2>2. QED
        BY <1>4, <2>1, MarkFailedType, ReturnType DEF SendRejected, LTypeOK, ProcsTypeOK, ledgerVars
<1>5. ASSUME NEW p \in Procs, SendLost(p)
      PROVE  NMTypeOK' /\ LTypeOK' /\ ProcsTypeOK'
    <2>1. held[p] \in Nonces /\ sends + 1 \in 0..MaxSends /\ sends + 1 \in Nat
        BY <1>5, HeldNonce DEF SendLost, ProcsTypeOK
    <2>2. [nonce |-> held[p], id |-> sends + 1] \in Tx
        BY <2>1 DEF Nonces, Tx
    <2>3. QED
        BY <1>5, <2>1, <2>2, AdmitType, MarkFailedType, ReturnType DEF SendLost, ProcsTypeOK
<1>6. ASSUME NEW p \in Procs, ReceiptSuccess(p)
      PROVE  NMTypeOK' /\ LTypeOK' /\ ProcsTypeOK'
    <2>1. held[p] \in Nonces
        BY <1>6, HeldNonce DEF ReceiptSuccess
    <2>2. QED
        BY <1>6, <2>1, MarkConfirmedType, ReturnType DEF ReceiptSuccess, LTypeOK, ProcsTypeOK, ledgerVars
<1>7. ASSUME NEW p \in Procs, ReceiptFailed(p)
      PROVE  NMTypeOK' /\ LTypeOK' /\ ProcsTypeOK'
    BY <1>7, ReturnType DEF ReceiptFailed, NMTypeOK, LTypeOK, ProcsTypeOK, nmVars, ledgerVars
<1>8. ASSUME NEW p \in Procs, WaitFails(p)
      PROVE  NMTypeOK' /\ LTypeOK' /\ ProcsTypeOK'
    <2>1. held[p] \in Nonces
        BY <1>8, HeldNonce DEF WaitFails
    <2>2. QED
        BY <1>8, <2>1, ReturnType DEF WaitFails, NMTypeOK, LTypeOK, ProcsTypeOK, nmVars, ledgerVars
<1>9. CASE Mine
    BY <1>9 DEF Mine, MineBlock, NMTypeOK, LTypeOK, ProcsTypeOK, Receipt, Tx, Status, Active,
       nmVars, procVars
<1>10. CASE UNCHANGED vars
    BY <1>10 DEF vars, nmVars, ledgerVars, procVars, NMTypeOK, LTypeOK, ProcsTypeOK, Active
<1>11. QED
    BY <1>1, <1>2, <1>3, <1>4, <1>5, <1>6, <1>7, <1>8, <1>9, <1>10 DEF Next, Proc

\* The specification keeps every variable in its type.
THEOREM TypeCorrect == Spec => []TypeOK
    BY TypeOKInit, TypeOKNext, PTL DEF Spec

-----------------------------------------------------------------------------

(***************************************************************************)
(* NoncesExclusive.  It is not inductive by itself: GetNonce's counter     *)
(* branch hands out the counter's value, which is fresh only because every *)
(* held or pooled nonce is below the counter (CounterBounds), and the pool *)
(* branch takes a pooled nonce out of the pool, which leaves it unpooled   *)
(* only because no nonce is pooled twice (ReclaimedOnce).  IInv adds both. *)
(***************************************************************************)
LEMMA IInvInit == Init => IInv
<1> SUFFICES ASSUME Init PROVE IInv
    OBVIOUS
<1>1. TypeOK
    BY TypeOKInit
<1>2. QED
    BY <1>1 DEF Init, NMInit, IInv, NoncesExclusive, ReclaimedOnce, CounterBounds,
       Active

\* The nonce-manager part of IInv, the conjuncts the actions can disturb.
NMInv == NoncesExclusive /\ ReclaimedOnce /\ CounterBounds

\* An operation that returns after MarkFailed of its nonce puts that nonce
\* back in the pool exactly once and keeps it below the counter.
LEMMA MarkFailedReturnInv ==
    ASSUME TypeOK, NMInv, NEW p \in Procs, Active(p),
           MarkFailed(held[p]), Return(p)
    PROVE  NMInv'
<1> USE DEF TypeOK, NMTypeOK, NMInv
<1>1. held[p] \in Nonces /\ reclaimable[held[p]] = 0 /\ nonce # NoNonce
      /\ held[p] < nonce
    BY DEF NoncesExclusive, CounterBounds, Active
<1>2. NoncesExclusive'
    BY <1>1 DEF NoncesExclusive, MarkFailed, Return, Active
<1>3. ReclaimedOnce'
    BY <1>1 DEF ReclaimedOnce, MarkFailed
<1>4. CounterBounds'
    BY <1>1 DEF CounterBounds, MarkFailed, Return, Active, Nonces
<1>5. QED
    BY <1>2, <1>3, <1>4

\* An operation that returns without touching the manager keeps NMInv.
LEMMA ReturnInv ==
    ASSUME TypeOK, NMInv, NEW p \in Procs, Return(p), UNCHANGED nmVars
    PROVE  NMInv'
    BY DEF TypeOK, NMInv, NoncesExclusive, ReclaimedOnce, CounterBounds,
       Return, Active, nmVars

LEMMA IInvNext == IInv /\ [Next]_vars => IInv'
<1> SUFFICES ASSUME TypeOK, NMInv, [Next]_vars PROVE TypeOK' /\ NMInv'
    BY DEF IInv, NMInv
<1> USE MaxNonceAssumption, NoNonceAssumption
<1>1. TypeOK'
    BY TypeOKNext
<1>2. ASSUME NEW p \in Procs, Allocate(p) PROVE NMInv'
    <2>1. PICK n \in Nonces : GetNonce(PendingNonceAt, n) /\ held' = [held EXCEPT ![p] = n]
        BY <1>2 DEF Allocate
    <2>2. ~Active(p) /\ Active(p)' /\ \A q \in Procs \ {p} : Active(q)' = Active(q)
        BY <1>2 DEF Allocate, Active, TypeOK
    <2>3. CASE GetNonceReclaimed(n)
        <3>1. n \in Nonces /\ reclaimable[n] > 0
            BY <2>3, MinReclaimableIsLeast DEF GetNonceReclaimed, TypeOK, NMTypeOK
        <3>2. reclaimable[n] = 1
            BY <3>1 DEF NMInv, ReclaimedOnce, TypeOK, NMTypeOK
        <3>3. nonce # NoNonce /\ n < nonce
            BY <3>1 DEF NMInv, CounterBounds
        <3>4. \A q \in Procs : Active(q) => held[q] # n
            BY <3>1 DEF NMInv, NoncesExclusive
        <3>5. NoncesExclusive'
            BY <2>1, <2>2, <2>3, <3>2, <3>4 DEF NMInv, NoncesExclusive,
               GetNonceReclaimed, TypeOK, NMTypeOK
        <3>6. ReclaimedOnce'
            BY <2>3, <3>2 DEF NMInv, ReclaimedOnce, GetNonceReclaimed, TypeOK, NMTypeOK
        <3>7. CounterBounds'
            BY <2>1, <2>2, <2>3, <3>3 DEF NMInv, CounterBounds, GetNonceReclaimed,
               TypeOK, NMTypeOK, Nonces
        <3>8. QED
            BY <3>5, <3>6, <3>7 DEF NMInv
    <2>4. CASE GetNonceFromCounter(PendingNonceAt, n)
        <3>1. nonce' = n + 1 /\ UNCHANGED reclaimable
            BY <2>4 DEF GetNonceFromCounter
        <3>2. \A q \in Procs : Active(q) => held[q] < n
            BY <2>4 DEF GetNonceFromCounter, NMInv, CounterBounds, Active
        <3>3. \A m \in Nonces : reclaimable[m] > 0 => m < n
            BY <2>4 DEF GetNonceFromCounter, NMInv, CounterBounds
        <3>4. \A q \in Procs : Active(q) => held[q] \in Nonces
            BY DEF TypeOK, Active
        <3>5. NoncesExclusive'
            BY <2>1, <2>2, <3>1, <3>2, <3>3, <3>4 DEF NMInv, NoncesExclusive, TypeOK,
               NMTypeOK, Nonces
        <3>6. ReclaimedOnce'
            BY <3>1 DEF NMInv, ReclaimedOnce
        <3>7. CounterBounds'
            BY <2>1, <2>2, <3>1, <3>2, <3>3, <3>4 DEF NMInv, CounterBounds, TypeOK,
               NMTypeOK, Nonces
        <3>8. QED
            BY <3>5, <3>6, <3>7 DEF NMInv
    <2>5. QED
        BY <2>1, <2>3, <2>4 DEF GetNonce
<1>3. ASSUME NEW p \in Procs, LocalFailure(p) PROVE NMInv'
    BY <1>3, MarkFailedReturnInv DEF LocalFailure, Active
<1>4. ASSUME NEW p \in Procs, SendAccepted(p) PROVE NMInv'
    BY <1>4 DEF SendAccepted, NMInv, NoncesExclusive, ReclaimedOnce, CounterBounds,
       Active, nmVars, TypeOK
<1>5. ASSUME NEW p \in Procs, SendRejected(p) PROVE NMInv'
    BY <1>5, MarkFailedReturnInv DEF SendRejected, Active
<1>6. ASSUME NEW p \in Procs, SendLost(p) PROVE NMInv'
    BY <1>6, MarkFailedReturnInv DEF SendLost, Active
<1>7. ASSUME NEW p \in Procs, ReceiptSuccess(p) PROVE NMInv'
    <2>1. UNCHANGED <<nonce, reclaimable>>
        BY <1>7 DEF ReceiptSuccess, MarkConfirmed
    <2>2. QED
        BY <1>7, <2>1 DEF ReceiptSuccess, Return, TypeOK, NMInv, NoncesExclusive,
           ReclaimedOnce, CounterBounds, Active
<1>8. ASSUME NEW p \in Procs, ReceiptFailed(p) PROVE NMInv'
    BY <1>8, ReturnInv DEF ReceiptFailed
<1>9. ASSUME NEW p \in Procs, WaitFails(p) PROVE NMInv'
    BY <1>9, ReturnInv DEF WaitFails
<1>10. ASSUME Mine PROVE NMInv'
    BY <1>10 DEF Mine, NMInv, NoncesExclusive, ReclaimedOnce, CounterBounds, Active,
       nmVars, procVars
<1>11. ASSUME UNCHANGED vars PROVE NMInv'
    BY <1>11 DEF vars, NMInv, NoncesExclusive, ReclaimedOnce, CounterBounds, Active,
       nmVars, procVars
<1>12. QED
    BY <1>1, <1>2, <1>3, <1>4, <1>5, <1>6, <1>7, <1>8, <1>9, <1>10, <1>11 DEF Next, Proc

\* Two goroutines running CreateProofSet, AddRoots or DeleteProofSet on the
\* same Manager never hold the same nonce, and none holds a nonce that the
\* reclaimable pool offers again, for any number of goroutines and nonces.
THEOREM NoncesExclusiveInv == Spec => []NoncesExclusive
<1>1. IInv => NoncesExclusive
    BY DEF IInv
<1>2. QED
    BY IInvInit, IInvNext, <1>1, PTL DEF Spec

-----------------------------------------------------------------------------

(***************************************************************************)
(* SentTxNotDisplaced.  Known(txOf[p]) only asks that some pooled          *)
(* transaction carry the hash; the proof keeps the stronger fact that the  *)
(* very transaction p sent, with p's nonce, is pooled or has a receipt.    *)
(* Only a send with the same nonce could push it out of the pool (Admit    *)
(* replaces by nonce), and NoncesExclusive says no other running operation *)
(* holds that nonce; a block that mines it leaves its receipt.             *)
(***************************************************************************)

\* The transaction goroutine p sent: its nonce and its hash.
SentTx(p) == [nonce |-> held[p], id |-> txOf[p]]

\* p's sent transaction is in the pool or mined.
SentTxLive ==
    \A p \in Procs :
        pc[p] = "waiting" => SentTx(p) \in pool \/ \E s \in Status : HasReceipt(txOf[p], s)

\* A step of goroutine q that leaves the node alone and does not make q
\* wait keeps SentTxLive.
LEMMA OtherStepLive ==
    ASSUME TypeOK, SentTxLive, NEW q \in Procs,
           UNCHANGED ledgerVars, pc'[q] # "waiting",
           \A r \in Procs \ {q} : /\ pc'[r] = pc[r] /\ held'[r] = held[r]
                                 /\ txOf'[r] = txOf[r]
    PROVE  SentTxLive'
BY DEF SentTxLive, SentTx, HasReceipt, ledgerVars

\* Goroutine q admits a transaction with its own nonce: the transactions
\* of the other waiting goroutines carry other nonces and stay pooled.
LEMMA AdmitKeepsOthers ==
    ASSUME IInv, SentTxLive, NEW q \in Procs, Active(q),
           NEW tx \in Tx, tx.nonce = held[q], Admit(tx),
           NEW r \in Procs \ {q}, pc[r] = "waiting"
    PROVE  SentTx(r) \in pool' \/ \E s \in Status : [id |-> txOf[r], status |-> s] \in receipts'
<1>1. held[r] # held[q]
    BY DEF IInv, NoncesExclusive, Active
<1>2. UNCHANGED receipts /\ \A t \in pool : t.nonce # held[q] => t \in pool'
    BY DEF Admit
<1>3. CASE SentTx(r) \in pool
    <2>1. SentTx(r).nonce # held[q]
        BY <1>1 DEF SentTx
    <2>2. QED
        BY <1>2, <1>3, <2>1
<1>4. CASE \E s \in Status : HasReceipt(txOf[r], s)
    BY <1>2, <1>4 DEF HasReceipt
<1>5. QED
    BY <1>3, <1>4 DEF SentTxLive

LEMMA SentTxLiveNext == IInv /\ SentTxLive /\ [Next]_vars => SentTxLive'
<1> SUFFICES ASSUME IInv, SentTxLive, [Next]_vars PROVE SentTxLive'
    OBVIOUS
<1>0. TypeOK
    BY DEF IInv
<1> USE DEF TypeOK, ProcsTypeOK, PC
<1>1. ASSUME NEW q \in Procs, Allocate(q) PROVE SentTxLive'
    BY <1>0, <1>1, OtherStepLive DEF Allocate
<1>2. ASSUME NEW q \in Procs,
             LocalFailure(q) \/ SendRejected(q) \/ ReceiptSuccess(q)
             \/ ReceiptFailed(q) \/ WaitFails(q)
      PROVE  SentTxLive'
    <2>1. UNCHANGED ledgerVars /\ Return(q)
        BY <1>2 DEF LocalFailure, SendRejected, ReceiptSuccess, ReceiptFailed, WaitFails
    <2>2. QED
        BY <1>0, <2>1, OtherStepLive DEF Return
<1>3. ASSUME NEW q \in Procs, SendAccepted(q) PROVE SentTxLive'
    <2> DEFINE tx == [nonce |-> held[q], id |-> sends + 1]
    <2>1. tx \in Tx /\ Admit(tx) /\ Active(q)
        BY <1>0, <1>3, HeldNonce DEF SendAccepted, Tx, Nonces, Active
    <2>2. ASSUME NEW r \in Procs, pc'[r] = "waiting"
          PROVE  SentTx(r)' \in pool' \/ \E s \in Status : HasReceipt(txOf[r], s)'
        <3>1. CASE r = q
            <4>1. SentTx(q)' = tx
                BY <1>0, <1>3 DEF SendAccepted, SentTx
            <4>2. QED
                BY <2>1, <3>1, <4>1 DEF Admit
        <3>2. CASE r # q
            <4>1. pc[r] = "waiting" /\ SentTx(r)' = SentTx(r) /\ txOf'[r] = txOf[r]
                BY <1>3, <2>2, <3>2 DEF SendAccepted, SentTx
            <4>2. QED
                BY <2>1, <3>2, <4>1, AdmitKeepsOthers DEF HasReceipt
        <3>3. QED
            BY <3>1, <3>2
    <2>3. QED
        BY <2>2 DEF SentTxLive
<1>4. ASSUME NEW q \in Procs, SendLost(q) PROVE SentTxLive'
    <2> DEFINE tx == [nonce |-> held[q], id |-> sends + 1]
    <2>1. tx \in Tx /\ Admit(tx) /\ Active(q)
        BY <1>0, <1>4, HeldNonce DEF SendLost, Tx, Nonces, Active
    <2>2. ASSUME NEW r \in Procs, pc'[r] = "waiting"
          PROVE  SentTx(r)' \in pool' \/ \E s \in Status : HasReceipt(txOf[r], s)'
        <3>1. r # q /\ pc[r] = "waiting" /\ SentTx(r)' = SentTx(r) /\ txOf'[r] = txOf[r]
            BY <1>4, <2>2 DEF SendLost, Return, SentTx
        <3>2. QED
            BY <2>1, <3>1, AdmitKeepsOthers DEF HasReceipt
    <2>3. QED
        BY <2>2 DEF SentTxLive
<1>5. CASE Mine
    <2>1. PICK t \in pool, st \in Status :
              /\ pool' = pool \ {t}
              /\ receipts' = receipts \cup {[id |-> t.id, status |-> st]}
        BY <1>5 DEF Mine, MineBlock
    <2>2. UNCHANGED <<pc, held, txOf>>
        BY <1>5 DEF Mine, procVars
    <2>3. QED
        BY <2>1, <2>2 DEF SentTxLive, SentTx, HasReceipt
<1>6. CASE UNCHANGED vars
    BY <1>6 DEF vars, ledgerVars, procVars, SentTxLive, SentTx, HasReceipt
<1>7. QED
    BY <1>1, <1>2, <1>3, <1>4, <1>5, <1>6 DEF Next, Proc

\* The transaction a CreateProofSet, AddRoots or DeleteProofSet sent and is
\* waiting for is always pooled or mined, for any number of goroutines and
\* nonces: no other operation of the Manager displaces it, so
\* WaitForReceipt never polls a hash that can no longer be mined.
THEOREM SentTxNotDisplacedInv == Spec => []SentTxNotDisplaced
<1>1. Init => SentTxLive
    BY DEF Init, SentTxLive
<1>2. IInv /\ SentTxLive /\ [Next]_vars => IInv' /\ SentTxLive'
    BY IInvNext, SentTxLiveNext
<1>3. SentTxLive => SentTxNotDisplaced
    BY DEF SentTxLive, SentTxNotDisplaced, Known, SentTx, HasReceipt
<1>4. QED
    BY IInvInit, <1>1, <1>2, <1>3, PTL DEF Spec

=============================================================================
