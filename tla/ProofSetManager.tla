--------------------------- MODULE ProofSetManager --------------------------
(***************************************************************************)
(* The nonce-consuming operations of pdp/manager.go (CreateProofSet,       *)
(* AddRoots, DeleteProofSet), run concurrently by the goroutines Procs on  *)
(* one Manager and so on one NonceManager, against one node (Ledger).      *)
(*                                                                         *)
(* Each operation follows the same protocol:                               *)
(*   GetNonce; txSent := false; defer { if !txSent { MarkFailed(nonce) } } *)
(*   newTransactor, gas estimation (NoSend), the real contract call        *)
(*   (sign + SendTransaction); txSent := true; WaitForReceipt;             *)
(*   MarkConfirmed(nonce) on a successful receipt.                         *)
(* The steps between GetNonce and the send touch no shared state, so a     *)
(* local failure among them is one step.  The operation-specific reads     *)
(* before GetNonce and the log parsing after MarkConfirmed change no state *)
(* and are left out.                                                       *)
(***************************************************************************)
EXTENDS NonceManager, Ledger

CONSTANTS
    Procs,      \* goroutines calling the Manager concurrently
    MaxSends,   \* bound on the transactions built in a behaviour
    NoTx        \* model value: no transaction

ASSUME ProcsAssumption == Procs # {}

ASSUME MaxSendsAssumption == MaxSends \in Nat

ASSUME NoTxAssumption == NoTx \notin Nat

TxIds == 1..MaxSends

VARIABLES
    pc,         \* where each goroutine is in its operation
    held,       \* the nonce GetNonce returned to it (NoNonce when idle)
    txOf,       \* the hash of the transaction it sent (NoTx before that)
    sends,      \* transactions built so far; the next one gets id sends+1
    unresolved  \* history: nonces whose WaitForReceipt ended in an error

procVars == <<pc, held, txOf, sends, unresolved>>

vars == <<nmVars, ledgerVars, procVars>>

PC == {"idle", "allocated", "waiting"}

\* A goroutine inside an operation holds its nonce.
Active(p) == pc[p] \in {"allocated", "waiting"}

TypeOK ==
    /\ NMTypeOK
    /\ LTypeOK
    /\ pc \in [Procs -> PC]
    /\ held \in [Procs -> Nonces \cup {NoNonce}]
    /\ txOf \in [Procs -> TxIds \cup {NoTx}]
    /\ sends \in 0..MaxSends
    /\ unresolved \subseteq Nonces
    /\ \A p \in Procs : Active(p) <=> held[p] # NoNonce
    /\ \A p \in Procs : pc[p] = "waiting" <=> txOf[p] # NoTx

Init ==
    /\ NMInit
    /\ LInit
    /\ pc = [p \in Procs |-> "idle"]
    /\ held = [p \in Procs |-> NoNonce]
    /\ txOf = [p \in Procs |-> NoTx]
    /\ sends = 0
    /\ unresolved = {}

\* The operation returns: the goroutine drops its nonce and transaction.
Return(p) ==
    /\ pc' = [pc EXCEPT ![p] = "idle"]
    /\ held' = [held EXCEPT ![p] = NoNonce]
    /\ txOf' = [txOf EXCEPT ![p] = NoTx]

\* nonceManager.GetNonce succeeds; the defer guarding it is installed.
\* (A failed GetNonce returns before anything changes: a stutter.)
Allocate(p) ==
    /\ pc[p] = "idle"
    /\ \E n \in Nonces :
        /\ GetNonce(PendingNonceAt, n)
        /\ held' = [held EXCEPT ![p] = n]
    /\ pc' = [pc EXCEPT ![p] = "allocated"]
    /\ UNCHANGED <<ledgerVars, txOf, sends, unresolved>>

\* newTransactor, the NoSend gas estimation or the signing inside the
\* contract call fails: return with txSent false, the defer runs MarkFailed.
LocalFailure(p) ==
    /\ pc[p] = "allocated"
    /\ MarkFailed(held[p])
    /\ Return(p)
    /\ UNCHANGED <<ledgerVars, sends, unresolved>>

\* Mutant: the hash of the sent transaction is not kept for the wait.
SendAcceptedNoHash(p) ==
    /\ pc[p] = "allocated"
    /\ sends < MaxSends
    /\ Admit([nonce |-> held[p], id |-> sends + 1])
    /\ sends' = sends + 1
    /\ pc' = [pc EXCEPT ![p] = "waiting"]
    /\ UNCHANGED <<nmVars, held, txOf, unresolved>>

\* The contract call's SendTransaction is admitted by the node and returns
\* no error: txSent := true.
SendAccepted(p) ==
    /\ pc[p] = "allocated"
    /\ sends < MaxSends
    /\ Admit([nonce |-> held[p], id |-> sends + 1])
    /\ sends' = sends + 1
    /\ pc' = [pc EXCEPT ![p] = "waiting"]
    /\ txOf' = [txOf EXCEPT ![p] = sends + 1]
    /\ UNCHANGED <<nmVars, held, unresolved>>

\* The node refuses the transaction (nonce too low, already known,
\* replacement underpriced, insufficient funds): the call returns an
\* error with txSent false and the defer runs MarkFailed.
SendRejected(p) ==
    /\ pc[p] = "allocated"
    /\ MarkFailed(held[p])
    /\ Return(p)
    /\ UNCHANGED <<ledgerVars, sends, unresolved>>

\* The node admits the transaction but the call still returns an error
\* (timeout, connection reset after the request was delivered): txSent is
\* false and the defer runs MarkFailed although the transaction is live.
SendLost(p) ==
    /\ pc[p] = "allocated"
    /\ sends < MaxSends
    /\ Admit([nonce |-> held[p], id |-> sends + 1])
    /\ sends' = sends + 1
    /\ MarkFailed(held[p])
    /\ Return(p)
    /\ UNCHANGED unresolved

\* WaitForReceipt returns a successful receipt: MarkConfirmed.
ReceiptSuccess(p) ==
    /\ pc[p] = "waiting"
    /\ HasReceipt(txOf[p], "successful")
    /\ MarkConfirmed(held[p])
    /\ Return(p)
    /\ UNCHANGED <<ledgerVars, sends, unresolved>>

\* WaitForReceipt returns the receipt with an error because its status is
\* failed: the operation returns that error; txSent is true, so no
\* MarkFailed, and MarkConfirmed is not reached.
ReceiptFailed(p) ==
    /\ pc[p] = "waiting"
    /\ HasReceipt(txOf[p], "failed")
    /\ Return(p)
    /\ UNCHANGED <<nmVars, ledgerVars, sends, unresolved>>

\* WaitForReceipt gives up (its timeout, or too many consecutive RPC
\* errors): the nonce stays pending, the transaction may still land.
WaitFails(p) ==
    /\ pc[p] = "waiting"
    /\ unresolved' = unresolved \cup {held[p]}
    /\ Return(p)
    /\ UNCHANGED <<nmVars, ledgerVars, sends>>

\* The chain makes progress independently of the library.
Mine ==
    /\ MineBlock
    /\ UNCHANGED <<nmVars, procVars>>

Proc(p) ==
    \/ Allocate(p)
    \/ LocalFailure(p)
    \/ SendAccepted(p)
    \/ SendRejected(p)
    \/ SendLost(p)
    \/ ReceiptSuccess(p)
    \/ ReceiptFailed(p)
    \/ WaitFails(p)

Next ==
    \/ \E p \in Procs : Proc(p)
    \/ Mine

Spec == Init /\ [][Next]_vars

-----------------------------------------------------------------------------
(* Properties *)

\* Two operations running at once never hold the same nonce, and the nonce
\* an operation holds is never at the same time offered for reuse by the
\* reclaimable pool: GetNonce's pool branch, its counter branch and the
\* MarkFailed of the deferred cleanup together keep nonces exclusive.
NoncesExclusive ==
    /\ \A p, q \in Procs :
          p # q /\ Active(p) /\ Active(q) => held[p] # held[q]
    /\ \A p \in Procs : Active(p) => reclaimable[held[p]] = 0

\* The transaction an operation sent and is waiting for stays in the pool
\* until it is mined: no other operation of the same Manager replaces it
\* with a transaction carrying the same nonce, which would leave
\* WaitForReceipt polling a hash that can never be mined.
SentTxNotDisplaced ==
    \A p \in Procs : pc[p] = "waiting" => Known(txOf[p])

\* MarkFailed's contract (nonce.go): a nonce offered for reuse belongs to
\* no transaction that reached the network, neither a pooled one nor a
\* mined one.  Otherwise the next GetNonce hands out a nonce the node
\* refuses ("nonce too low", "already known") or replaces a live tx with.
ReclaimedNonceUnused ==
    \A n \in Nonces :
        reclaimable[n] > 0 => n >= chainNonce /\ n \notin PoolNonces

\* pendingTxs, whose size GetPendingCount reports as the transactions in
\* flight, holds only the nonces of running operations and of those whose
\* receipt wait gave up with the transaction's fate unknown; a transaction
\* the operation saw mined (receipt found, success or failure) is settled.
PendingTracksInFlight ==
    pendingTxs \subseteq {held[p] : p \in Procs} \cup unresolved


-----------------------------------------------------------------------------
(* The strengthening of NoncesExclusive that is inductive *)

\* While the counter is nil no operation holds a nonce and the pool is
\* empty; once it is set, every held or pooled nonce is below it.
CounterBounds ==
    /\ nonce = NoNonce =>
          /\ \A p \in Procs : ~Active(p)
          /\ \A n \in Nonces : reclaimable[n] = 0
    /\ nonce # NoNonce =>
          /\ \A p \in Procs : Active(p) => held[p] < nonce
          /\ \A n \in Nonces : reclaimable[n] > 0 => n < nonce

\* No nonce is twice in the reclaimable pool.
ReclaimedOnce == \A n \in Nonces : reclaimable[n] <= 1

IInv ==
    /\ TypeOK
    /\ NoncesExclusive
    /\ ReclaimedOnce
    /\ CounterBounds

=============================================================================
