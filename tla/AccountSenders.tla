---------------------------- MODULE AccountSenders ----------------------------
(***************************************************************************)
(* The two other ways the library builds and sends a transaction of the    *)
(* sender account, against the node (Ledger):                              *)
(*                                                                         *)
(*  - spregistry.Contract.transact: getNextNonce hands out the value of a  *)
(*    counter cached under nonceMu (loaded once from PendingNonceAt), then *)
(*    ChainID, SuggestGasTipCap, HeaderByNumber, EstimateGas and the       *)
(*    signer run, then SendTransaction.  No failure gives the nonce back.  *)
(*  - PaymentsContract.transact and ERC20Contract.transact: PendingNonceAt *)
(*    is read at every call, with no lock, then SuggestGasPrice,           *)
(*    EstimateGas and the signer run, then SendTransaction.                *)
(*                                                                         *)
(* Goroutines SPProcs call methods of one spregistry Contract, goroutines  *)
(* PayProcs call methods of the payments or ERC20 contracts, one call at a *)
(* time each.  The steps between taking the nonce and the send touch no    *)
(* shared state, so their failure is one step.                             *)
(***************************************************************************)
EXTENDS Ledger, FiniteSets

CONSTANTS
    SPProcs,    \* goroutines calling the spregistry Contract
    PayProcs,   \* goroutines calling payments / erc20 transact
    MaxNonce,   \* the model stops the counters at this nonce
    MaxSends,   \* bound on the transactions built in a behaviour
    NoNonce     \* model value: no nonce in hand

\* SPProcs and PayProcs are disjoint sets of model values, MaxNonce and
\* MaxSends natural numbers.

Procs == SPProcs \cup PayProcs

Nonces == 0..MaxNonce

TxIds == 1..MaxSends

VARIABLES
    spNonce,    \* Contract.nonce
    spLoaded,   \* Contract.nonceLoaded
    pc,         \* "idle", or "prepared": a nonce in hand, not yet sent
    nonceOf,    \* the nonce of the call in progress
    sends,      \* transactions built so far; the next one gets id sends+1
    returned    \* history: ids of the transactions transact returned

vars == <<spNonce, spLoaded, pc, nonceOf, sends, returned, ledgerVars>>

TypeOK ==
    /\ LTypeOK
    /\ spNonce \in Nat
    /\ spLoaded \in BOOLEAN
    /\ pc \in [Procs -> {"idle", "prepared"}]
    /\ nonceOf \in [Procs -> Nonces \cup {NoNonce}]
    /\ sends \in 0..MaxSends
    /\ returned \subseteq TxIds

\* NewContract: the counter is not loaded (Go zero values).
Init ==
    /\ LInit
    /\ spNonce = 0
    /\ spLoaded = FALSE
    /\ pc = [p \in Procs |-> "idle"]
    /\ nonceOf = [p \in Procs |-> NoNonce]
    /\ sends = 0
    /\ returned = {}

\* getNextNonce: load the counter from PendingNonceAt the first time, hand
\* out its value and increment it.  (A failed PendingNonceAt returns
\* before anything changes.)
GetNextNonce(p) ==
    LET n == IF spLoaded THEN spNonce ELSE PendingNonceAt
    IN  /\ p \in SPProcs
        /\ pc[p] = "idle"
        /\ n < MaxNonce
        /\ spNonce' = n + 1
        /\ spLoaded' = TRUE
        /\ nonceOf' = [nonceOf EXCEPT ![p] = n]
        /\ pc' = [pc EXCEPT ![p] = "prepared"]
        /\ UNCHANGED <<sends, returned, ledgerVars>>

\* payments / erc20 transact: nonce := PendingNonceAt(opts.From).
ReadPendingNonce(p) ==
    /\ p \in PayProcs
    /\ pc[p] = "idle"
    /\ PendingNonceAt < MaxNonce
    /\ nonceOf' = [nonceOf EXCEPT ![p] = PendingNonceAt]
    /\ pc' = [pc EXCEPT ![p] = "prepared"]
    /\ UNCHANGED <<spNonce, spLoaded, sends, returned, ledgerVars>>

\* The call returns (with or without error); the goroutine may call again.
Finish(p) ==
    /\ pc' = [pc EXCEPT ![p] = "idle"]
    /\ nonceOf' = [nonceOf EXCEPT ![p] = NoNonce]

\* ChainID, the gas price or tip, the header, EstimateGas or the signer
\* fails: transact returns the error; the nonce is not given back.
PrepareFails(p) ==
    /\ pc[p] = "prepared"
    /\ Finish(p)
    /\ UNCHANGED <<spNonce, spLoaded, sends, returned, ledgerVars>>

\* SendTransaction is admitted (replacing a pooled transaction with the
\* same nonce) and returns nil: transact returns the signed transaction.
SendOk(p) ==
    /\ pc[p] = "prepared"
    /\ sends < MaxSends
    /\ Admit([nonce |-> nonceOf[p], id |-> sends + 1])
    /\ sends' = sends + 1
    /\ returned' = returned \cup {sends + 1}
    /\ Finish(p)
    /\ UNCHANGED <<spNonce, spLoaded>>

\* The node refuses the transaction (nonce too low, replacement
\* underpriced, insufficient funds): transact returns the error.
SendRefused(p) ==
    /\ pc[p] = "prepared"
    /\ sends < MaxSends
    /\ sends' = sends + 1
    /\ Finish(p)
    /\ UNCHANGED <<spNonce, spLoaded, returned, ledgerVars>>

\* The node admits the transaction but the call returns an error.
SendLost(p) ==
    /\ pc[p] = "prepared"
    /\ sends < MaxSends
    /\ Admit([nonce |-> nonceOf[p], id |-> sends + 1])
    /\ sends' = sends + 1
    /\ Finish(p)
    /\ UNCHANGED <<spNonce, spLoaded, returned>>

Mine ==
    /\ MineBlock
    /\ UNCHANGED <<spNonce, spLoaded, pc, nonceOf, sends, returned>>

Next ==
    \/ \E p \in Procs :
          \/ GetNextNonce(p) \/ ReadPendingNonce(p) \/ PrepareFails(p)
          \/ SendOk(p) \/ SendRefused(p) \/ SendLost(p)
    \/ Mine

Spec == Init /\ [][Next]_vars

\* The node mines whatever it can mine; nothing obliges a caller to call.
FairSpec == Spec /\ WF_vars(Mine)

-----------------------------------------------------------------------------
(* Properties *)

\* A transaction a transact call returned as sent is eventually mined by
\* a node that keeps mining, with no further call of the library: no nonce
\* the library skipped holds it back.
ReturnedTxMined ==
    \A id \in TxIds :
        id \in returned ~> \E s \in Status : HasReceipt(id, s)

\* A transaction a transact call returned as sent stays in the pool until
\* it is mined: no later call of the library replaces it with another
\* transaction carrying the same nonce.
ReturnedTxNotDisplaced ==
    \A id \in returned : Known(id)

=============================================================================
