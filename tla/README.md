# Formal models of go-synapse

TLA+ models, TLC runs and TLAPS proofs for the parts of go-synapse whose
state changes: how nonces are allocated, released and confirmed, how the
write operations of `pdp.Manager` use them against a chain that mines
transactions, how receipts are waited for, how a send is retried, how the
other contract bindings take their nonces, and how `storage.Manager`
creates a data set and adds pieces to it through a PDP server.

## 1. The system and what matters in it

go-synapse is a Go client for Filecoin's PDP (proof of data possession) and
payments contracts. Most of its code is conversion: building ABI calls,
decoding logs, HTTP requests to a PDP server. The state that changes, and
that several goroutines share, is on the path that sends transactions:

| Part | Source | Shared state and control flow |
|---|---|---|
| NonceManager | `src/pkg/txutil/nonce.go` | Mutex-guarded cached counter `nonce *uint64`, the `pendingTxs` set, the `reclaimable` pool of failed nonces. `GetNonce` reuses the smallest pooled nonce first. Otherwise it fetches `PendingNonceAt` once, then hands out the counter and increments it. `MarkFailed` pools a nonce, `MarkConfirmed` forgets it, and `Reset` refetches the counter. |
| pdp.Manager write operations | `src/pdp/manager.go` (`CreateProofSet` 178-236, `AddRoots` 284-362, `DeleteProofSet` 395-431) | They share one NonceManager. Each runs GetNonce, then a `txSent` defer that calls MarkFailed when it returns before a successful send. Then the transactor, gas estimation (NoSend), the send, `WaitForReceipt`, and finally MarkConfirmed. |
| Receipt waiting | `src/unnamed/part_002` (`WaitForConfirmation` 110-168, `WaitForReceipt` 172-178, `WaitForReceiptWithConfig` 181-230) | Ticker-driven polling loops. A NotFound answer resets a counter of consecutive RPC errors; at the limit the wait gives up. A receipt with failed status is returned as an error. WaitForReceiptWithConfig has its own deadline. WaitForConfirmation also waits for a confirmation depth and ends only with the caller's context. |
| Transaction retry | `src/pkg/txutil/retry.go` | `SendTransactionWithRetry` with a capped growing backoff; `IsRetryableError` counts "already known" and "nonce too low" as retryable. `WaitForTransactionWithRetry` then runs WaitForConfirmation. |
| Generic retry | `src/internal/retry/backoff.go` | `Poll` (a ticker under a deadline; any error of the polled call ends it) and `Do` (no caller). |
| spregistry nonce | `src/spregistry/types.go` (`getNextNonce` 1005-1021, `transact` 932-1003) | A second cached counter, under its own mutex, that never gives a nonce back. |
| payments / erc20 transact | `src/contracts/payments.go` 444-482, `src/contracts/erc20.go` 294-335 | `PendingNonceAt` is fetched on every call, with no lock. |
| Storage manager | `src/unnamed/part_014` (`storage.Manager`), `src/pdp/server.go` | `dataSetID`, `clientDataSetID` and its loaded flag, kept across Uploads; each Upload ensures a data set, uploads the piece and adds it, through server requests and `retry.Poll` waits. |
| Everything else | signer, ABI, types, synapse client, network, constants | Encoding and wiring, with no shared mutable state. |

They interact through the chain. Every component that sends takes a nonce,
and the node accepts a transaction only if its nonce is at least the
account's and mines nonces strictly in order. A nonce handed out twice, or
released while its transaction is live, or skipped, breaks the sequence for
every later transaction of the account. No unit test reaches this, because
it needs:

- two goroutines interleaving on one Manager;
- a send whose response is lost after the node admitted the transaction;
- a receipt wait that gives up before the block arrives;
- a transaction mined with a failed status.

## 2. Modules

| Module | Models | State | Actions |
|---|---|---|---|
| `NonceManager` | `nonce.go` (first version, with the pool) | `nonce` (`NoNonce` stands for the nil pointer), `pendingTxs` (a set), `reclaimable` (a multiset: a count per nonce, because GetNonce sorts the slice before it reads it, so its order is never observed) | `GetNonceReclaimed`, `GetNonceFromCounter`, `GetNonceFetchFails`, `MarkConfirmed`, `MarkFailed`, `Reset` (operators, composed below) |
| `Ledger` | The node and chain, the environment of the library (geth / Lotus semantics) | `chainNonce` (the account nonce), `pool` (pending transactions, one per nonce), `receipts` | `Admit` (nonce ≥ account nonce; replaces a pending transaction with the same nonce), `MineBlock` (only the transaction whose nonce equals the account nonce is mined, with status success or failed), and `PendingNonceAt` (the account nonce advanced past the consecutive pooled nonces) |
| `ProofSetManager` | A Manager with its NonceManager, run by goroutines `Procs`, each one write operation at a time | the two modules above, plus per goroutine `pc`, `held` (its nonce) and `txOf` (the id of its sent transaction), plus `sends` (the id counter) and `unresolved` (a history variable: nonces whose wait gave up) | one action per exit path of the operation, listed below |
| `MC_ProofSetManager` | TLC instance | | symmetry on `Procs` |
| `ReceiptChain` | What a receipt wait observes of the chain (environment) | `mined` (not yet, or the receipt status), `minedBlock`, `head` | `MineTx`, `NewBlock` |
| `ReceiptWait` | The abstract receipt wait of the design (§4.5): the promise a waiter makes | `result` (pending or the outcome), `expired`, `depth` (the confirmations asked for, an argument that never changes) | `Confirm` (successful and `depth` blocks deep), `FailOnchain`, `TimeOut` (only once expired), `GiveUp`, `Expire`; `WaitFairSpec` adds that the deadline comes and an expired wait returns |
| `ReceiptWaiter` | `WaitForReceiptWithConfig` | `rwState`, `consecutiveErrors`, `pollCount`, `expired` (ctx.Done() ready), `answers` (history of what each poll saw) | `CtxDone`, `PollNotFound`, `PollRPCError`, `PollReceipt`, `Expire`, `Chain` |
| `ConfirmationWaiter` | `WaitForConfirmation` (second version) | as above, with `cwState` and the argument `confirmations` (chosen in `Init`, never changed) | `CtxDone`, `PollNotFound`, `PollRPCError`, `PollFailedStatus`, `PollNoDepth`, `PollHeadError`, `PollDepth`, `Expire`, `Chain` |
| `TxRetrier` | `SendTransactionWithRetry`, `IsRetryableError`, `WaitForTransactionWithRetry` | `phase`, `attempt`, `backoff`, `lastWait`, `lastErr`, `sendResult`; the node seen through the one transaction (`pooled`, and `ReceiptChain`); the wait as `ReceiptWait` | `SendOk`, `SendLost` (admitted, response lost), `SendUndelivered`, `SendRefused` (already known / nonce too low / insufficient funds, by the node's state), `BackoffCanceled`, `BackoffElapsed` (grows and caps the backoff), `WaitReturns`, `Expire`, `Mine`, `Block` |
| `AccountSenders` | spregistry `getNextNonce` and `transact`; payments and erc20 `transact` | `spNonce`, `spLoaded`, per goroutine `pc` and `nonceOf`, `sends`, `returned` (history), and `Ledger` | `GetNextNonce`, `ReadPendingNonce`, `PrepareFails` (ChainID, gas, header, estimate or signer fails), `SendOk`, `SendRefused`, `SendLost`, `Mine` |
| `StorageManager` | `storage.Manager` Upload path, with the PDP server requests and `retry.Poll` waits | `dataSetID`, `clientDataSetID`, `loaded`, `hasFetcher`; the call's `pc`, `piece`, `curReq`, `lastErr`; the server's `reqs` and `parked`; the chain's `dataSets` and `added` | `StartUpload`, `EnsureLoaded`, `EnsureNoFetcher`, `FetchClientId`, `FetchFails`, `CreateNotSent`, `CreateTaken(answered)`, `WaitCreateDone/NoID/Fails`, `UploadPieceOk/Fails`, `WaitPieceDone/Fails`, `AddNotSent`, `AddTaken(answered)`, `WaitAddDone/NoIDs/Fails`, and the chain's `ChainCreate`, `ChainAdd` |
| `ProofSetManagerProofs` | TLAPS proofs about `ProofSetManager` | | |
| `StorageManagerProofs` | TLAPS proofs about `StorageManager` | | |
| `ReceiptWaiterProofs` | TLAPS proofs about `ReceiptWaiter` | | |
| `ConfirmationWaiterProofs` | TLAPS proofs about `ConfirmationWaiter` | | |
| `TxRetrierProofs` | TLAPS proofs about `TxRetrier` | | |

The actions of `ProofSetManager` and the code they stand for:

- **`Allocate`** is `GetNonce` succeeding, on the pool branch or the counter branch. When `PendingNonceAt` fails, GetNonce returns an error and changes nothing; that is a stutter step.
- **`LocalFailure`**: `newTransactor` or the NoSend estimation fails, and the defer runs MarkFailed.
- **`SendAccepted`**: the send returns no error and `txSent` becomes true.
- **`SendRejected`**: the node refuses the transaction, and the defer runs MarkFailed.
- **`SendLost`**: the node admits the transaction but the call still returns an error, and the defer runs MarkFailed.
- **`ReceiptSuccess`**: the receipt is found with status success, and the operation calls MarkConfirmed.
- **`ReceiptFailed`**: the receipt has a failed status. WaitForReceipt returns an error; nothing is marked.
- **`WaitFails`**: timeout, or too many consecutive RPC errors. The nonce stays pending.
- **`Mine`**: the chain mines the next transaction.

The three write operations have the same nonce discipline. The model does
not tell them apart: the arguments, the ABI packing and the proof-set id
decoding do not change the nonce state.

## 3. Runs

`MC_ProofSetManager.cfg` uses these constants:

- `Procs = {p1, p2}`;
- `MaxNonce = 3`, so nonces 0..3 and the counter stops at 3;
- `MaxSends = 4`, the number of transactions ever sent.

Two goroutines are enough for every pairwise interleaving on the manager's
mutex. Four sends with three nonces allow one transaction to be replaced or
resent and still leave room for later ones. The run also covers:

- the pool branch after one or two failures;
- a reused nonce whose first transaction is already mined.

The check ends with 12,667 distinct states, depth 16. Symmetry on `Procs`
is sound: goroutines are model values and no definition names one of them.
Deadlock is not checked (`CHECK_DEADLOCK FALSE`). A library with no callers
left is quiescent, and the bounds end every behaviour.

| Run | Expect | Properties | Shows |
|---|---|---|---|
| `psm_safety` | pass | `TypeOK`, `NoncesExclusive`, `SentTxNotDisplaced` | Two goroutines never hold the same nonce, and never hold one the pool offers again. A sent transaction that an operation waits for is never replaced by a transaction of the same Manager. |
| `psm_lost_response` | violation | `ReclaimedNonceUnused` | The contract of MarkFailed ("only for local failures before the transaction is sent") is broken by the Manager's own defer when the send response is lost. |
| `psm_failed_receipt` | violation | `PendingTracksInFlight` | A transaction mined with a failed status stays in `pendingTxs` forever. |

### Receipt waits

`MC_ReceiptWaiter.cfg` uses `MaxHead = 2`, `MaxConsecutiveErrors = 2` and
`MaxPolls = 4`, which gives 651 distinct states. Four ticks are room for the
error limit to be reached, and also for it to be reset by NotFound and then
reached again. `MC_ConfirmationWaiter.cfg` uses `MaxHead = 3`,
`MaxConfirmations = 1` and `MaxPolls = 6`, which gives 49,691 distinct
states. The argument `confirmations` is a variable chosen in `Init` (0 or
1) and never changed, so one run covers both branches of the code: the
receipt alone, and the receipt at a depth. Three blocks let the receipt be
mined, be too shallow, and then be deep enough. Six ticks are one more than
the fixed limit of five errors.

The ticks of the time.Ticker are abstracted to a count (`MaxPolls`). The
deadline (`Expire`) may come before any tick. After it, `ctx.Done()` and a
pending tick race in the select, so both are enabled. A call made with an
expired context fails with the context's error, which is not NotFound and
therefore counts as an RPC error. The `answers` history records what each
poll saw, so a property can count the errors in a row directly instead of
trusting the counter.

`ImplementsReceiptWait` is the refinement. It maps the waiter's state to
the abstract `result` with `INSTANCE ReceiptWait WITH` (and the argument to
`depth`), and checks the abstract specification as a temporal property. For
`ReceiptWaiter` this is `WaitFairSpec`, which includes liveness. The run's
`FairSpec` assumes weak fairness only of `Expire` and `CtxDone`. Both are
guaranteed by the runtime: `context.WithTimeout` always fires, and a select
with a ready `ctx.Done()` cannot be starved once no tick is left. Nothing is
assumed of the node. `WaitForConfirmation` has no deadline of its own, so
its run checks only the safety part (`WaitSpec`).

| Run | Expect | Properties | Shows |
|---|---|---|---|
| `rw_refines` | pass | `TypeOK`, `ErrorStreakRespected`, `ImplementsReceiptWait` | The wait is still polling exactly while fewer than `maxErrors` RPC errors came in a row, and gives up exactly at the `maxErrors`-th. It returns a receipt only when one exists. It times out only after the deadline, and it always returns. |
| `cw_refines` | pass | `TypeOK`, `ImplementsReceiptWait` | WaitForConfirmation returns success only at the required depth, and a failure only for a failed transaction. |
| `cw_error_streak` | violation | `ErrorPollsBounded` | The receipt is found and BlockNumber fails on five polls in a row, and WaitForConfirmation is still polling, its counter at 1 (finding 3). The property counts only such polls, so a poll that found the receipt and got the head is never taken for an error. |

### Transaction retry

`TxRetrier` follows one signed transaction through `SendTransactionWithRetry`
and then the wait. What `SendTransaction` answers depends on what the node
holds: a transaction it pools is "already known", a mined one's nonce is
"too low", an unknown one may lack funds. The network may lose the request,
or lose the response after the node admitted the transaction. Errors are
abstracted to one value per message that `IsRetryableError` tells apart.
The wait is the abstract `ReceiptWait`; `cw_refines` shows that
`WaitForConfirmation` implements it, so its four outcomes stand for the
real wait.

`MC_TxRetrier.cfg` uses `MaxRetries = 4`, `InitialBackoff = 2`,
`MaxBackoff = 5` and a multiplier of 3/2 (exact in float64), so the
backoffs go 2, 3, 4, 5, 5: they grow, reach the cap and stay there, within
the five attempts. It gives 3,896 distinct states. `FairSpec` assumes weak
fairness of the send (the goroutine runs and the call returns) and of
`BackoffElapsed` (`time.After` fires). Nothing is assumed of the node or of
the caller's context.

| Run | Expect | Properties | Shows |
|---|---|---|---|
| `tr_retry` | pass | `TypeOK`, `SendTerminates`, `BackoffMonotone` | The send loop always ends, after at most `MaxRetries + 1` attempts. With a multiplier of at least 1, the backoffs never shrink and never pass the cap. |
| `tr_error_after_delivery` | violation | `SendErrorMeansUnsent` | "max retries exceeded" is returned for a transaction the node pools (finding 4). |

### Other senders of the account

`AccountSenders` composes the two other ways the library takes a nonce
with the node model `Ledger`. The spregistry `Contract` holds a counter,
loaded once from `PendingNonceAt` under `nonceMu`, and never gives a nonce
back. The payments and ERC20 bindings read `PendingNonceAt` at every call,
with no lock. The steps between taking the nonce and the send touch no
shared state, so their failure is one action, `PrepareFails`. Both runs
use `MaxNonce = 3` and `MaxSends = 3`, enough for a gap below two later
transactions, and for two calls that read the same nonce.

| Run | Expect | Properties | Shows |
|---|---|---|---|
| `as_nonce_gap` | violation | `ReturnedTxMined` | With two spregistry goroutines and a node that keeps mining (`WF(Mine)`, nothing assumed of callers), a failure after `getNextNonce` leaves a gap, and a later transaction returned as sent is never mined (finding 5). |
| `as_payments_race` | violation | `ReturnedTxNotDisplaced` | Two payments calls read the same `PendingNonceAt`; both return success and the second transaction replaces the first (finding 6). |

### Storage manager

`StorageManager` drives one `storage.Manager` with one caller that calls
Upload again after each return. Every server request (CreateDataSet,
UploadPiece, AddPieces) is answered, lost after the server took it, or
fails before it reaches the server. Every wait is a `retry.Poll` with a
deadline, so it ends when the server reports the work done, or with an
error or a timeout at any poll. A failed status request ends a Poll at
once. The server turns each request it took into a chain message, which
succeeds or fails; an add is accepted only when it is signed for the
data set's `clientDataSetId`. `Init` takes the configurations the code
allows:

- no data set;
- the configured data set, with or without a `DataSetInfoFetcher`;
- the data set with `WithClientDataSetID`.

`lastErr` records which error the Upload returned, one value per wrapped
error of the code. `randomBigInt` draws a value never drawn before.
`MC_StorageManager.cfg` has one piece, three Uploads and four server
requests: room for a failed first Upload, then a full create and add. It
gives 5,640 distinct states.

| Run | Expect | Properties | Shows |
|---|---|---|---|
| `st_upload` | pass | `TypeOK`, `ResultPieceOnChain`, `AddsSignedForDataSet` | An UploadResult is returned only for a piece added on chain to the data set it names. Every AddPieces is signed for the clientDataSetId of the data set it targets, whether that id was created, fetched or configured. |
| `st_second_dataset` | violation | `SingleDataSet` | A lost create answer, then another Upload, leave two data sets on chain (finding 7). |

### Mutants

Each property of a passing run has a mutant in `PROJECT.json`: a
plausible bug in a mapped definition that TLC catches.

- `GetNonceReclaimedKeepsPool` forgets to remove the taken nonce from the pool. This breaks `NoncesExclusive`.
- `GetNonceFromCounterRefetch` refetches `PendingNonceAt` on every call, as `contracts/payments.go` does. This breaks `SentTxNotDisplaced`.
- `SendAcceptedNoHash` loses the transaction hash. This breaks `TypeOK`.
- `PollRPCErrorLate` compares with `>` instead of `>=`. This breaks `TypeOK` (the counter passes `maxErrors`).
- `PollNotFoundNoReset` does not reset the counter on NotFound. This breaks `ErrorStreakRespected`.
- `PollReceiptNoStatus` ignores the receipt status. This breaks `ImplementsReceiptWait`.
- In `ConfirmationWaiter`, `PollRPCErrorNoLimit` never compares the counter (this breaks `TypeOK`), and `PollDepthIgnored` ignores the depth (this breaks `ImplementsReceiptWait`).
- In `TxRetrier`, `GrowBackoffUncapped` drops the cap (`TypeOK`), `GrowBackoffResetAtCap` restarts from the initial backoff at the cap (`BackoffMonotone`), and `FailedNoCount` retries without counting the attempt (`SendTerminates`).
- In `StorageManager`, `EnsureNoFetcherNilDeref` drops the nil check of the fetcher (`TypeOK`), `WaitAddDoneUnchecked` returns on the first status without `addMessageOk` (`ResultPieceOnChain`), and `EnsureLoadedUnchecked` skips `ensureClientDataSetID` (`AddsSignedForDataSet`).

## 4. Findings

1. **Lost send response, `manager.go:209`.** When the send returns an error
   after the node admitted the transaction, the defer calls MarkFailed and
   the live nonce is pooled. The next GetNonce returns it:
   - if the first transaction is still pending, the new one replaces it;
   - if it was mined, the send fails with "nonce too low", MarkFailed pools
     the nonce again, and every later GetNonce returns the same poisoned
     nonce first.
2. **Failed status, `manager.go:217`.** No Mark call runs for a transaction
   mined with a failed status. `pendingTxs` leaks, and `GetPendingCount`
   overcounts.
3. **Error limit of WaitForConfirmation, `part_002:141`.** The design says
   five consecutive RPC errors end a wait with RPC_UNAVAILABLE.
   WaitForConfirmation resets the counter after every successful receipt
   lookup. When BlockNumber then fails on every poll (lines 151-158), the
   counter is 1 after each poll and never reaches 5. TLC's trace is
   exactly this: five polls, each one `headError`, and the wait still
   polling. The function has no
   deadline of its own, so with a caller context that has none, such as
   the one WaitForTransactionWithRetry passes on, it polls forever.
4. **"max retries exceeded" for a delivered transaction, `retry.go:94`.**
   After a lost response, every retry of the same signed transaction is
   answered "already known" (or "nonce too low" once mined, or is lost
   again), all retryable, and the function ends with "max retries
   exceeded" while the node pools or has mined the transaction. The design
   takes a send error as the sign that a nonce is safe to reclaim; nothing
   lets a caller tell this error from one for a transaction that never left.
5. **spregistry nonce gap, `types.go:1018`.** A failure of any call after
   `getNextNonce` returns an error and keeps the counter incremented. The
   nonce is never sent, every later spregistry transaction is pooled behind
   the gap, and the counter (loaded once) never looks at the chain again.
   The design says local-failure nonces are reclaimed and nonces have no
   permanent gaps.
6. **payments/erc20 nonce race, `payments.go:445`.** Two concurrent calls
   read the same `PendingNonceAt`. If the second one's gas price is high
   enough for a replacement, both return a transaction and the first is
   never mined; otherwise the second fails with "replacement transaction
   underpriced". The design says concurrent callers get disjoint nonces.
7. **Second data set, `part_014:197`.** `ensureDataSet` keeps nothing of a
   create request the server took. When the answer is lost, or the creation
   wait fails (any failed status request ends `retry.Poll`) or times out,
   the Upload returns with `dataSetID` still 0. The next Upload creates a
   second data set, and the first, which still lands, is unknown to the
   Manager. A timed-out `WaitForPieceAddition` followed by a retried Upload
   adds a piece twice in the same way.

## 5. Proofs

In `ProofSetManagerProofs`, three theorems are proved for every value of the constants, under
`MaxNonce ∈ Nat`, `MaxSends ∈ Nat`, `Procs ≠ {}`, and `NoNonce`, `NoTx`
outside Nat.

- **`TypeCorrect`**: `Spec => []TypeOK`. The proof has one step per action.
  The lemmas `MarkFailedType`, `MarkConfirmedType`, `AdmitType`,
  `ReturnType` and `HeldNonce` cover the parts that the actions share. The
  pool branch needs `MinReclaimableIsLeast`: when the pool is not empty,
  the `CHOOSE` of the least pooled nonce exists and its count is positive.
  This follows from the well-foundedness of `<` on Nat (WellFoundedInduction).
- **`NoncesExclusiveInv`**: `Spec => []NoncesExclusive`. `NoncesExclusive`
  is not inductive by itself, so the proof uses
  `IInv == TypeOK /\ NoncesExclusive /\ ReclaimedOnce /\ CounterBounds`:
  - `CounterBounds`: while the counter is nil, nobody holds a nonce and the
    pool is empty. Once it is set, every held or pooled nonce is below it.
    Without this, the counter branch could hand out a nonce that someone
    holds.
  - `ReclaimedOnce`: no nonce is pooled twice. Without this, the pool
    branch could hand out a nonce and leave a second copy in the pool.

  TLC checks `IInv` as an invariant of the run first. TLAPS then proves
  `Init => IInv` and `IInv /\ [Next]_vars => IInv'`, with one step per
  action. Allocate is split by GetNonce's branch, and the MarkFailed exits
  share the lemma `MarkFailedReturnInv`.
- **`SentTxNotDisplacedInv`**: `Spec => []SentTxNotDisplaced`. `Known`
  only asks that some pooled transaction carry the waited hash. The proof
  keeps the stronger `SentTxLive`: the exact transaction the goroutine
  sent, with its nonce, is pooled or has a receipt. Only an admission with
  the same nonce can push it out of the pool, because `Admit` replaces by
  nonce. `AdmitKeepsOthers` uses `NoncesExclusive` to show that the nonce
  of any other sender differs. Mining the transaction leaves its receipt.
  So the proof rests on `IInv` and needs no new fact about the nonce
  manager.

In `StorageManagerProofs`, three theorems are proved for every set of
pieces and every bound, under `StorageManagerAssumption` (`Pieces ≠ {}`,
the bounds in Nat, `MaxClientIds ≥ 1`). They share one inductive
invariant, `IInv == SignedInv /\ TypesInv /\ ResultInv`.

- **`AddsSignedInv`**: `Spec => []AddsSignedForDataSet`. Every AddPieces
  request the server takes is signed for the client id of the data set it
  names. The property is not inductive: the add carries the Manager's
  `(dataSetID, clientDataSetID)`, so the proof needs to know where that
  pair comes from. `SignedInv` holds it with four facts:
  - `CreatedOnChain`: a create request that landed produced the data set
    `[ds, client]` it records;
  - `WaitingOwnCreate`: the create an Upload waits on carries the
    Manager's `clientDataSetID`, so `WaitCreateDone` installs a pair that is
    on chain;
  - `LoadedMatches`: a loaded pair with a data set is on chain. This covers
    the id configured with its client id, `FetchClientId`, and a later
    Upload after `WaitCreateDone`;
  - `EnsuredMatches`: from `upload` to `waitAdd`, the pair is on chain, so
    `AddTaken` appends a signed add.
- **`TypeCorrect`**: `Spec => []TypeOK`. `TypesInv` adds what typing needs:
  `dataSets` is finite, so that the new id `Cardinality(dataSets) + 2` is a
  natural number; at most `MaxRequests` requests; a busy Upload has a
  piece; and every request has the fields of its kind. `WaitCreateDone`
  also needs `WaitingOwnCreate`, to read the id of a request that exists.
- **`ResultOnChainInv`**: `Spec => []ResultPieceOnChain`. An Upload that
  returns success has its piece added on chain to the data set it
  reports. `ResultInv` carries this back through the wait:
  - `WaitingOwnAdd`: the add an Upload waits on is its own request, for
    its data set and piece;
  - `AddedOnChain`: an add request that landed is in `added`.

  So when `WaitAddDone` reads a landed request, the piece it reports is on
  chain.

`IInv` was first checked with TLC as an invariant, under the constants of
`st_upload` (5,640 states) and with two pieces and five requests. Neither
check is one of the project's runs. TLAPS then proves `Init => IInv` and
`IInv /\ [Next]_vars => IInv'`, one lemma per part, each with one step per
action. The chain steps use the lemma `SeqUpdate`: updating one request
keeps `reqs` a sequence of requests with the same domain. `AppendRequest`
does the same for a new request. The `ChainCreate` step also uses
`FS_AddElement` and `FS_CardinalityType` from FiniteSetTheorems.

In `ReceiptWaiterProofs`, three theorems are proved for every
`MaxConsecutiveErrors`, `MaxPolls` and `MaxHead` the assumptions allow:

- **`TypeCorrect`**: `Spec => []TypeOK`.
- **`ErrorStreakInv`**: `Spec => []ErrorStreakRespected`. The counter of
  consecutive errors is reset by every answer that is not an RPC error.
  The property compares it with the history `answers`, so the proof needs
  an invariant about the whole history. `CounterIsStreak` says that while
  the wait polls, and once it gave up, the counter is the longest trailing
  run of `"rpcError"` in `answers` (`LongestStreak`). It also says the
  counter is below `maxErrors` while polling and equal to it after giving
  up. The lemmas `StreakEmpty`, `StreakError` (an error extends the run by
  one) and `StreakOther` (any other answer ends it) carry this through
  each poll. `TrailingIsLongest` turns it into the property.
- **`RefinesReceiptWait`**: `Spec => RW!WaitSpec`, the safety part of
  `ImplementsReceiptWait`. Each step of the waiter is a step of
  `ReceiptWait` or leaves its variables unchanged. A receipt mined with
  success maps to `Confirm`; this needs `MinedBelowHead` (the receipt is
  never above the head), because the abstract `Confirm` asks for
  `minedBlock + 0 <= head`.

In `ConfirmationWaiterProofs`, two theorems are proved for every
`MaxConfirmations`, `MaxPolls` and `MaxHead`:

- **`TypeCorrect`**: `Spec => []TypeOK`. The counter never passes five.
  This uses `PollingBelowLimit`: a wait that still polls has counted fewer
  than five errors.
- **`RefinesReceiptWait`**: `Spec => CW!WaitSpec`. `PollDepth` with the
  receipt deep enough maps to `Confirm`; a shallow one, and an error
  reading the head, are stutters of the abstract wait. `PollNoDepth`
  (zero confirmations) maps to `Confirm` by `MinedBelowHead`.

In `TxRetrierProofs`, two theorems are proved for every configuration
`TxRetrierAssumption` allows: any integer `MaxRetries`, natural backoffs
and multiplier numerator, and a positive denominator.

- **`TypeCorrect`**: `Spec => []TypeOK`. The attempt counter never passes
  `MaxRetries + 1`. It stays 0 when `MaxRetries` is negative and the loop
  is skipped. The backoff never passes the larger of `InitialBackoff` and
  `MaxBackoff`. The invariant adds `AttemptInLoop`: the loop sends and
  backs off only while `attempt <= MaxRetries`, so the increment on
  failure stays in range. The lemma `GrowInRange` bounds
  `GrowBackoff`. The first attempt at this proof found that `TypeOK`
  stated `attempt \in 0..(MaxRetries + 1)`. That set is empty for
  `MaxRetries < -1`, which `RetryConfig`'s `int` allows. `TypeOK` now
  states the bound the code keeps.
- **`BackoffMonotoneThm`**: `Spec => BackoffMonotone`, the action property
  of `tr_retry`. It uses `BackoffBounds`: under the property's hypotheses
  (multiplier at least 1, initial backoff within the cap), the last wait
  is at most the backoff, and the backoff is at most `MaxBackoff`.
  `GrowMonotone` shows that `(b * MultNum) \div MultDen >= b` when
  `MultNum >= MultDen`, which is all `BackoffElapsed` needs.

Every invariant above was checked with TLC as an invariant of a run on a
scratch copy before it was proved. For `TxRetrier` this included a
negative `MaxRetries` and a multiplier below 1.

Model-checked only:

- every liveness property, because TLAPS does not handle liveness under
  fairness or `ENABLED`. These are `SendTerminates`, `ReturnedTxMined`, and
  the fairness part of `ImplementsReceiptWait` (`WaitFairSpec`: an expired
  wait returns). The safety part of that refinement is proved.

## 6. Not modelled

The following have no state that changes across calls, or only
conversions, which no property here tells apart:

- the EIP-712 signer;
- the ABI bindings and contract types;
- HTTP request building and JSON decoding in `pdp/server.go`, and its
  read-only calls (`DownloadPiece`, `GetDataSet`, `Ping`);
- network selection and constants;
- the payments and warm-storage service wrappers.

Also left out:

- **`retry.Do`** has no caller in the repository.
- **`CalculateBackoff`, `IsNonceError`, `IsGasError` and `WrapError`** in
  `retry.go` are pure functions that no modelled operation calls.
- **The gas buffer** (`manager.go:205-206`) is not modelled either. The
  percentage is validated to 0..100, so the float multiplier is at most 2,
  and estimates stay far below 2^53. The uint64 conversion therefore
  neither overflows nor loses more than one unit.
- **`NonceManager.Reset`** is an operator of `NonceManager`, but no
  operation of the repository calls it, so it is not part of the
  composition.
- **The second version of `nonce.go`** (without the pool) is the pool-free
  special case of the model.
- **Concurrent use of one `storage.Manager`** is not modelled; the Manager
  has no lock and is not documented as safe for it.
