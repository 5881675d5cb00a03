# H-Vault: a TLA+ verification project

H-Vault is a self-hosted, end-to-end encrypted vault for passwords and documents:
an Express server over MongoDB and an S3-compatible object store, and a React
client that does all the cryptography. The server never sees a key, so it cannot
repair what it mixes up: a row sealed under a key that no wrapper opens, or a
document whose object is gone, is lost. The models here are about the server code
that keeps that from happening while requests, jobs and crashes interleave.

Contents: [1 Inventory](#1-inventory) · [2 Modules and code](#2-modules-and-code) ·
[3 Runs](#3-runs) · [4 Fairness](#4-fairness) · [5 Proofs](#5-proofs) ·
[6 Findings and observations](#6-findings-and-observations) ·
[7 Abstractions](#7-abstractions) · [8 Plan](#8-plan)

To repeat a run: `tlc -config MCBudget.cfg MCDocumentBudget`; a proof:
`tlapm DocumentBudgetProofs.tla`. `PROJECT.json` lists runs, mutants, theorems,
hazards and, for every definition, the source lines it models.

## 1 Inventory

Paths are relative to `src/packages/`.

| Component | State | Operations | What is hard | What makes it correct |
|---|---|---|---|---|
| Job lock (`server/src/utils/jobLock.ts`) | one `job_locks` row per name, with a lease | acquire (upsert), release, TTL delete | a holder outlives its lease and releases its successor's | two unexpired leases never coincide |
| Document transfer (`controllers/documentController.ts`) | staging row, document row, multipart upload, object | open, part, complete, cancel, trash, restore, purge | three stores without a common transaction; a claim, an assembly and an insert that crash in between | a served document has its bytes; a cancelled transfer does not come back |
| Document budgets (same file) | counts over two collections | initUpload, completion | count then insert, while completions move rows between the two collections | the quota; an account can always rotate its key in one payload |
| Document collector (`jobs/documentCleanup.ts`) | a run's cursor | abort abandoned uploads, finish purges, sweep orphaned objects | acts on a listing that is stale when used | bytes nobody names are reclaimed, bytes somebody names are not |
| Account erasure (`utils/cascadeDelete.ts`) | deletion mark, all rows | mark, delete collections, delete objects | races completions that are about to insert | nothing of an erased account stays |
| Vault key rotation (`controllers/vaultController.ts` bulkReEncrypt) | fence, generation, wrapper, pending wrapper, every row | two paths: transaction, or sequential with a rollback | a page's view of the vault is minutes old; a crash leaves rows under two keys | every row opens, no edit is undone |
| Vault writes (`vaultController`, `folderController`, `utils/controllerHelpers.ts`) | items, folders, `__v` | create, update, move, trash, restore, delete, bulk | check of fence and generation before a write | same |
| Import and restore (`toolsController`, `backupController`) | rows | whole spans under the rotation lock | many writes per check | same |
| Password change (`userController`) | auth hash, wrapper, pending wrapper | one filtered update under the lock | overtaken by, or overtaking, a rotation | the stored wrapper opens with the password that signs in |
| Login (`authController`) | fence, tokens | lowers the fence of a crashed rotation | check and write are two steps | never under a live rotation |
| Vault quota (`utils/vaultQuota.ts`) | byte and row counters | reserve, settle, release, recount | counters beside the rows they count | counters never leak or go below the rows |
| Refresh tokens (`authController`, `models/RefreshToken.ts`) | token families | rotate, detect replay, revoke | a lost reply looks like a replay | one live token per family; no session lost to a retry |
| Lockout and second factor (`utils/lockout.ts`, `secondFactor.ts`, `deviceProofs.ts`, ...) | failure counters, used TOTP steps, backup codes | register failure, consume | parallel guesses against one counter | bounded attempts, single use |
| Backups (`jobs/backupScheduler.ts`, `utils/backupRecipients.ts`) | schedule, log, recipients | claim, send, confirm | two schedulers, a crash after the send | one backup per slot |
| Trash cleanup, folder graph (`jobs/trashCleanup.ts`, `utils/folderGraph.ts`) | trash dates, parent links | expire, move | an expiry against a restore; two moves that make a cycle | a restored row stays; the graph is a forest |
| Admission and rate limits (`middleware/*`, `utils/partSemaphore.ts`) | permits, waiters, windows | acquire, release on either of two events | double or lost release | permits are conserved |
| Audit, mail, invitations, migrations, breach lookups | queues, single claims | buffer, claim, return | small | each claimed once |
| Client session (`client/src/services/api/client.ts`, `stores/authStore.ts`) | access token, held vault key | single-flight refresh, lock, unlock | tabs and requests race one refresh | one refresh in flight, nothing decrypted after lock |
| Client stores (`stores/vaultStore.ts`, `documentsStore.ts`, `services/documents/uploadRecovery.ts`) | optimistic copies, resumable uploads | load, save, resume | an answer that arrives after a lock or an account switch | no answer lands in another session's store |
| Client backup jobs (`services/backup/*`) | a resumable job | restore documents, retry | a retry of what was done | each document restored once |
| Storage provider, client cryptography, user interface | external or presentational | | | not modelled |

How they interact: everything that must not overlap for an account takes a job
lock (`document-complete:<user>:<upload>`, `document-init:<user>`,
`vault-rotation:<user>`, one per background job). Rotation also raises a fence on
the user row, which the writers that do not take the lock read before and after
their write. Completions take their own lock and then the rotation lock. The
collector takes no request's lock: it relies on ages. Erasure takes none: it marks
the account, and every request that creates something looks at the mark again.
The quota counters are kept by conditional updates of the user row and no lock; the
recount waits for an account to be quiet instead. Folder requests take no lock at all:
each checks the tree, writes, and (moves and restores) checks again. Sign-in state is
guarded by filters on the writes. In the browser one Web Lock orders the refreshes of all
tabs, because they share the cookie.

The hazards that follow from this are listed, line by line, under `hazards` in
`PROJECT.json`, each with the properties that would catch it.

## 2 Modules and code

Every handler is cut at its awaits, one action per database or storage call, in
the order of the code; whatever a handler does between two awaits is one action.

**JobLock** - `jobLock.ts`. State: the `job_locks` row (`lock`), a clock, what each
caller does (`run`). Actions: the two halves of `acquireJobLock` (the clock is read
before the upsert is sent), `releaseJobLock` (filtered on the lease id), the TTL
monitor, crashes and time. The other modules use the lock by what this one shows:
exclusion as long as a holder is done before its lease ends.

**DocumentTransfer** - one document over its whole life. State: the staging row with
its parts ledger (`row`), its age, the engine's multipart upload (`mpu`), the object,
the document row (`doc`), the completion lock, the account, and one record per
request. Actions: `Part*` and `Reclaim*` (uploadPart and
reclaimUnownedObject), `Comp*` and `Release*` (completeUpload and
completeUnderLock), `Abort*` (abortUpload), `deleteDocument`, `restoreDocument`,
`Purge*` (purgeDocument, emptyDocumentTrash), `Job*` (the three phases of the
collector), `Erase*` (cascadeDelete), the passing of time, the TTL monitor and a
crash of every request. Whether the transfer has one segment (PutObject) or several
(multipart) is chosen in Init.

**DocumentBudget** - many transfers of one account, reduced to what the three
budgets see: the staging row's state, its size, the completion's progress. Actions:
`Open*` (initUpload, openTransferUnderLock), `Complete*`, and the ways a row leaves.

**VaultRotation** - an account, its rows and its wrapper. A row is the key it is
sealed under, its `__v` and the identities of its ciphertext and plaintext; a wrapper
is the key it holds and the password that opens it. Actions: `Wr*` (createItem,
updateItem, createFolder, updateFolder), `RowDelete`, `Hold*` (importVault,
restoreBackup, completeUpload, under the lock), `Pw*` (changePassword), `Rot*`
(bulkReEncrypt with the page that calls it, on both paths), `Login*`, crashes of
everyone who holds the lock, and the end of a dead holder's lease. A withdrawal of an
unconfirmed create may fail (`WrWithdrawFails`), and login's check and its write are two
steps between which a rotation may start. `lost` is history: the keys and rows that the
account gave up or lost in one of five known ways (section 6). Its properties come
with the invariant that explains them, `RotationInv` (section 5).

**VaultQuota** - `vaultQuota.ts` and the requests that call it. State: the rows with
their sizes, `__v` and incarnation, the three counters, which of them are not installed,
whether the account is quiet, one record per request (`resv` is what it reserved,
`landed` what it knows to have written) and one for the recount; `excused` and `ever` are
history: why the counters may be below the rows since the last recount, and whether they
ever could be. Actions: `Reserve*`, `Count*` and `Install` (the lazy first count),
`Insert`, `LandedInserts`, `ImportCommit`, `Measure`,
`WritePinned`, `PinMissed` (updates), `Walk*` (deletes), `Reseal*` (rotation), `Settle*`,
`ReleaseAndRetry`, unknown outcomes and crashes, `Recount*` (the hourly step of the
maintenance job).

**VaultLedger** - what VaultQuota promises, as a specification of its own: rows grow
only out of the writer's own promise, promises are made within the limit, and the
counters cover rows and promises. VaultQuota implements it: `stored` is the total over the
rows, `counter` the counters (one that is not installed counts as right), `claims` what
each request reserved and has not written.

**Tally** - totals over finite sets, for both: the sum of the values of a function as the
cardinality of a set of cells, a value of n being n cells. No recursion, so that the
proofs need no induction.

**Sessions** - one user's refresh tokens and one browser. State: `refresh_tokens` by
token, the deletion mark, requests in progress; the browser's cookie, whether it has Web
Locks at all (`weblocks`), the Web Lock and what each tab is doing. Actions: refresh on both topologies (transaction attempts with
their retry; claim, family check, create, sweep one by one without transactions), the
replay branch with its audit row and revocation, `login` with the session cap, logout,
logout everywhere, the cleanup job's two deletes; `Queue`, `Granted`,
`Unserialized` (a browser without Web Locks), `LockFails` (the wait timed out, or the lock
manager refused: the refresh goes on without the lock), `Post`, `Deliver`, `Lose` on the
client, and a foreign copy of the cookie (`Present`).

**SignIn** - one account's brakes and single-use things. State: each factor's failure
count, deadline, episode and last mail (`lock`); TOTP secret, last used step and backup
codes (`acct`); device proofs, challenges, trusted devices, links in the inbox. Actions:
`Login` to `Challenge` (password step), `Charge` and `DropProof` (a failed proof: its
count, then its end), `Count`, `LockFactor`, `Extend`, `ReadBack`,
`Notify` (lockout.ts), `SignedIn` to `Site` (the second factor at its five sites:
sign-in, disable, regenerate, delete account, enrol), `Setup2fa`/`StorePending` and
`Verify2fa`/`DropPending` (each a check and a later write), `Clear*` and `Session` (completion),
`UnlockAccount`, `Discharge`, `GiveProof`, `LogoutAll`, `ResetPassword`, `Revoke`,
`ResetSave`, crashes and time.

**FolderGraph** - the tree and what is filed in it. State: `parentId` of every folder,
`folderId` of every member, the trash. Actions: `CreateFolder`/`Insert`,
`UpdateFolder`/`Move`/`Recheck`/`Detach`, `DeleteFolder` and `PurgeFolder` with
`RemoveTxn` or the standalone sequence, `Claim`, `Sweep`, `FileMember`/`PutMember`,
`TrashMember` and `RestoreMember` (one write each, which keeps the `folderId`),
and the folder half of a restore (`RestoreRow`, `Tidy`, `FindCycle`, `BreakCycle`). The
upward `$graphLookup` is modelled by its result: `Ancestors` is the least set that holds
the parent and is closed under `parentId`.

`*Proofs` hold the theorems; `MC*` hold symmetry sets and, where a run draws its
requests, mixes or first states from a set, that set.

## 3 Runs

| Run | Instance | States | Question |
|---|---|---|---|
| `job_lock` | 3 callers, lease 2, clock 5, 4 lease ids | 18 thousand | do two unexpired leases ever coincide |
| `transfer` | 2 part requests, 2 completions, 1 cancel, 1 purge, 1 or 2 segments | 1.6 million | does a served document keep its bytes; is a cancel final; does an erasure leave a document; can an assembled object still be committed |
| `transfer_live` | 1 part request, 1 completion, 1 purge, no cancel | 126 thousand | is everything that was left behind reclaimed |
| `transfer_cancel` | as `transfer`, in small | violated | finding 1 |
| `budget` | 4 transfers, 2 opens, sizes 1 and 2, MaxDocs 1, MaxConc 2, quota 5 | 0.6 million | the quota, and the size of a rotation payload |
| `rotation_writers` | 1 item, 1 stored document, 1 writer, fresh and finishing rotations and re-seals, 2 keys, `__v` up to 3 | 1.6 million | does every row open; is an edit ever undone; is `RotationInv` kept |
| `rotation_locked` | 1 row that imports and restores write, 1 holder of the lock, 1 password change, all four kinds of rotation, 3 keys, 2 passwords | 1.8 million | does every row open; does the wrapper open; is `RotationInv` kept beside imports and password changes |
| `rotation_login` | 2 items, 1 of them stored, 1 writer, fresh and finishing rotations, 3 keys | violated | finding 2 |
| `quota` | 2 requests at a time, 3 in all, 1 fault, 2 items, 2 folders, quota 3, item cap 2, folder cap 1, 2 attempts | 0.5 million | do the counters cover rows and promises (the inductive invariant of the proof); do quota and caps hold; is VaultLedger implemented; do the counters become exact |
| `sessions` | 2 tabs, with and without Web Locks, 1 foreign copy, 3 tokens, 2 logins, two troubles (faults, ends of sessions, no Web Locks), life 1, reuse window 2, cap 1 | 2.3 million | is a family one chain; is a replay recorded and final; can tabs alone cause one |
| `signin` | 2 requests, twelve mixes of 2 to 5 starts, 3 ticks, 1 fault, 2 attempts, 2 failures of a proof | 2.1 million | are codes, challenges and proofs single-use; has a locked factor a link; is a running brake ever lifted |
| `folders` | 3 folders, 1 member, 3 requests, 3 operations, 1 fault, depth 3 | 0.5 million | does a cycle stay; is a removed folder empty |

Why the bounds are enough for the cases of interest:

- `job_lock`: a lease of two ticks in a clock of five expires, is taken over and is
  released late by its first owner; a fourth id lets a third caller meet both.
- `transfer`: two requests of a kind are what a handler can race with itself; two
  segments separate "some parts" from "all parts"; the third age ("abandoned") is
  the collector's. Requests are reusable: a finished one starts again, so retries
  are included without a bound.
- `transfer_live` leaves the cancel out (its leftovers are a subset of those of a
  crash) to keep the liveness graph small.
- `budget`: with MaxDocs 1 and MaxConc 2 the payload limit is 3 and a fourth transfer
  can break it. Both sizes make the quota of 5 bind with three documents.
- `rotation_*`: with 3 keys a rotation crashes, another finishes or abandons it and a
  third starts afresh (`rotation_locked`, `rotation_login`); with 2 it crashes and is
  finished (`rotation_writers`, where the writer is what is new). One rotator runs any
  number of times; two rotators at once meet only at the lock, which excludes them (proved
  for any number in `VaultRotationProofs`; TLC with two does not finish in minutes). `Room`
  stops new requests once a row has the highest `__v`, never one in progress. Between them
  the two passing runs have all four kinds of rotation; more rows or kinds in either take
  longer than five minutes, and the theorems hold for every set of rows and of kinds. An
  abandoning rotation beside a writer, and a document beside an import or a password
  change, are met by the proofs only.
- `quota`: the requests meet at the last byte and at the last folder, one item id is
  removed and created again, an update has two attempts so that a miss is retried, and an
  import meets rows created meanwhile. Three requests are enough for one to change what a
  second measured while a third waits; one fault is any crash, lost reply or failed
  recount.
- `sessions`: three tokens are a token, its successor and the successor of that, or two
  families; a life of one tick and a window of two separate expiry from the window; the
  cap of one makes every second login evict. Two troubles are enough for two racing
  replays, or for a replay that another request's revocation meets. A browser without Web
  Locks counts as one of them, so it meets one more.
- `signin`: the account starts one failure below the cap with a challenge open, so two
  wrong guesses lock it and two right ones race. The mixes are the groups of operations
  that share state; all eleven at once do not finish. A link lives one tick longer than a
  lockout, as `lockout.ts` demands.
- `folders`: two moves close a cycle and a third request (move, removal, restore) meets
  it; three folders give it an intermediate edge, and a depth of three makes the depth
  check refuse some moves. A removal, the trash and the way back are three operations.

Deadlock is not checked: a caller whose ids, keys or versions are used up stops, and
so does a document that is gone with its account.

Each property has a mutant in `PROJECT.json`: a plausible error in the modelled code
(a release by name, a late part that reclaims without the lock, a create that only
re-checks the generation, a rotation that ignores a pending wrapper, ...) under which
TLC finds the property violated.

## 4 Fairness

Two runs use fairness. `transfer_live` (`FairSpec`) assumes: a part, completion or
cancel request that began goes on unless it crashes (the runtime schedules it; a crash is
an action of its own and never forced), the hourly collector keeps running and its storage
calls succeed infinitely often (strong fairness: it is rescheduled every hour and retries
what failed), clocks advance (`Age`, `ObjectAges`), the TTL monitor sweeps, and a dead
holder's lease ends. Purges and the erasure get no fairness, so the collector alone must
finish what they leave. Nothing is assumed about users: no request is obliged to start.

`quota` (`Fairness` in VaultQuota) assumes weak fairness of each request's own steps (a
crash or a lost reply is not among them and is never forced), of the recount
(the maintenance job runs every hour and takes every account that is quiet) and of
`Quiesce` (ten minutes pass in which nobody holds a reservation). The bound on requests
makes the account fall silent, which is the case `Converges` is about: an account that is
written to without a pause is, in the code too, never recounted.

## 5 Proofs

All proofs hold for every value of the constants that satisfies the named `ASSUME`s:
a positive TTL (`JobLockAssumption`), part number 1 among the segments
(`TransferAssumption`), positive limits and a finite set of transfers
(`BudgetAssumption`), a finite, nonempty set of rows (`RotationAssumption`), finite sets of
requests and rows, rows of at least one byte, creates and updates of one row and imports
of items (`QuotaAssumption`), positive
lives and windows (`SessionsAssumption`), a link that outlives the lockout it is mailed
for (`SignInAssumption`, as `lockout.ts` demands), first trees without a cycle and with
parents that exist (`TreesAssumption`), and requests that are distinct from each other and
from the marks of a free and of a dead lock. The bounds are constants too, so they are
arbitrary in the theorems. `IInv`, `TransferInv`, `BudgetInv`, `RotationInv`,
`SessionsInv`, `SignInInv`, `FolderInv` and `CountersCover` are also invariants of runs,
where TLC checked them before they were proved.

- **`IInvHolds`**, `LeaseExclusionHolds` (JobLockProofs), from `IInv`: every acquisition has
  an id of its own (`IdsAreFresh`), and the row names each holder whose lease still runs,
  with that holder's own deadline (`RowNamesLiveHolder`). The second part makes exclusion
  inductive and says nothing of a holder that outlived its lease: its row may have been
  taken over, and its release must miss.
- **`TransferInvHolds`**, `ServedDocumentHasItsObjectHolds`,
  `SingleCancelIsFinalHolds` (DocumentTransferProofs), from `TransferInv`:
  the lock names whoever is inside (`LockNamesHolder`); a document, and everybody's
  decision to delete its object for good, come only after the transfer is spent, with no
  staging row and no completion that could still insert (`EndsAreFinal`); what the collector
  read stays true because it acts past the grace hour, when nothing is being completed
  (`CollectorIsLate`); a cancelled transfer of one segment can no longer be committed, and
  one of several never deletes an object (`CancelWins`, `CancelKeepsObject`); a completion
  past its assembly has its object (`CompletionHasObject`). None of them is inductive without the others: the object of
  a served document is threatened by five deleters, and each is kept off by a different
  conjunct.
- **`BudgetInvHolds`**, `QuotaHolds`, `RotationPayloadSuffices`
  (DocumentBudgetProofs), from `BudgetInv`: a completion's reading of the committed
  bytes can only be too high while it holds the lock (`ReadingIsSafe`), and between its
  first count and its insert an opener has proved room for one more
  (`OpenerHasRoom`). The second is the argument the code's comments make about
  counting live transfers before documents, with the gap noted in section 6 accounted for:
  the sum over live, claimed and committed transfers, which no completion changes.
- **`ErasedAccountOwnsNothingHolds`**, **`AssembledTransferIsCompletableHolds`**
  (DocumentTransferProofs), on top of `TransferInv`. The first is not inductive because the
  erasure sweeps the documents before the other rows: `SweptStaysSwept` says the same from
  the first sweep on. The second needs `LedgerIsWhole`: whoever comes to assemble knows
  every segment, and no completion knows a segment the row has not.
- **`ExclusionInvHolds`** (VaultRotationProofs): mutual exclusion of rotations, imports,
  restores, completions and password changes, and the fence that covers a rotation. The
  strengthening is the second part of `FenceCoversRotation`: a failed rotation that may
  still put rows back has its fence unless the account already holds its wrapper, which
  is the test `rollbackWouldDestroyACommittedRotation` makes. The fence part holds until a
  login lowers the fence of a rotation that began after its check (`lost.fence`, finding 2).
- **`WrapperOpensHolds`** (VaultRotationProofs), with `SealedUnderProved`: what a
  rotation stores is sealed under the password it proved, and the key write is filtered
  on that password still being current. It needs no assumption on logins.
- **`EditsSurviveHolds`** (VaultRotationProofs), from `EditInv`, again without an
  assumption on logins. Three things make it inductive: every copy of a ciphertext that
  anybody still has is no younger than its row (`Dated`); two copies with the same IV are
  the same (`CopiesAgree`); and what a rollback would put back is what its page had read,
  as long as the row carries that rotation's ciphertext (`PutsBackWhatWasRead`). So a
  rollback whose filter on the IV matches restores the text that is there.
- **`RotationInvHolds`**, **`EveryRowOpensHolds`** (VaultRotationProofs), from `KeyInv`:
  whoever still has the generation has its key, and whoever may still write has the
  generation (`WriterIsCurrent`, `HolderIsCurrent`, `ChangerIsCurrent`,
  `RotatorIsCurrent`); what a rotation checked under the lock stays so until it commits,
  and its pending wrapper is stored before its first row (`GuardStands`); no key is
  forgotten while a row, or a copy that a rollback may store, is sealed under it
  (`KeysKept`); and when a rotation comes to store its key, each row it has not rewritten
  was created behind its back by a request that has yet to confirm it (`CoversRows`). The
  last rests on a count, since that is what the code compares: a payload of as many live
  rows as there are is all of them (lemma `CoversExactly`). `RotationInv` has
  `KeyInv` as long as no login lowered the fence of a running rotation (`~lost.fence`), and
  `PendingOpens` always: a pending wrapper opens with the password that signs in, or is in
  `lost.outdated`. `EveryRowOpens` has no hypothesis. The ways in which the code does lose a
  row are not assumed away: they are disjuncts of the property, recorded in `lost` at the
  step that loses it (lemma `LossMoves` says what each step adds), so that the theorem says
  that there is no other.
- **`SessionsInvHolds`** (SessionsProofs), and from it `FamilyNeverForks`,
  `IssuedCookieIsBackedHolds`, `ReuseRecordedHolds`, `NoLiveAfterReuseHolds`,
  `TabsNeverReplayHolds`, `SpentRowKeptHolds`. A family stays one chain because a create
  finds no live row in its family and is alone in it (`CreateIsAlone`). A replay is
  recorded because its branch goes in an order (`ReplayOrder`): one that no longer finds
  its row was recorded by somebody or knows who took the row. Tabs alone cause no replay
  because every token value is in one place (`OneHolderPerToken`: the jar, a request, or a
  reply that is on its way) while they are `Undisturbed`: the browser has Web Locks, and no
  lock request failed, no reply was lost and no copy was presented.
- **`SignInInvHolds`** (SignInProofs), and from it `CodeSpentOnceHolds`,
  `OneCodePerChallengeHolds`, `ProofCarriesOnceHolds`, `LockedHasLinkHolds`,
  `BrakeAlwaysHolds`. What served once is gone from the store it was found in and cannot
  come back (`SpentStaysSpent`, `ChallengeIsAlone`, `CarriedIsGone`); a locked factor's
  episode has a link that reaches its deadline or a request that is about to mail one
  (`EpisodeIsMailed`), also while the deadline is extended under the request that mails.
  `BrakeHolds` is an action property: no step of Next wipes failures while a lockout runs,
  except by a way out the account offers; it uses that a remembered deadline is over
  (`ReadsAreOld`).
- **`FolderInvHolds`**, `NoCycleStaysHolds`, `RemovedFolderIsEmptyHolds`
  (FolderGraphProofs), for trees of any size. A cycle none of whose edges was
  written was there before, with the same rows (`SameCycle`), so a new cycle runs through
  the folder that was moved, and whoever moved it looks again. A removed folder is empty
  because its removal still has its sweep to come while its row is gone, and everything
  that can put an active member there meanwhile, from the trash too, comes before it. The lemmas need no induction
  over paths because `Ancestors` is a least set: to show that a set holds the ancestors it
  is enough that it is closed.

- **`CountersCoverHolds`**, `RowCapsHoldHolds`, `ImplementsLedgerHolds` (VaultQuotaProofs),
  from `CountersCover`, for any number of requests and rows, any sizes and limits. The
  argument goes through the abstract specification. Each step of a request is shown to be
  one of the ledger's (`OpLedger`): a reservation is a promise, a row written is paid out
  of the writer's own promise, a settle hands the rest back, a crash forgets it. And each
  step of the ledger keeps a counter above the rows and the promises, and those within the
  limit (`PromiseKeeps`, `WriteKeeps`, ..., `RecountCovers`). For the first half the
  invariant has what a step of the ledger asks of a request: until its last row is written
  a request holds exactly what it has still to write (`Balanced`); a pin that holds is on
  the row that was measured, at the size that was measured, because versions and creations
  only grow (`Pinned`: with the version alone this is false, and the mutant shows it); the
  install and the recount write what is stored while nobody holds a reservation
  (`InstallIsExact`, `RecountIsExact`). What one changed row, or a batch of inserted ones,
  does to the totals follows from the cardinality of unions and products of finite sets
  (`TallyChange`, `RowChange`, `RowsAdded`). The refinement has one exception, which its
  statement names: an import that measures rows another request has changed (section 6).

Only model-checked: liveness, which is out of the prover's reach (`OrphanIsReclaimed`,
`UnclaimedUploadIsAborted`, `PurgeIsFinished`, `Converges`). Every invariant and every
action property of a passing run is proved.

## 6 Findings and observations

Two places where the code does something else than its comments say, each with a run
in which TLC finds the behaviour:

1. `transfer_cancel`: a cancel of a multipart transfer that arrives after the engine
   assembled the object is answered "Upload cancelled", and the document appears all
   the same (`documentController.ts:1815`; comment at `:887`). With one segment a
   cancel is final: run `transfer`, theorem `SingleCancelIsFinalHolds`.
2. `rotation_login`: login's check that no rotation runs and its lowering of the fence
   are two steps (`authController.ts:891`; comment at `:876`). A create that is confirmed
   in between is left under the replaced key (`LoginStrandsNoRow`).

Noted while modelling, without a run:

- A completion removes its staging row before it inserts the document, and an open in
  between counts neither (`documentController.ts:1815`; comment at `:714`). The account
  can reach one document more than the maximum the constant is derived from; the spare
  row of `MAX_DOCUMENTS_PER_ROTATION` absorbs exactly that (theorem
  `RotationPayloadSuffices`).
- The same gap exists for bytes: an open may be admitted although
  committed and in-flight bytes together exceed the quota (`documentController.ts:757`).
  The completion measures again under the lock, so the quota itself holds
  (`QuotaHolds`).
- A staging row that lapses after a completion checked it leaves the live count while
  the completion goes on (`:715-723`). Such transfers are recorded in the history
  variable `late`, and the two counting properties leave them out.
- Five ways in which a rotation loses rows. `EveryRowOpens` names each of them and shows
  that there is no sixth; `lost` records the step at which it happens.
  - `lost.outdated`: the pending wrapper is written with a filter on `_id` alone, so it may
    be sealed under a password that was changed after the request was authenticated
    (`vaultController.ts:1499`). The key write that follows is filtered and misses; if the
    process dies before the rows are put back, nothing opens those it had rewritten,
    although the comment at `:224-228` calls a crash recoverable. Without this
    disjunct TLC refutes `EveryRowOpens` in `rotation_locked`.
  - `lost.carried`: a password change stores the re-wrapped pending key its page carried,
    whichever one the account has by then (`userController.ts:726`; the comment at
    `:684-690` says that the lock makes the answer still true). An abandoned rotation's
    wrapper can replace that of the rotation which abandoned it. Without this disjunct
    TLC refutes the property in the same run.
  - `lost.rows`: the withdrawal of a create that was not confirmed fails, and the row stays
    under a superseded key (`controllerHelpers.ts:984-987` says so).
  - `lost.fence`: finding 2.
  - `lost.asked`: a rotation that abandons another drops its pending wrapper when the fence
    goes up, before its own commit (`vaultController.ts:1506`; the comment at `:233` says
    only a commit drops it). The request asked for that by name.
- Sessions: two tabs of a browser without Web Locks, or of one whose lock request failed,
  may post the same cookie and end their own session (`client.ts:260`, `:268`; the comment at
  `:245-248` says that such refreshes are ordered per tab only). So may one tab whose reply
  was lost. `TabsNeverReplay` is about the others. A row presented at the instant it
  expires, unused, is answered as a replay (`authController.ts:1597`; `atExpiry` in the
  history). Without transactions, a successor
  that is created after another request swept the family survives the sweep
  (`:1559-1576`), so `NoLiveAfterReuse` is about transactions. Logout does not take the
  refresh lock. A replay revokes the family's live rows, then deletes the replayed row, and
  records the detection if that delete found it; a request that took the row from under it
  is `interfered`. If the audit write fails after the delete, nothing is recorded (the
  comment at `:1605` and after says so).
- VaultQuota: an import without transactions that fails part-way measures the rows it
  landed; a row another request removed in between is subtracted by both, and the counter
  is too low until the next recount (`toolsController.ts:1065`; `Mismeasured`, and `excused`
  has "import"). A rotation reserves nothing for the bytes it adds ("reseal"). A recount ends both excuses
  for the counters; for the limits they stay (`ever`), as a row too many is not taken back.
- SignIn: `resetPassword` saves the account it read earlier; a lockout that started
  meanwhile loses its episode and stands locked with no link that opens it, where
  `lockout.ts` says an account is never observable as locked with no episode. The
  episodes concerned are in `silenced`. A sign-in that read the account before a reset can
  finish after the reset's revocations. `setup2fa` checks that no factor is enabled and writes
  its pending secret later (`userController.ts:933`, `:953`), so an enrolment confirmed in
  between leaves a factor with another one pending; it can no longer be confirmed, as
  `verify2fa` asks again. A proof whose failures reached the maximum is stored until the
  second of two writes deletes it (`deviceProofs.ts:273`, `:284`), and for good if the
  process dies in between, until its next failure. A handler that dies after it spent a
  code has burned it.
- FolderGraph: a removal moves the contents to a parent it read earlier
  (`folderController.ts:529`, `:547`): it can close a cycle nobody looks for again, or
  move the contents into a folder that is gone by then (`unchecked`, `strayed`). The depth
  limit is not checked again after a race. Members that are trashed with their folder keep
  its id, and `restoreItem` (`vaultController.ts:608`) and `restoreDocument`
  (`documentController.ts:2451`) bring them back with it: an active row under a folder that
  is gone, without any race. The comment at `folderController.ts:421-423` mentions the
  trashed rows and not their return; `:436-437` calls a stale `folderId` cosmetic. They are
  in `strayed` from the restore on.

## 7 Abstractions

- A lease does not end under a living holder, except in JobLock itself. The source
  documents the window (`controllerHelpers.ts:304`).
- A completion that passed its row check ends within the collector's grace hour (`Age`):
  its lease is minutes long, and past it the first abstraction applies.
- Accepted parts have exactly the declared sizes (`expectedPartSize` refuses others),
  so a ledger is a set of part numbers and a document's bytes are the declared ones.
- A crash ends a request where it is. A create in VaultRotation does not crash
  between its insert and its confirmation; to the rows that is the same as a withdrawal
  that fails, which is modelled.
- A password reset gives up the vault key with every row under it, on purpose
  (`authController.ts:2048-2078`); VaultRotation is about an account between two resets.
- The client sends read pins for items and folders (the current client always does);
  documents have none.
- The three snapshot queries of the sequential rotation path are one step; they precede
  the fence, and what changes after them is caught by the pinned writes.
- Login's reading of the fence is the one it acts on: check and reading are one step.
- A completion that dies after its insert and before its second look at the account is
  marked ("dead"), because `ErasedAccountOwnsNothing` cannot hold of it.
- The reply of `Document.create` is not lost.
- The idempotency key of a rotation, document metadata updates, downloads and listings
  are not modelled.

Sessions: `deleteMany` is atomic (MongoDB re-checks each row it visits, see the module
head). Of the session cap, count and find are one read. The absolute deadline of a
remember-me session is not modelled. The clock moves only between requests: a request is
short beside a token's life. Deleting the replayed row and recording the detection are one
step (section 6 says what a failure in between does). A handler dies only after it changed something.

VaultQuota: a conditional reservation's miss and the read that decides what it means are
one step; the number of reservation attempts is not counted. `quotaEpoch` and
`vaultBytesWrittenAt` are compared for equality only, so the recount keeps whether they
moved. `Quiesce` happens while nobody holds a reservation: the interval is twice the
longest request. Trash and restore do not change a counter. The updates of an import
are `update` requests; a rotation is the standalone one.

SignIn: an account, its proof and its challenge are read in one step, as no write lies
between the reads. The failure window of a factor and of a proof (a count that starts over), the caps on the numbers of
proofs and devices and the delay between attempts are not modelled; a refusal that writes
nothing is no action. Burning and issuing a trusted device is one step, so is issuing
session, proof and grant, and so are the three revocations of a reset: different
collections that no other request relates. A tick is just over the interval at which a
lockout is extended, and one TOTP step.

FolderGraph: existence, ancestor and height checks of a request are one read. A sweep that
fails is a crash before it. An item of a backup that is found in the trash is a
`RestoreMember`, after a filing if the backup names a folder. The remap
of restored ids is part of the row write; the search for a cycle and the tidying of a
restore are each one step. The withdrawal of an unconfirmed create belongs to
VaultRotation. Reordering changes no edge.

### Not modelled

- Scheduled backups and recipients, invitations, unverified accounts, the mail budget:
  claims of one row by a filtered update, still to come (section 8).
- Rate limits, admission and the part semaphore: permits and windows in one process,
  still to come.
- The client's vault and documents stores, resumable uploads and restores, the held key
  and the sandbox handshake: still to come; only the refresh of the session is modelled.
- Audit buffer, migrations, start-up, breach lookups, update check: little state, each
  run once or best effort.
- Storage provider and cryptography: external or pure, modelled by what the handlers rely
  on (a wrapper opens with its password, an object exists or not).
- The user interface, the API description, word lists, translations and the validation
  schemas, which are by far most of the repository's lines: they hold no state that
  several steps or actors share, so there is nothing in them for a model checker.

## 8 Plan

Done: JobLock, DocumentTransfer, DocumentBudget, VaultRotation, VaultQuota with
VaultLedger, Sessions, SignIn and FolderGraph, with every safety property of theirs and the
refinement proved. To come, in this order:

1. Backup scheduler, recipients and the accounting of a restore.
2. Trash cleanup against restores, and the rest of the account erasure.
3. Part semaphore and the admission middleware: conservation of permits.
4. Client: vault store, documents store and upload recovery, held key and offline cache,
   resumable restore.

Properties planned for them are in the table of section 1.
