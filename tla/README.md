# Formal models of rukka-folio

rukka-folio keeps the books of small businesses and families on their members'
phones. Every entry is an encrypted, signed, append-only envelope; a server stores
the envelopes without being able to read them and relays signed records (devices,
memberships, guardian sets, revocations). A phone works offline, synchronises when it
can, and computes every balance itself from the envelopes it holds. The repository also
generates reference books of account, printed pages that a second program re-derives.

This directory holds TLA+ models of four parts, the TLC configurations that check
them, and theorems about them whose proofs TLAPS checks.

    tlc -workers 2 -config SyncSafety.cfg MCSyncEngine.tla     # a run
    tlapm SyncRefinementProofs.tla                             # proofs

Paths are relative to the repository root, which is `src/` in `PROJECT.json`.

## 1. Inventory

### The parts and the state they keep

| Component | Where | State | Operations |
|---|---|---|---|
| Envelope store, push and pull routes | `server/supabase/functions/sync-push`, `sync-pull`, `_shared/store_pg.ts`, migrations 0003, 0005 | `envelopes` with `seq` from `store_seq`, `store_epoch`, `push_rate`, `book_usage` | push transaction, pull query, restore from a backup |
| Sync engine | `packages/sync_engine/lib/src/engine.dart`, `backoff.dart` | gates of a book, key_wait, seen records | `sync()`: meta, push, pull, read-your-writes, prune |
| Mirror and outbox | `packages/data/lib/src/mirror.dart` | `envelopes_local`, `outbox`, `sync_cursors`, `device_meta`, `key_cache` | append, enqueue, transition, observeStoreEpoch, pruneObserved |
| Sync scheduling client | `app/lib/shared/sync/engine_sync_client.dart` | one round in flight, one follow-up | triggers and timers |
| Meta feed, trust, own fate | `engine.dart`, `trust.dart`, `guard.dart`; `functions/sync-meta` | record cursor, verified records, cut-offs, suspension | meta round, record application, suspend, wipe, replay at start |
| Revocation counting | `revocation.dart`; migrations 0022, 0026, 0027 | counted records, guardian sets | from which seq is a device cut off |
| Record authority and membership | `_shared/records.ts`, migrations 0006, 0008 | memberships, roles, invites | file and project a signed record |
| Ledger projection and period locks | `packages/core_ledger/lib/src/projection.dart`, `packages/data/lib/src/recompute.dart` | projection rows, quarantine flags | fold a book's events, tray of late arrivals |
| Local ledger | `app/lib/shared/ledger/local_ledger.dart` | the facade's remembered state, its clock | post, amend, reverse, approve, reject, lock, unlock |
| Reference books: builder | `docs/accounting/reference-books/build.py` | the books of five cases | write, finalise, close, print |
| Reference books: checker | `docs/accounting/reference-books/check_md.py` | none | re-derive the printed figures |
| Key rotation; ceremony; recovery; billing; authentication | see `PROJECT.json` | server tables, sessions | not modelled |
| Values, codecs, cryptography, screens | see `PROJECT.json` | none of their own | not modelled |

### How they interact

A save of the **local ledger** writes a mirror row and an outbox row in one
transaction and rebuilds the book's projection. A round of the **engine** calls
`sync-meta`, `sync-push` (a batch of outbox rows) and `sync-pull` (pages of a book
behind a cursor); every answer carries `store_epoch`, and a change of it voids cursors
and acks. After a pull that stored something the engine asks the **projector** for a
rebuild of the book, by itself. The records that the meta round brings decide whose
envelopes a pull admits. Nothing is pushed to a device.

### What is hard

* **Concurrency.** Push transactions of several devices overlap: seq, usage count and
  commit are three different instants, and pulls run between any two. Guardians file
  approvals in overlapping transactions. Phones write under clocks that agree on
  nothing. On a device, saves land between any two steps of a round.
* **Failure.** A request or an answer is lost while the server goes on; a blob
  arrives damaged in the middle of a page; the process dies between two writes.
* **Restores.** The store goes back in time; everything a device recorded against it
  is stale.
* **Order of arrival.** A decision, lock, unlock or amendment arrives before or after
  what it speaks about, and the projection has to mean the same.
* **Figures.** The generator and the reader of the reference books share no code;
  rounding, closing and pairing must agree to the paisa.

### What makes each part correct

* *Store and engine:* no row behind a cursor is missing from the mirror; an acked row
  is in the store under its seq; together they are a replicated append-only log.
* *Revocation:* nobody's approval is lost to a race, server and devices reach the same
  cut-off, and exactly what is past it is quarantined.
* *Ledger:* an entry that counts is counted once; nothing leaves or enters a
  balance, or a locked month, without a reason; a rebuild changes nothing.
* *Reference books:* the generator stops only for known reasons, its statements agree
  with one another, and the reader accepts what it prints and reports a wrong figure.

`PROJECT.json` lists the hazards, each at its line, with the properties that watch it.

## 2. Plan

Done: the sync core with its refinement and proofs; revocation with its proof; the
ledger's projection with the devices that feed it; the reference books.

Left, in this order:

1. **KeyRotation**: re-seal of stale outbox rows, one retry, key wait, the 48 h grace.
2. The rest of **Meta**: pages, certificates, member removals, roles, rebinding.
3. **YearClose**, cash counts and structural configuration in the ledger model; an
   author's gaps and held envelopes.
4. **Membership**, **Billing**, **Ceremony**, **Recovery**: server state machines under
   concurrent and repeated requests.

Theorems worth having next: of the reference books, `AgreedPairsClose`, which needs
assumptions on the charts of a pair (section 5).

## 3. The modules

    EnvelopeStore <-- SyncEngine <-- SyncInvariant <-- SyncRefinement <-- MCSyncEngine
                                         ^                 ^    \-- INSTANCE ReplicatedLog
                                      SyncEngineProofs <-- SyncRefinementProofs

    RevocationCount <-- Revocation <-- MCRevocation
                          ^-- RevocationProofs <-- RevocationDeviceProofs

    LedgerProjection <-- LedgerDevices <-- MCLedger
                           ^-- LedgerProofs <-- LedgerRebuildProofs

    RefBook <-- RefReports, RefCheck <-- RefFamily <-- RefCase <-- MCRefCase
    RefBook <-- RefCharts <----------------------------------------- MCRefCase
                                     RefCase <-- RefBookProofs <-- RefCaseProofs

An operator whose comment calls it a mutant, or that stands before another one in a
variant (`LostTooEarly` before `Lost`), is that one with a plausible mistake in it; no
specification uses it.

### EnvelopeStore: the server's half, one book

`store` is the committed `envelopes` table (seq per envelope, 0 while absent), `nextSeq`
the sequence, `epoch` the store epoch, `reqs` the push requests on the wire or in a
transaction, `response` the answers on their way back. `overtaken` is a history
variable: rows that became visible below a seq that was visible already.

| Action | Code |
|---|---|
| `BookAccess`, `RateLimited` | `push_rate` row lock and count, `rf.book_access` read once |
| `JudgeNoRole`, `JudgeQuota`, `JudgeDuplicate`, `JudgeInsert`, `InsertDenied` | the envelope loop in the code's order; a writer demoted since `BookAccess` is refused by the row policy at the insert |
| `BumpUsage` | the usage trigger, which takes the `book_usage` row lock after the seq is drawn |
| `Commit`, `Abort` | end of `withClaims` |
| `Restore`, `Demote` | a backup is loaded and the epoch bumped; a role is taken away |

### SyncEngine: the devices, composed with the store

A device's database is `st`, `ackedSeq` (outbox), `have`, `mirrorSeq`
(`envelopes_local`), `devEpoch`, `cursor`, `hasKey`; the rest is memory that `Crash`
resets. A round is

    StartRound -> {DrainKeyWait}* -> {Push, ReceivePush, Handle*, PushDone}* -> {ServePull, [RestartPull],
    StorePage, SetCursor}* -> ReadYourWrites -> (second pass) -> Prune

with `PushFailed`, `PushRefused`, `PullFailed` where a call fails. `KeyArrives` persists a
book key; what waited for it is admitted one envelope at a time (`DrainKeyWait`) before the
round goes on, and a `Crash` may fall before, between or after. A batch is any
non-empty set of queued rows, a page any ascending run behind the cursor; a damaged
blob ends the page and the loop, as in the code. `Restore` keeps any subset of the rows.
Left out: `key_version_stale`, `hlc_future`, membership, freeze and unknown-book refusals,
413, refusals of the pull route, author gaps.

`ReplicatedLog` is the abstract specification: entries are written, enter one log under
numbers of their own, and are delivered to replicas. `SyncRefinement` maps the outbox,
the committed rows and the mirrors to it and states `ImplementsLog`.

### RevocationCount, Revocation

`RevocationCount` has the server's tally (0026, 0027) and the device's count
(`revocation.dart`) as operators over the stamped records each can see: the server
judges the subject's membership by the log of memberships rows, a device by the
verified membership records. `Revocation` runs them. A request is one record in one
transaction: `File*`, `Judge`, `Count` (under the advisory lock), `ApplyMembership`,
`Commit`. A device has `ReadMeta` (one whole meta round), `Pull`, `Restart`.

The subject's membership row changes as the code changes it: by an admin's
`membership_status` record (`FileMembership`, then `ApplyMembership`, or `KeepMembership`
where the transition or a guard of the database refuses it), by such a record sent again
(`Reapply`), by an accepted invite (`AcceptInvite`, over a removed row or none), by the
sweep of expired invites (`ExpireInvites`) and by the outcome of a ceremony (`Verify`).
Each leaves an entry in the facts log, which names the record that caused it, if one did. A
membership record of anyone but an admin is stored and refused (`RefuseMembership`); devices
read and count it, as in the code.

Restrictions: one subject and one lost device; the owner signs on a third device. Whether
an invite is live, a ceremony took place or a seat is free is left open, so every change
that `Edges` allows may happen at any time, but beside an approval's transaction (0027
names that race as its exception). Certificates come on the page of their records;
member removals, rebinding, roles, wrapped keys and the wait for a tenant are not in the
model. After a restart a device knows its own certificate (`bootstrap.dart:246`) and nobody
else's.

### LedgerProjection, LedgerDevices

`LedgerProjection` is `project()` as a fold over the events of one book in order of
their hybrid logical clock. `Process` is its closure, with `Defer` and `Release` for
targets not accepted yet, `Faulty` for the refusals, `Supersede`, `Void` and `Decide`
for what an event does to another one. The closure calls itself when it releases what
waited; the model keeps those calls as a list, `todo`, in front of which a release puts
what it frees, and `Step` folds the next of them or, when there is none, the next event
in order (`left`), so `Project` is a function on `0..Steps`. `Rebuild` is what Recompute makes of the rows a
device holds, `LateArrivals` the tray it computes from their order of arrival.
`LedgerDevices` has the phones: `mirror` in order of arrival, `quarantined`, the
projection rows `view`, and `memo`, what the facade remembers of its own last rebuild
(`_last`). Writing actions judge by `memo`, append, rebuild and remember; `Pull`
rebuilds and does not tell the facade; `Restart` seeds the clock and rebuilds every
book. `RejectHalf` is a crash between the two envelopes of a rejection.

Abstractions:

* The app's own operations never change an entry's lines (an edit changes date and
  note), so a balance is given as how often each entry's lines were added; shape,
  universal invariants, changed kinds and mirrors that do not mirror are left out.
* Clock values are distinct (ties are broken by id in the code) and a wall clock may
  say anything; a phone never adopts the value of an envelope it receives, as in the
  code. The id of an event is its clock value.
* The log delivers each author's envelopes in order, so there are no author gaps: an
  envelope whose target is missing is refused at once and the held branch is left out.
* One member per device. New entries by `Poster`, locks by `Closer` only: bounds.
* Year close, its seed and its uncertification, cash counts, lock vectors and structural
  events are not modelled; an advance cannot be rejected, as no operation does that.
* What waits in the tray is outside the balances, as the projector has it and
  `packages/data/test/late_arrivals_test.dart` 90-97 remarks.

### RefBook, RefReports, RefCheck, RefFamily, RefCharts, RefCase

`RefBook` is posting and the year close of `build.py`; `RefReports` the statements it
prints, each with its assertions; `RefCheck` what `check_md.py` derives from a page;
`RefFamily` the pairs of books that mirror one another; `RefCharts` the charts and
sample entries of the five cases, with scaled amounts; `RefCase` a run of the scripts:
write, finalise, print, misprint one figure, read back. The third household
(`build.py` 2526-2538, 2727-2751), narrations, layout and output formats are left out.

## 4. The runs

| Run | Instance | Checks |
|---|---|---|
| `SyncSafety` | 2 devices, 2 envelopes, one sealed under a key d2 lacks; d1 may be demoted; 1 loss, 1 crash | `TypeOK`, `NoSilentSkip`, `AckedIsStored`, `MirrorSeqIsCurrent`, `NoFalseWriteLost`, `ImplementsLog` |
| `SyncRestore` | 2 envelopes; 1 restore, 1 crash | `SyncInv`, `AckedIsStored`, `BatchIsInflight` |
| `SyncOverlap` | 1 envelope; d1 may be demoted; 2 restores at any moment, 1 crash | `RowInv` |
| `SyncLive` | 2 envelopes, quota 2, 1 loss, fairness | `SavedReachesStore`, `StoredReachesAll`, `AckedIsSettled` |
| `RevocationRaces` | 4 guardians, a set of 2 (k = 2) split again to 4 (k = 3); approvals of g1 and g2 overlap; 5 seqs, 1 envelope, 1 restart | `TypeOK`, `StatusFollowsCount`, `DevicesCountAsServer`, `QuarantineIsTheCut`, `TallyOnlyEarlier` |
| `RevocationHistory` | 2 guardians; the subject is removed by record or the sweep and let back by record or an accepted invite, verified or not; 9 seqs: 3 revocations, 2 membership records, 4 facts | `DevicesCountAsServer`, `TallyOnlyEarlier` |
| `LedgerViews` | 2 phones, 3 events, 2 months, 1 restart; x writes new entries and is over its limit, y closes months | `TypeOK`, `BalanceIsCounted`, `OrphansHaveNoTarget`, `RecomputeIsStable`, `PairsNetToZero`, `CountedLeavesForAReason`, `LockedMonthGainsForAReason` |
| `RefBooks` | five cases, up to 3 sample entries each | `TypeOK`, `MakeUpMissesByOverspend`, `ReceiptsMeetPayments`, `CloseKeepsOwnMoney`, `AgreedPairsClose`, `StopsForAReason`, `PrintedCasePasses`, `WrongFigureIsReported` |

What the main properties say:

* `NoSilentSkip`: a row behind a device's persisted cursor is in its mirror, unless it
  committed out of seq order (`overtaken`): nothing else makes a cursor skip a row.
* `AckedIsStored`, `BatchIsInflight`, `RowInv`: the outbox and the store agree through
  lost acks, racing retries, crashes and restores; results always find rows inflight.
* `ImplementsLog`: without restores every step writes an entry, enters saved entries
  under fresh numbers, delivers logged ones, or does not show.
* `StatusFollowsCount`: when no transaction is under way, a complete count has revoked.
  `TallyOnlyEarlier`: a cut-off never moves later.
* `DevicesCountAsServer`: a device of the subject that has verified every record has the
  server's cut-off. ADR 2026-10-03b asks it everywhere, and migration 0027 names the
  places where it cannot be had: (a) a membership record that was refused or left
  unapplied and tells something else than the row (`Contradicts`), (b) a removal or return
  that no record carries, as by an accepted invite or the sweep (`Unrecorded`), (c) a record
  applied after later ones (`AppliedLate`). `RecordsTell` excludes just these; TLC refutes
  the property without any one of them. 0027's fourth place, an approval from before the
  subject had any membership, is not met: a set is published by an active member. `VersionsInOrder` is a fifth that 0027 does not name: a
  guardian who approves under a later set and again under an earlier one with another
  threshold sets the k of the devices and not that of the server.
* `BalanceIsCounted`: adding and taking away lines while events fold ends with each
  counting entry added exactly once. `OrphansHaveNoTarget`: an event stamped before its
  target still folds. `RecomputeIsStable`: a rebuild without what the last one
  quarantined finds the same books. `PairsNetToZero`: a reversed entry and its reversal
  both count. `CountedLeavesForAReason`, `LockedMonthGainsForAReason`: what an arriving
  envelope may take out of the balances, and into a locked month (by the code, an advance
  approved after the lock joins it, and so does an entry whose amendment is set aside).
* `StopsForAReason`: the generator stops exactly when the posted books have something wrong
  of a list (`SomethingWrong`): a fund overspent; in a trust, a transfer into or out of a
  deposit, or a receipt or payment whose credit recovers an advance or draws a loan; a close
  that is not allowed; a pair that differs in an opening or a movement. So the assertions on
  the close, the balance sheet, the partners and the closed pairs are never the ones that
  fail, and a book with such a fault is never printed. A missing owner account
  (`build.py` 526) is a fault of the chart, which the five charts do not have.
* `PrintedCasePasses`, `WrongFigureIsReported`: the reader accepts the pages of the
  generator (for books that keep the reader's own conventions) and reports one wrong
  figure anywhere but in the figures no check reads, which the property names.

### Findings

Each of these runs checks a sentence of the documentation or of a comment, and TLC shows
a behaviour of the code that contradicts it; `PROJECT.json` quotes the sentences.

| Run | Property | What happens |
|---|---|---|
| `VInflight` | `InflightIsResolved` | the process dies with a batch inflight and the request is lost; nothing queues an inflight row again |
| `VRestartForgets` | `CutSurvivesRestart` | at start the records are replayed before any certificate is known: the revocation is dropped, yet marked seen |
| `VSupersededCounts` | `OnlyTheHeadCounts` | a pending advance is amended on one phone and approved on another: the superseded request is counted |
| `VOrderDecides` | `SameEnvelopesSameBooks` | an entry pulled between a lock and the unlock that undoes it is quarantined for ever; its author counts it |

Met on the way and described here without a run of their own:

* The facade judges a new entry by the state of its own last rebuild (`_stateOf`,
  `local_ledger.dart:3790`), while the engine rebuilds through `ledger.recompute` after
  a pull (`bootstrap.dart:1151`, `engine.dart:1725`): an entry dated in a month whose lock
  was pulled is accepted and quarantined by the rebuild that follows
  (`PostedEntryStands`), although post() "appends nothing" it refuses
  (`local_ledger.dart:3796`).
* Seqs are drawn before the usage lock, so a row can commit below a cursor
  (docs/05-sync-protocol.md:60, 116): the disjunct `overtaken` of `NoSilentSkip`.
* Quota is judged before the duplicate check, so the retry after a lost ack can be
  refused (`DuplicateIsAcked`); a row observed before a restore that loses it is not
  pushed again (`AckedComesBack`); two restores within one pull loop, or a key wait
  across a restore, lose rows (what `CalmInstance` excludes); a mirror row keeps the old
  seq after a restore.
* A revoked device cannot read the record that revokes it, so it suspends and never
  wipes (docs/05-sync-protocol.md:81); likewise a removed member its removal.
* One meta cursor serves all tenants, so records of a tenant the user joins later can
  stay unread until a restart (docs/decisions/2026-10-03b-revocation-count-per-tenant.md:57),
  and an epoch change does not reset it (`engine.dart:904`, docs/05-sync-protocol.md:14);
  a removal's cut-off outlives re-admission (`trust.dart:142`).
* Server and devices judge an approval differently where a record does not tell what the
  membership row went through (`RecordsTell`, 0027's places), and where a guardian approves
  again under an earlier set of another threshold (`VersionsInOrder`).
* A crash between the decision and the reversal of a rejection leaves the money in the
  book with the flag down (`RejectHalf`); an amendment of a certified month's tray entry,
  or an advance approved late, changes a certified month.
* An amendment that a late lock puts in quarantine gives the entry it amended back its
  place, in the balances of the locked month (`LockedMonthGainsForAReason`).
* Reference books: figures no check reads (the month and year briefs, *Checked: Dr = Cr*,
  *Both sides*, the cash book foot, the Total of the appropriation: `EveryFigureIsRead`);
  an account without entries is printed without the close (`ClosedAccountsShowTheClose`);
  a share may be two paise off the exact one (`SharesArePaisaExact`).

### Bounds

`MaxLoss`, `MaxCrash`, `MaxRestore`, `MaxRestart` and `OverlappingRestores` bound
misfortune and stand in the guards of misfortunes only; `MaxSeq`, `MaxOf` and `Recorded`
bound what store_seq stamps, how much of each kind, and what membership records state. One loss is enough for a lost
ack and a racing retry, one crash for a death at every point of a round; two envelopes
of different authors give out-of-order commits and a second page. `MaxSeq` 5 fits the
approvals of three guardians, the owner's and an envelope beside the first membership
fact; 9 fits a removal and a return, each with its record and its fact, one more fact of
an invite, the sweep or a ceremony, and three approvals around them. `SYMMETRY` swaps guardians
of the same sets; these runs have no liveness property. Three events are enough for a target, what refers to it and
a lock, in every order of stamping and arriving; chains of three are the longest
that `Defer` and `Release` see there. In `RefBooks` a case of one book has up to 3
entries, a case of several books 2, and pages with at most one entry are misprinted,
every figure in turn. The lost device as a reader of its own records is in
the model (`mode`) but in no instance: it multiplies the states beyond reach.

`CHECK_DEADLOCK FALSE` stands where a system may stop: a case ends, and users may stop
writing once the clock values are spent.

### Fairness

`SyncEngine` states weak fairness, per device, of the engine's own steps, of the
server's steps for its requests, of the timeout of a call nobody can answer any more,
and of the end of a backoff. `EngineSyncClient` (225-275) runs a round on every save, on
foreground, on connectivity and on a backstop timer; a transaction is finite work; every
call has a timeout; the retry time passes. Nothing is assumed of saves, of keys, of the
app resuming a blocked book, and no misfortune is ever owed. The progress properties
exempt a row whose book is blocked until the app resumes it. The other specifications
have no progress property and state no fairness.

## 5. What is proved

For every set of devices, people, envelopes and months, every quota, guardian set and
bound:

| Theorem | Statement | Assumptions |
|---|---|---|
| `TypeCorrect` | `[]TypeOK` of SyncEngine | |
| `SyncInvHolds`, `NoSilentSkipHolds` | `[]SyncInv`, `[]NoSilentSkip` | `CalmInstance` |
| `RowInvHolds`, `AckedIsStoredHolds`, `BatchIsInflightHolds` | `[]RowInv` and what it strengthens | |
| `ImplementsLogHolds` | SyncEngine implements ReplicatedLog | `MaxRestore = 0`, `~OverlappingRestores` |
| `NoFalseWriteLostHolds` | `NoFalseWriteLost`, an action property | `CalmInstance` |
| `MirrorSeqIsCurrentHolds` | `[]MirrorSeqIsCurrent` | `MaxRestore = 0`, `~OverlappingRestores` |
| `StatusFollowsCountHolds` | `[]StatusFollowsCount` of Revocation | `Admin \notin Together` |
| `TallyOnlyEarlierHolds` | `TallyOnlyEarlier`, an action property | `ThresholdsNeverFall`, `Admin \notin Together` |
| `RevocationTypeOK` | `[]TypeOK` of Revocation | |
| `QuarantineIsTheCutHolds` | `[]QuarantineIsTheCut` | `ThresholdsNeverFall` |
| `DevicesCountAsServerHolds` | `[]DevicesCountAsServer` | `ThresholdsNeverFall`, `Admin \notin Together` |
| `LedgerTypeOK` | `[]TypeOK` of LedgerDevices | |
| `BalanceIsCountedHolds`, `OrphansHaveNoTargetHolds`, `PairsNetToZeroHolds` | `[]BalanceIsCounted`, `[]OrphansHaveNoTarget`, `[]PairsNetToZero` | |
| `RecomputeIsStableHolds` | `[]RecomputeIsStable` | |
| `CountedLeavesForAReasonHolds`, `LockedMonthGainsForAReasonHolds` | `CountedLeavesForAReason`, `LockedMonthGainsForAReason`, action properties | |
| `CaseTypeOK` | `[]TypeOK` of RefCase | |
| `MakeUpMissesByOverspendHolds`, `ReceiptsMeetPaymentsHolds`, `CloseKeepsOwnMoneyHolds` | `[]MakeUpMissesByOverspend`, `[]ReceiptsMeetPayments`, `[]CloseKeepsOwnMoney` | |

*The pull half.* `NoSilentSkip` is not inductive: `SetCursor` may take the cursor
anywhere unless something is known of `after`, the page and the key_wait entries. A page
holds every row between `after` and its `next` committed when it was answered
(`PageCovers`); a row that commits below afterwards is overtaken, since a visible row
stands at or above each cursor (`Visible`); storing the page puts them in the mirror or
in key_wait (`PageStored`), so everything up to `after` is in the mirror, overtaken or
waiting (`AfterCovered`); the persisted cursor stays below everything waiting
(`WaitKnowsSeq`, `CursorCovered`). Across a restore every clause is void until the
device has recorded the epoch and cleared its cursor. `CalmInstance` (a restore
does not hit a pull loop that has yet to settle, key waits and restores do not meet) is
needed: without either half the property is false.

*The push half.* `AckedIsStored` needs to know what the requests under way say:
`RequestInv` (only its author pushes an envelope, one open transaction per device, seqs
drawn once, acks are true), `OutboxInv` (what the outbox and an answer say of a row
agrees with the store), `EpochsFromStore`. Their conjunction `RowInv` survives losses,
crashes and restores without any assumption.

*The mirror.* `NoFalseWriteLost` adds to the two invariants that an own row which was
stored, was not overtaken and lies at or below the cursor, `after` or the page being
stored has been observed, rejected or pruned (`SettledInv`): the page that carried it was
stored in the same transaction that observed it, and a new epoch clears cursor and acks
together. The check runs when the pull has ended, and what it queues again is acked at
or below the cursor. `MirrorSeqIsCurrent` needs that a mirror row's seq, once it is
known, is the store's (`SeqInv`). It is stated without restores because after one the
property is false: `StorePage` fills only seqs that are still null, so a mirror row
keeps the seq of the store that was lost.

*The refinement.* With one epoch, every step is a write, an entering of saved rows at
free numbers, a delivery, or a stutter; that the numbers are free is `SeqsAreDistinct`.

*The count.* The tally depends only on approvals and on the facts stamped before
them. The admin's transaction is alone and stamps its fact after every approval, so no
committed approval is judged anew; a refused record is an approval to nobody; the
lock makes a count that fell short stand until its commit. `RevocationInv` says so of
each author's transaction, by its step.

*The cut-off.* The k-th smallest seq of more approvals is no later than that of fewer
(`RevocationProofs`), so a cut-off moves later only if the approvals needed rise or
an approval stops counting. The first cannot happen while no later set asks for fewer than
an earlier one (`ThresholdsNeverFall`): where one does, the rule itself moves the cut-off
later (`revocation.dart`, D-03b-6). The second cannot, since a membership fact is stamped
after the approvals it could speak about (`Admin \notin Together`, the race 0027
excepts).

*The devices.* `QuarantineInv` says that the revocations a device trusts are those among
the records it has seen, all of them at or below its cursor, and that its quarantine is
what is at or past the cut-off it counts of them. A record appended to the log does not
change that count, and a record read moves the cut-off earlier or not at all, so what was
quarantined stays, whichever of the envelope and the record was read first.

That the device's cut-off is the server's is `DeviceCounts`. A device with every record
judges an approval by the membership records before it, the server by the facts before it. A
fact made by a record has the record's status, and the record stands before it
(`Cites`); so take the least seq at which records and facts of a tenant would part: what
stands there is a record without its fact, a fact without a record, or one whose partner was
applied late, the three places that `RecordsTell` excludes (`Settled`, `AlikeStep`,
`SettledAlike`). Both then find the same approvals valid (`ValidIsApproval`). The device
takes the threshold from every valid record's version and the server from those of each
guardian's first: they agree because later sets never ask for fewer (`ThresholdsNeverFall`)
and no guardian goes back to a version of another threshold (`VersionsInOrder`), which gives
`SameCutOff`. That there is a cut-off exactly when the server has revoked takes the server's
log as it is (`ServerInv`).

*The ledger.* `LedgerProofs` has three layers. `FoldInv` holds at each step of the
fold: each entry that counts was added once and no other was (`LinesOnce`), an accepted
reversal has voided its target and the voided entry still counts (`ReversalsVoid`,
`VoidedCount`), what the tray holds does not count, and each event that has still to fold
stands in one place, once, waiting for a target that is not accepted (`PlacesInv`). It
needs the events to be `Lawful`: ids differ, a reversal is no pending advance, an
amendment reverses what its target reverses, and a rejection speaks of no advance. From it
`RebuildIsSound`: what a device projects of lawful rows, whatever it has quarantined and in
whatever order they arrived, is `Books`. Last, what the facade writes by the state it
remembers, stale as that may be, fits what everybody has written (`Fits`), since its
state is made of events it holds, so `Written` stays lawful (`LedgerInv`), and so does
each mirror, a part of it. The fold is a recursive function on numbers, so that it keeps
an invariant is proved from the least step at which it would not.

*The rebuild.* What a device shows is a rebuild of its rows under some quarantine, and
the quarantine it has afterwards is that one and what the rebuild refused (`RebuiltInv`).
So the next rebuild folds the same events without those that fell: refused, or waiting
for ever. The fold ends within three steps for each event, since every step uses up a turn
(`Tokens`, `ProjectEnds`). An event that falls was never accepted and left no trace in an
entry, and one that settles was never barred before (`FateIsFinal`); a lock or an unlock
never falls, so both folds see the same months. Hence the fold without the fallen events
runs in step with the first one, standing still where the first handles one of them
(`Matches`, `StepMatches`, `RunsMatch`), and ends with the same entries and lines
and nothing refused. Distinct stamps make the next event the same in both folds.

*What an arrival changes.* `CountedLeavesForAReason` and `LockedMonthGainsForAReason`
compare the folds before and after a step, which share neither order nor length, so they are
compared by what their ends say and not step by step. At the end of a fold (`ReasonInv`)
every event that settled is in the rows, each status has its reason (the tray for `inTray`,
an amendment for `superseded`, no approval by another for `pending`), amendments and what
they amend name each other, and a refused decision on a shown entry was its author's own.
Since a rebuild without what fell shows the same, all of what a device has kept settled
(`Reads`). A step only adds rows behind those a mirror has, and sets no lock aside
(`MirrorInv`, `StepFollows`). So what stood before the last lock of its month, or came late,
did so before the step too (`LateBefore`, `LateStays`), and what comes new into a locked
month either was made after the lock, and is refused, or is late (`LateComes`).

*The reference books.* The theorems hold for any cases, charts and entries: what they
assume of these are the named assumptions of `RefCase`, that a chart is one the builder can
set up (`ChartOk`) and that the entries written are entries (`Entry`). A posted book
(`Base`) has openings that add up to nil and, for each account, the balance of its posts. A
balance is a fold over entries. The folds are first turned into sums over the set of an
account's entries, by induction over the size of a set stated as membership in a set of
numbers (`EveryNumber`), so that sums may be split, swapped and compared term by term. Each
entry adds up to nil, hence so do the balances of every day (`RefBookProofs`); summing them
kind by kind gives the make-up against the position, and summing a trust's entries type by
type gives its receipts against its payments. The close is worked out account by account,
once for an owner and once for partners, where the last partner's share takes what the
rounding of the others left (`RefCaseProofs`). Last, sorting and numbering the entries keeps
each of them, whole, and what a correction names, so the inductive invariant `CaseInv`,
that every book past the checks is the close of a posted book, follows from the checks of
`Finalize` and survives printing, misprinting and reading.

Only model-checked:

* progress, since liveness under fairness is out of the prover's reach;
* `AgreedPairsClose` and `StopsForAReason` of the reference books: they depend on the
  charts, on which accounts a pair of books keeps for one another and of which kinds, and
  not only on what every chart holds;
* `PrintedCasePasses` and `WrongFigureIsReported`: they compare two programs over a whole
  page, every table of the generator with every derivation of the reader.

## 6. What is not modelled

`PROJECT.json` gives the status and reason of every component. Not modelled at all:
key rotation, ceremony, recovery, billing, authentication (section 2); cryptographic
primitives (a signature verifies or does not), payload codecs and generated database
code (no state), ledger arithmetic on values (sequential code that unit tests
reach), transport details (TLS pins, headers), the screens, the archived worked examples
and the design scripts.
