--------------------------- MODULE LedgerDevices ---------------------------
(***************************************************************************)
(* The phones of one book write entries, corrections, decisions, locks and *)
(* unlocks under their own clocks and exchange them through the server's   *)
(* log.  Each judges its own writes by the state its facade remembers and  *)
(* rebuilds its projection after every write and every pull                *)
(* (local_ledger.dart, recompute.dart, engine.dart).                       *)
(***************************************************************************)
EXTENDS LedgerProjection

CONSTANTS
    Limited,    \* devices whose entries are over the member's limit: flagged; the others have no limit
    Poster,     \* devices that write new entries
    Closer,     \* devices that lock and unlock months
    MaxRestart  \* bound: restarts of an app

ASSUME LedgerAssumption ==
    /\ {Limited, Poster, Closer} \subseteq SUBSET Device
    /\ MaxHlc \in Nat /\ MaxRestart \in Nat

VARIABLES
    mirror,         \* [Device -> envelopes_local of the book, by arrival_ordinal]
    quarantined,    \* [Device -> ids of the rows with quarantined = 1]
    view,           \* [Device -> the projection rows of the book]
    memo,           \* [Device -> _last[book].state of the facade, or Nothing]
    clock,          \* [Device -> _clock]
    outbox,         \* [Device -> own envelopes not pushed yet]
    cursor,         \* [Device -> how much of the log was pulled]
    log,            \* the book's envelopes on the server, by seq
    restarts        \* restarts so far

vars == <<mirror, quarantined, view, memo, clock, outbox, cursor, log, restarts>>

Nothing == [entries |-> <<>>]

Written == Range(log) \cup UNION {Range(outbox[d]) : d \in Device}

NoRows == Rebuild(<<>>, {})

Init ==
    /\ mirror = [d \in Device |-> <<>>] /\ quarantined = [d \in Device |-> {}]
    /\ view = [d \in Device |-> NoRows] /\ memo = [d \in Device |-> Nothing]
    /\ clock = [d \in Device |-> 0] /\ outbox = [d \in Device |-> <<>>]
    /\ cursor = [d \in Device |-> 0] /\ log = <<>> /\ restarts = 0

-----------------------------------------------------------------------------
(* Writing *)

\* _stateOf: what the facade remembers, or a rebuild of a book it has not read.
StateOf(d) == IF memo[d] = Nothing THEN view[d] ELSE memo[d]

\* Mutant: what was refused is not written down.
RecomputedForgets(d, stored) ==
    /\ mirror' = [mirror EXCEPT ![d] = stored]
    /\ view' = [view EXCEPT ![d] = Rebuild(stored, quarantined[d])]
    /\ UNCHANGED quarantined

\* recompute.run: the rows are rewritten, what was refused is quarantined.
Recomputed(d, stored) ==
    LET v == Rebuild(stored, quarantined[d])
    IN  /\ mirror' = [mirror EXCEPT ![d] = stored]
        /\ view' = [view EXCEPT ![d] = v]
        /\ quarantined' = [quarantined EXCEPT ![d] = @ \cup v.refused]

\* _author for each envelope, then _rebuild: the facade remembers its report.
AppendOwn(d, events) ==
    /\ Recomputed(d, mirror[d] \o events)
    /\ memo' = [memo EXCEPT ![d] = view'[d]]
    /\ outbox' = [outbox EXCEPT ![d] = @ \o events]
    /\ UNCHANGED <<cursor, log>>

Write(d, events) ==
    /\ AppendOwn(d, events)
    /\ clock' = [clock EXCEPT ![d] = Last(events).hlc]
    /\ UNCHANGED restarts

\* The wall clocks of two phones agree on nothing; equal values are left out.
Ticks(d) == ((clock[d] + 1)..MaxHlc) \ {e.hlc : e \in Written}

\* _seedClock: the highest value among the rows a new process finds.
SeededClock(stored) == Max({e.hlc : e \in Range(stored)} \cup {0})

Entry(d, h, m, pending) ==
    [type |-> "entry", id |-> h, by |-> d, hlc |-> h, month |-> m,
     pending |-> pending, flagged |-> ~pending /\ d \in Limited,
     amends |-> NoEntry, reverses |-> NoEntry]

\* _measured: a copy of the head; a limit may raise its flag, none leaves it.
Amendment(d, h, m, of) ==
    [Entry(d, h, m, of.pending) EXCEPT
        !.flagged = (@ /\ of.reverses = NoEntry) \/ of.flagged, !.amends = of.id, !.reverses = of.reverses]

Reversal(d, h, m, of) ==
    [Entry(d, h, m, FALSE) EXCEPT !.flagged = FALSE, !.reverses = of.id]

Decision(d, h, id, decision) ==
    [type |-> "decision", id |-> h, by |-> d, hlc |-> h, entry |-> id, decision |-> decision]

\* The row is in the projection and the facade's state knows the entry.
Known(d, id) == Accepted(view[d], id) /\ Accepted(StateOf(d), id)

OpenTo(d, m) == m \notin StateOf(d).locked

IsHead(d, id) == StateOf(d).entries[id].supersededBy = NoEntry

Post(d) ==
    \E h \in Ticks(d), m \in Month, pending \in BOOLEAN :
        /\ d \in Poster
        /\ OpenTo(d, m)
        /\ Write(d, <<Entry(d, h, m, pending)>>)

TrayRedate(d, id, m) ==
    /\ view[d].entries[id].status = "inTray"
    /\ m # StateOf(d).entries[id].event.month

Amend(d) ==
    \E id \in DOMAIN view[d].entries, h \in Ticks(d), m \in Month :
        /\ Known(d, id)
        /\ IsHead(d, id)
        /\ \/ OpenTo(d, StateOf(d).entries[id].event.month)
           \/ TrayRedate(d, id, m)
        /\ OpenTo(d, m)
        /\ Write(d, <<Amendment(d, h, m, StateOf(d).entries[id].event)>>)

ReverseEntry(d) ==
    \E id \in DOMAIN view[d].entries, h \in Ticks(d), m \in Month :
        /\ Known(d, id)
        /\ StateOf(d).entries[id].reversedBy = NoEntry
        /\ IsHead(d, id)
        /\ OpenTo(d, m)
        /\ Write(d, <<Reversal(d, h, m, StateOf(d).entries[id].event)>>)

ApproveAdvance(d) ==
    \E id \in DOMAIN view[d].entries, h \in Ticks(d) :
        /\ Known(d, id)
        /\ StateOf(d).entries[id].event.pending
        /\ StateOf(d).entries[id].status = "pending"
        /\ StateOf(d).entries[id].event.by # d
        /\ Write(d, <<Decision(d, h, id, "approve")>>)

OpenFlag(d, id) ==
    /\ Known(d, id)
    /\ ~StateOf(d).entries[id].event.pending
    /\ StateOf(d).entries[id].event.by # d
    /\ StateOf(d).entries[id].review = "open"
    /\ IsHead(d, id)

ApproveEntry(d) ==
    \E id \in DOMAIN view[d].entries, h \in Ticks(d) :
        /\ OpenFlag(d, id)
        /\ Write(d, <<Decision(d, h, id, "approve")>>)

\* The decision and the mirror reversal: two envelopes, one rebuild.
RejectEntry(d) ==
    \E id \in DOMAIN view[d].entries, h \in Ticks(d), m \in Month :
        /\ OpenFlag(d, id)
        /\ StateOf(d).entries[id].reversedBy = NoEntry
        /\ OpenTo(d, m)
        /\ \E h2 \in {k \in Ticks(d) : k > h} :
              Write(d, <<Decision(d, h, id, "reject"),
                         Reversal(d, h2, m, StateOf(d).entries[id].event)>>)

\* The process dies between the two: the flag is down, the money stays.
RejectHalf(d) ==
    \E id \in DOMAIN view[d].entries, h \in Ticks(d), m \in Month :
        /\ OpenFlag(d, id)
        /\ StateOf(d).entries[id].reversedBy = NoEntry
        /\ OpenTo(d, m)
        /\ restarts < MaxRestart
        /\ restarts' = restarts + 1
        /\ AppendOwn(d, <<Decision(d, h, id, "reject")>>)
        /\ clock' = [clock EXCEPT ![d] = SeededClock(mirror'[d])]

NoOpenFlag(d) ==
    \A id \in DOMAIN StateOf(d).entries :
        LET p == StateOf(d).entries[id] IN ~(p.review = "open" /\ IsCounted(p))

LockMonth(d) ==
    \E h \in Ticks(d), m \in Month :
        /\ d \in Closer
        /\ NoOpenFlag(d)
        /\ Write(d, <<[type |-> "lock", id |-> h, by |-> d, hlc |-> h, month |-> m]>>)

UnlockMonth(d) ==
    \E h \in Ticks(d), m \in Month :
        /\ d \in Closer
        /\ ~OpenTo(d, m)
        /\ Write(d, <<[type |-> "unlock", id |-> h, by |-> d, hlc |-> h, month |-> m]>>)

-----------------------------------------------------------------------------
(* The sync engine and the process *)

Push(d) ==
    /\ outbox[d] # <<>>
    /\ log' = Append(log, Head(outbox[d]))
    /\ outbox' = [outbox EXCEPT ![d] = Tail(@)]
    /\ UNCHANGED <<mirror, quarantined, view, memo, clock, cursor, restarts>>

\* The page is stored row by row; a row the mirror holds is left as it is.
Stored(rows, page) ==
    LET upTo[n \in 0..Len(page)] ==
            IF n = 0 THEN rows
            ELSE IF page[n] \in Range(upTo[n - 1]) THEN upTo[n - 1]
            ELSE Append(upTo[n - 1], page[n])
    IN  upTo[Len(page)]

\* Mutant: the cursor is set one past the page.
PullPast(d) ==
    /\ cursor[d] < Len(log)
    /\ Recomputed(d, Stored(mirror[d], SubSeq(log, cursor[d] + 1, Len(log))))
    /\ cursor' = [cursor EXCEPT ![d] = Len(log) + 1]
    /\ UNCHANGED <<memo, clock, outbox, log, restarts>>

\* The engine recomputes by itself: the facade's memory is not told.
Pull(d) ==
    /\ cursor[d] < Len(log)
    /\ Recomputed(d, Stored(mirror[d], SubSeq(log, cursor[d] + 1, Len(log))))
    /\ cursor' = [cursor EXCEPT ![d] = Len(log)]
    /\ UNCHANGED <<memo, clock, outbox, log, restarts>>

\* A book that came by a pull is read for the first time.
Show(d) ==
    /\ memo[d] = Nothing
    /\ memo' = [memo EXCEPT ![d] = view[d]]
    /\ UNCHANGED <<mirror, quarantined, view, clock, outbox, cursor, log, restarts>>

\* A new process seeds its clock and rebuilds every book of the mirror.
Restart(d) ==
    /\ restarts < MaxRestart
    /\ restarts' = restarts + 1
    /\ clock' = [clock EXCEPT ![d] = SeededClock(mirror[d])]
    /\ Recomputed(d, mirror[d])
    /\ memo' = [memo EXCEPT ![d] = IF mirror[d] = <<>> THEN Nothing ELSE view'[d]]
    /\ UNCHANGED <<outbox, cursor, log>>

Next ==
    \E d \in Device :
        \/ Post(d) \/ Amend(d) \/ ReverseEntry(d)
        \/ ApproveAdvance(d) \/ ApproveEntry(d) \/ RejectEntry(d) \/ RejectHalf(d)
        \/ LockMonth(d) \/ UnlockMonth(d)
        \/ Push(d) \/ Pull(d) \/ Show(d) \/ Restart(d)

Spec == Init /\ [][Next]_vars

-----------------------------------------------------------------------------
(* Properties *)

TypeOK ==
    /\ log \in Seq(Event) /\ restarts \in 0..MaxRestart
    /\ \A d \in Device :
        /\ mirror[d] \in Seq(Event) /\ outbox[d] \in Seq(Event)
        /\ quarantined[d] \subseteq {e.id : e \in Range(mirror[d])}
        /\ DOMAIN view[d].entries \cup view[d].refused \subseteq {e.id : e \in Range(mirror[d])}
        /\ clock[d] \in 0..MaxHlc /\ cursor[d] \in 0..Len(log)

\* The balances are kept by adding and taking away lines as events fold: at
\* the end each entry that counts was added exactly once, and nothing else was
\* (projection.dart: apply).
BalanceIsCounted ==
    \A d \in Device : \A id \in DOMAIN view[d].entries :
        view[d].applied[id] = IF IsCounted(view[d].entries[id]) THEN 1 ELSE 0

\* An amendment, reversal or decision stamped before its target, by a slower
\* clock, still folds: it is refused as an orphan only when the target itself
\* is not accepted (projection.dart: defer, release).
OrphansHaveNoTarget ==
    \A d \in Device : \A ev \in Range(mirror[d]) :
        ev.id \in view[d].missing =>
            IF ev.type = "decision" THEN ~Accepted(view[d], ev.entry)
            ELSE \/ ev.amends # NoEntry /\ ~Accepted(view[d], ev.amends)
                 \/ ev.reverses # NoEntry /\ ~Accepted(view[d], ev.reverses)

\* Dropping the projection and rebuilding it finds the same books: what a
\* rebuild quarantines for good left no trace in the state it was refused by
\* (recompute.dart: _rebuildBook).
RecomputeIsStable ==
    \A d \in Device :
        LET again == Rebuild(mirror[d], quarantined[d])
        IN  /\ again.entries = view[d].entries
            /\ again.applied = view[d].applied
            /\ again.refused = {}

\* A reversed entry and its reversal are both in the balances and net to zero,
\* unless the reversal came late for its own month and waits in the tray.
PairsNetToZero ==
    \A d \in Device : \A id \in DOMAIN view[d].entries :
        LET r == view[d].entries[id].reversedBy IN
        r # NoEntry =>
            /\ Accepted(view[d], r) /\ view[d].entries[r].event.reverses = id
            /\ IsCounted(view[d].entries[id])
            /\ view[d].entries[r].status \in {"posted", "voided", "inTray"}

\* Money that counted on a device stops counting only when its entry was
\* amended, or an event stamped earlier came late and made it void: a lock
\* that arrives never moves into the tray what was there before it.
CountedLeavesForAReason ==
    [][\A d \in Device : \A id \in DOMAIN view[d].entries :
        IsCounted(view[d].entries[id]) =>
            \/ id \in quarantined'[d]
            \/ Accepted(view'[d], id) /\ IsCounted(view'[d].entries[id])
            \/ Accepted(view'[d], id) /\ view'[d].entries[id].supersededBy # NoEntry]_vars

\* What a device counts of a locked month stays apart from what comes late:
\* while the lock is in force only an advance that waited for its approval
\* joins it, or an entry whose amendment is set aside counts again; never an
\* entry made before the lock and stored after it (recompute.dart: the tray).
LockedMonthGainsForAReason ==
    [][\A d \in Device : \A m \in view[d].locked :
        LastOf(OfMonth(Range(mirror'[d]), m)) = LastOf(OfMonth(Range(mirror[d]), m)) =>
            \A id \in DOMAIN view'[d].entries :
                LET p == view'[d].entries[id] IN
                /\ p.event.month = m /\ IsCounted(p)
                /\ ~(Accepted(view[d], id) /\ IsCounted(view[d].entries[id]))
                => \/ p.event.pending
                   \/ /\ Accepted(view[d], id)
                      /\ view[d].entries[id].supersededBy \in quarantined'[d]]_vars

\* post() checks an entry and appends nothing it refuses: the device that has
\* just written a plain entry does not quarantine it at once.
PostedEntryStands ==
    [][\A d \in Device : mirror'[d] # mirror[d] /\ outbox'[d] # outbox[d] =>
        LET e == Last(mirror'[d]) IN
        e.type = "entry" /\ e.amends = NoEntry /\ e.reverses = NoEntry
            => e.id \notin quarantined'[d]]_vars

\* Of an amended entry only the head of the chain counts.
OnlyTheHeadCounts ==
    \A d \in Device : \A id \in DOMAIN view[d].entries :
        view[d].entries[id].supersededBy # NoEntry => ~IsCounted(view[d].entries[id])

\* Two devices that hold the same envelopes show the same books, apart from
\* what came late to one of them and waits in its tray.
SameEnvelopesSameBooks ==
    \A d, e \in Device :
        /\ Range(mirror[d]) = Range(mirror[e])
        /\ \A x \in {d, e} : LateArrivals(mirror[x], Range(mirror[x])) = {}
        => view[d].entries = view[e].entries
=============================================================================
