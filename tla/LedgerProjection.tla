-------------------------- MODULE LedgerProjection --------------------------
(***************************************************************************)
(* The projector of core_ledger as operators: what project() makes of a    *)
(* set of signed events of one book, and how Recompute calls it for one    *)
(* device (projection.dart, recompute.dart).                               *)
(*                                                                         *)
(* The lines of an entry are never changed by the app's own operations, so *)
(* a balance is given as how often each entry's lines were added to it.    *)
(***************************************************************************)
EXTENDS Integers, SequencesExt

CONSTANTS
    Device,     \* phones of the members of a book, one member each
    Month,      \* accounting months
    MaxHlc      \* bound: values of the hybrid logical clock

NoEntry == 0

Decisions == {"approve", "reject"}

Event ==
    [type: {"entry"}, id: 1..MaxHlc, by: Device, hlc: 1..MaxHlc, month: Month,
     pending: BOOLEAN, flagged: BOOLEAN, amends: 0..MaxHlc, reverses: 0..MaxHlc]
    \cup
    [type: {"decision"}, id: 1..MaxHlc, by: Device, hlc: 1..MaxHlc,
     entry: 1..MaxHlc, decision: Decisions]
    \cup
    [type: {"lock", "unlock"}, id: 1..MaxHlc, by: Device, hlc: 1..MaxHlc, month: Month]

-----------------------------------------------------------------------------
(* PeriodTimeline *)

OfMonth(events, m) == {e \in events : e.type \in {"lock", "unlock"} /\ e.month = m}

LastOf(events) == CHOOSE e \in events : \A f \in events : f.hlc <= e.hlc

Binding(events) == events # {} /\ LastOf(events).type = "lock"

LockedAt(events, m, hlc) == Binding({e \in OfMonth(events, m) : e.hlc <= hlc})

LockedNow(events, m) == Binding(OfMonth(events, m))

-----------------------------------------------------------------------------
(* The state that project() folds over the events: left are those whose turn  *)
(* has not come, waiting those held for a target, todo those whose target has *)
(* just been accepted, which fold before the next turn.                       *)

Empty(events) ==
    [entries |-> <<>>, applied |-> <<>>, refused |-> {}, left |-> events,
     waiting |-> [target \in 1..MaxHlc |-> <<>>], todo |-> <<>>]

With(f, x, v) == [i \in DOMAIN f \cup {x} |-> IF i = x THEN v ELSE f[i]]

IsCounted(p) == p.status \in {"posted", "voided"}

Accepted(st, id) == id \in DOMAIN st.entries

\* The lines of entry id are added to the balances n times more.
Apply(st, id, n) ==
    [st EXCEPT !.applied = With(@, id, n + (IF id \in DOMAIN @ THEN @[id] ELSE 0))]

Refuse(st, ev) == [st EXCEPT !.refused = @ \cup {ev.id}]

Defer(st, ev, target) == [st EXCEPT !.waiting[target] = Append(@, ev)]

\* The one amendment allowed against a locked month: into an open one.
IsRedate(events, original, ev) ==
    /\ original.month # ev.month
    /\ ~LockedAt(events, ev.month, ev.hlc)

\* Mutant: a voided entry may be amended.
BadAmendmentOfVoid(events, st, ev) ==
    LET target == st.entries[ev.amends] IN
    \/ target.supersededBy # NoEntry
    \/ /\ LockedAt(events, target.event.month, ev.hlc)
       /\ ~IsRedate(events, target.event, ev)

BadAmendment(events, st, ev) ==
    LET target == st.entries[ev.amends] IN
    \/ target.reversedBy # NoEntry
    \/ target.supersededBy # NoEntry
    \/ /\ LockedAt(events, target.event.month, ev.hlc)
       /\ ~IsRedate(events, target.event, ev)

BadReversal(st, ev) ==
    LET target == st.entries[ev.reverses] IN
    \/ target.reversedBy # NoEntry
    \/ target.status # "posted"

Faulty(events, st, ev) ==
    \/ ev.amends # NoEntry /\ BadAmendment(events, st, ev)
    \/ ev.reverses # NoEntry /\ BadReversal(st, ev)

\* The target an entry or a decision has to wait for, or NoEntry.
Dangling(st, ev) ==
    IF ev.type = "entry" /\ ev.amends # NoEntry /\ ~Accepted(st, ev.amends) THEN ev.amends
    ELSE IF ev.type = "entry" /\ ev.reverses # NoEntry /\ ~Accepted(st, ev.reverses)
         THEN ev.reverses
    ELSE IF ev.type = "decision" /\ ~Accepted(st, ev.entry) THEN ev.entry
    ELSE NoEntry

\* Mutant: a late arrival is posted like any other entry.
StatusOutsideTray(ev, tray) == IF ev.pending THEN "pending" ELSE "posted"

StatusOf(ev, tray) ==
    IF ev.id \in tray THEN "inTray" ELSE IF ev.pending THEN "pending" ELSE "posted"

Accept(st, tray, ev) ==
    LET status == StatusOf(ev, tray)
        entry  == [event |-> ev, status |-> status,
                   review |-> IF ev.flagged THEN "open" ELSE "none",
                   supersededBy |-> NoEntry, reversedBy |-> NoEntry]
    IN  Apply([st EXCEPT !.entries = With(@, ev.id, entry)], ev.id,
              IF status = "posted" THEN 1 ELSE 0)

\* Mutant: the lines of the amended entry stay in the balances.
SupersedeKeepsLines(st, ev) ==
    IF ev.amends = NoEntry THEN st
    ELSE [st EXCEPT !.entries[ev.amends].status = "superseded",
                    !.entries[ev.amends].supersededBy = ev.id]

Supersede(st, ev) ==
    IF ev.amends = NoEntry THEN st
    ELSE LET was == st.entries[ev.amends]
         IN  Apply([st EXCEPT !.entries[ev.amends].status = "superseded",
                              !.entries[ev.amends].supersededBy = ev.id],
                   ev.amends, IF IsCounted(was) THEN -1 ELSE 0)

Void(st, ev) ==
    IF ev.reverses = NoEntry THEN st
    ELSE [st EXCEPT !.entries[ev.reverses].status = "voided",
                    !.entries[ev.reverses].reversedBy = ev.id]

\* An advance is counted by its approval; any other decision moves a flag.
Decide(st, tray, ev) ==
    LET target == st.entries[ev.entry]
        counts == ev.decision = "approve" /\ ev.entry \notin tray
        status == IF ev.decision = "reject" THEN "rejected"
                  ELSE IF ev.entry \in tray THEN "inTray" ELSE "posted"
        change == (IF counts THEN 1 ELSE 0) - (IF IsCounted(target) THEN 1 ELSE 0)
    IN  IF ev.by = target.event.by THEN Refuse(st, ev)
        ELSE IF target.event.pending
             THEN Apply([st EXCEPT !.entries[ev.entry].status = status], ev.entry, change)
        ELSE [st EXCEPT !.entries[ev.entry].review =
                IF ev.decision = "approve" THEN "approved" ELSE "rejected"]

\* Mutant: an accepted entry releases nothing.
ReleaseNothing(st, id) == st

\* What was waiting for an entry that has just been accepted folds in order.
Release(st, id) ==
    [st EXCEPT !.todo = st.waiting[id] \o @, !.waiting[id] = <<>>]

Process(events, tray, st, ev) ==
    IF ev.type = "entry" /\ LockedAt(events, ev.month, ev.hlc) THEN Refuse(st, ev)
    ELSE IF Dangling(st, ev) # NoEntry THEN Defer(st, ev, Dangling(st, ev))
    ELSE IF ev.type = "entry" /\ Faulty(events, st, ev) THEN Refuse(st, ev)
    ELSE IF ev.type = "entry"
         THEN Release(Void(Supersede(Accept(st, tray, ev), ev), ev), ev.id)
    ELSE IF ev.type = "decision" THEN Decide(st, tray, ev)
    ELSE st

First(events) == CHOOSE e \in events : \A f \in events : e.hlc <= f.hlc

Step(events, tray, st) ==
    IF st.todo # <<>>
    THEN Process(events, tray, [st EXCEPT !.todo = Tail(@)], Head(st.todo))
    ELSE IF st.left # {}
    THEN Process(events, tray, [st EXCEPT !.left = @ \ {First(st.left)}], First(st.left))
    ELSE st

\* An event folds at its turn and after each of the two targets it may wait for.
Steps(events) == 3 * Cardinality(events)

Project(events, tray) ==
    LET run[n \in 0..Steps(events)] ==
            IF n = 0 THEN Empty(events) ELSE Step(events, tray, run[n - 1])
    IN  run[Steps(events)]

\* No author has a gap here, so what still waits has no target: it is refused.
Orphans(st) == {ev.id : ev \in UNION {Range(st.waiting[t]) : t \in DOMAIN st.waiting}}

-----------------------------------------------------------------------------
(* Recompute: stored is what a device holds of the book, as it arrived, events *)
(* the part of it that is not quarantined.                                     *)

\* Mutant: the order of arrival is not asked.
LateByClock(stored, events) ==
    {e.id : e \in {f \in events : /\ f.type = "entry"
                                /\ LockedNow(events, f.month)
                                /\ f.hlc < LastOf(OfMonth(events, f.month)).hlc}}

\* Entries made before the lock of their month that were stored after it.
LateArrivals(stored, events) ==
    {stored[i].id : i \in {j \in DOMAIN stored :
        /\ stored[j] \in events /\ stored[j].type = "entry"
        /\ LockedNow(events, stored[j].month)
        /\ \E l \in 1..(j - 1) :
              /\ stored[l] = LastOf(OfMonth(events, stored[j].month))
              /\ stored[j].hlc < stored[l].hlc}}

\* What a device projects: the envelopes its mirror has not quarantined.
Rebuild(stored, quarantined) ==
    LET usable == {ev \in Range(stored) : ev.id \notin quarantined}
        st     == Project(usable, LateArrivals(stored, usable))
    IN  [entries |-> st.entries, applied |-> st.applied,
         refused |-> st.refused \cup Orphans(st), missing |-> Orphans(st),
         locked |-> {m \in Month : LockedNow(usable, m)}]
=============================================================================
