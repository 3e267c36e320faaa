----------------------------- MODULE Revocation -----------------------------
(***************************************************************************)
(* A device of the subject is revoked: by the subject from another device, *)
(* or by k of their guardians.  The server files each record in one        *)
(* transaction, counts and projects the devices row; the subject's devices *)
(* read the records behind a cursor, count for themselves and quarantine   *)
(* what the lost device wrote from the cut-off on (sync-meta, records.ts,  *)
(* engine.dart).                                                           *)
(***************************************************************************)
EXTENDS RevocationCount

CONSTANTS
    Device,         \* devices of the subject that are modelled
    Lost,           \* the device that is being revoked
    Joined,         \* tenants the subject is active in from the start
    Changes,        \* tenants in which the subject's membership changes
    Together,       \* authors whose transactions may overlap one another
    Recorded,       \* statuses that membership records may state
    MaxSeq,         \* bound: values drawn from store_seq
    MaxOf,          \* bound: [kind -> entries of that kind]
    MaxRestart      \* bound: restarts of a device's engine

Author == Guardian \cup {Owner, Admin}

ASSUME TenantsAssumption ==
    Joined \subseteq Tenant /\ IsFiniteSet(Joined) /\ Changes \subseteq Tenant
ASSUME RecordedAssumption == Recorded \subseteq Status \ {"none"}
ASSUME TogetherAssumption == Together \subseteq Author
ASSUME RevocationBounds ==
    /\ {MaxSeq, MaxRestart} \subseteq Nat /\ Cardinality(Joined) <= MaxSeq
    /\ MaxOf \in [{"revocation", "membership", "fact", "envelope"} -> Nat]

VARIABLES
    rec,            \* what store_seq has stamped, by seq
    open,           \* seqs of transactions that have not committed
    step,           \* [Author -> where its transaction is]
    sets,           \* guardian sets published
    revoked,        \* devices.status of the lost device
    cursor,         \* [Device -> records_seq of the meta cursor, in memory]
    trust,          \* [Device -> revocation records in RecordTrustStore, in memory]
    seen,           \* [Device -> verified records in signed_records_local]
    pulled,         \* [Device -> envelopes of the lost device in the mirror]
    quarantined,    \* [Device -> those of them that are quarantined]
    mode,           \* [Device -> EngineMode]
    restarts        \* restarts so far

serverVars == <<rec, open, step, sets, revoked>>
deviceVars == <<cursor, trust, seen, pulled, quarantined, mode, restarts>>
vars == <<serverVars, deviceVars>>

Seqs == DOMAIN rec
Committed == Seqs \ open
IsRecord(s) == rec[s].kind \in {"revocation", "membership"}

TypeOK ==
    /\ rec \in Seq(Record) /\ Len(rec) <= MaxSeq
    /\ open \subseteq Seqs
    /\ step \in [Author -> {"idle", "filed", "refused", "judged", "counted", "completes", "applied"}]
    /\ sets \in 0..Len(Splits) /\ revoked \in BOOLEAN
    /\ cursor \in [Device -> Seqs \cup {0}]
    /\ trust \in [Device -> SUBSET Seqs] /\ seen \in [Device -> SUBSET Seqs]
    /\ pulled \in [Device -> SUBSET Seqs] /\ quarantined \in [Device -> SUBSET Seqs]
    /\ mode \in [Device -> {"active", "suspended", "wiped"}]
    /\ restarts \in 0..MaxRestart

Init ==
    /\ \E order \in [1..Cardinality(Joined) -> Joined] :
           /\ {order[i] : i \in DOMAIN order} = Joined
           /\ rec = [i \in DOMAIN order |->
                        [kind |-> "fact", by |-> Admin, tenant |-> order[i],
                         version |-> 0, status |-> "active"]]
    /\ open = {} /\ sets = 0 /\ revoked = FALSE
    /\ step = [a \in Author |-> "idle"]
    /\ cursor = [d \in Device |-> 0]
    /\ trust = [d \in Device |-> {}] /\ seen = [d \in Device |-> {}]
    /\ pulled = [d \in Device |-> {}] /\ quarantined = [d \in Device |-> {}]
    /\ mode = [d \in Device |-> "active"] /\ restarts = 0

-----------------------------------------------------------------------------
(* The server: one transaction per request *)

\* The subject's membership row, as a statement reads it now.
Membership(t) == StatusBefore(rec, Committed, "fact", t, Len(rec) + 1)

Mine(a) == {s \in open : rec[s].by = a}

\* A transaction of a may begin beside those under way.
MayBegin(a) == open = {} \/ (a \in Together /\ \A s \in open : rec[s].by \in Together)

Room(kind) == Len(rec) < MaxSeq /\ Cardinality({s \in Seqs : rec[s].kind = kind}) < MaxOf[kind]

Stamped(kind, a, t, v, st) ==
    Append(rec, [kind |-> kind, by |-> a, tenant |-> t, version |-> v, status |-> st])

\* A record is inserted and draws its seq.
File(kind, a, t, v, st) ==
    /\ step[a] = "idle" /\ MayBegin(a) /\ Room(kind)
    /\ rec' = Stamped(kind, a, t, v, st)
    /\ open' = open \cup {Len(rec) + 1}
    /\ step' = [step EXCEPT ![a] = "filed"]
    /\ UNCHANGED <<sets, revoked, deviceVars>>

\* A guardian's device_revocation, in any tenant, naming a published version.
FileApproval(g) ==
    \E t \in Tenant, v \in 1..sets : File("revocation", g, t, v, "none")

\* rf.may_file_record, for the subject.
SubjectMayFile(t) == Membership(t) \in {"active", "joined"}

\* The subject's own.
FileOwners ==
    \E t \in Tenant : SubjectMayFile(t) /\ File("revocation", Owner, t, 0, "none")

\* The admin records a status of the subject, whether or not it may follow.
FileMembership ==
    \E t \in Changes, st \in Recorded : File("membership", Admin, t, 0, st)

\* Anyone else's is refused not_admin: its transaction stores it and its note.
RefuseMembership ==
    /\ Room("membership")
    /\ \E t \in Changes, a \in Author \ {Admin}, st \in Recorded :
           /\ a = Owner => SubjectMayFile(t)
           /\ rec' = Stamped("membership", a, t, 0, st)
    /\ UNCHANGED <<open, step, sets, revoked, deviceVars>>

\* rf.guardian_may_revoke; for the owner, a membership other than removed.
MayRevoke(a, s) ==
    IF a = Owner THEN HeldAt(rec, Committed, rec[s].tenant, Len(rec) + 1)
    ELSE NamesItsSet(rec[s]) /\ HeldAt(rec, Committed, rec[s].tenant, s)

Judge(a) ==
    /\ a # Admin /\ step[a] = "filed"
    /\ \E s \in Mine(a) :
           step' = [step EXCEPT ![a] = IF MayRevoke(a, s) THEN "judged" ELSE "refused"]
    /\ UNCHANGED <<rec, open, sets, revoked, deviceVars>>

\* The advisory lock of the device, held from the count to the commit.
LockHeld == \E a \in Author : step[a] \in {"counted", "completes"}

\* rf.revocation_count and rf.project_device_status, in snapshots taken under
\* the lock: what is committed, and the caller's own record.  The owner's is
\* projected without a count.
CountUnlocked(a) ==
    /\ step[a] = "judged"
    /\ step' = [step EXCEPT ![a] =
                   IF a = Owner \/ Tally(rec, Committed \cup Mine(a)) # 0
                   THEN "completes" ELSE "counted"]
    /\ UNCHANGED <<rec, open, sets, revoked, deviceVars>>
Count(a) ==
    /\ step[a] = "judged" /\ ~LockHeld
    /\ step' = [step EXCEPT ![a] =
                   IF a = Owner \/ Tally(rec, Committed \cup Mine(a)) # 0
                   THEN "completes" ELSE "counted"]
    /\ UNCHANGED <<rec, open, sets, revoked, deviceVars>>

\* rf.membership_transition_ok; to stay as it is changes no row, and a first row
\* that is active at once is a founder's, in a tenant without an admin.
Edges == [none |-> {"invited", "joined", "removed"}, invited |-> {"joined", "removed"},
          joined |-> {"active", "blocked", "removed"}, active |-> {"removed"},
          blocked |-> {"removed"}, removed |-> {"invited", "joined"}]

\* rf.project_membership; the row's trigger logs the change at a fresh seq.
ApplyMembership ==
    /\ step[Admin] = "filed" /\ Room("fact")
    /\ \E s \in Mine(Admin) :
           /\ rec[s].status \in Edges[Membership(rec[s].tenant)]
           /\ rec' = Stamped("fact", Admin, rec[s].tenant, s, rec[s].status)
    /\ open' = open \cup {Len(rec) + 1}
    /\ step' = [step EXCEPT ![Admin] = "applied"]
    /\ UNCHANGED <<sets, revoked, deviceVars>>

\* The record is stored and the row stays: it has that status, the edge is
\* refused, or a guard of the database denies it, for want of a live invite, a
\* ceremony or a seat, which are not modelled.  A removal meets none of them.
KeepMembership ==
    /\ step[Admin] = "filed"
    /\ \E s \in Mine(Admin) :
           rec[s].status = "removed" => Membership(rec[s].tenant) = "removed"
    /\ step' = [step EXCEPT ![Admin] = "refused"]
    /\ UNCHANGED <<rec, open, sets, revoked, deviceVars>>

Commit(a) ==
    /\ step[a] \in {"refused", "counted", "completes", "applied"}
    /\ open' = open \ Mine(a)
    /\ revoked' = (revoked \/ step[a] = "completes")
    /\ step' = [step EXCEPT ![a] = "idle"]
    /\ UNCHANGED <<rec, sets, deviceVars>>

\* The memberships row changes, on the record with seq s or, with 0, on none;
\* not while approvals are under way.
ChangeMembership(t, s, status) ==
    /\ status \in Edges[Membership(t)] /\ open = {} /\ Room("fact")
    /\ rec' = Stamped("fact", Admin, t, s, status)
    /\ UNCHANGED <<open, step, sets, revoked, deviceVars>>

\* A record the database denied, sent again: it is asked again.
Denied(s) ==
    /\ rec[s].kind = "membership" /\ rec[s].by = Admin
    /\ rec[s].status \in Edges[StatusBefore(rec, Committed, "fact", rec[s].tenant, s)]
    /\ ~\E f \in Seqs : Applies(rec, f, s)
Reapply ==
    \E s \in Committed : Denied(s) /\ ChangeMembership(rec[s].tenant, s, rec[s].status)

\* rf.accept_invite: an invite is accepted, over a removed row or none too.
AcceptInvite == \E t \in Changes : ChangeMembership(t, 0, "joined")

\* rf.expire_invites: the sweep frees the seat of an invite nobody accepted.
ExpireInvites ==
    \E t \in Changes : Membership(t) = "invited" /\ ChangeMembership(t, 0, "removed")

\* rf.project_verification_event: the ceremony makes a joined member active, or
\* blocks them on a mismatch.
Verify ==
    \E t \in Changes, status \in {"active", "blocked"} : ChangeMembership(t, 0, status)

\* rf.guardian_set_guard: the next version, in a tenant its publisher is active in.
Publish ==
    /\ sets < Len(Splits) /\ Membership(Splits[sets + 1].tenant) = "active"
    /\ sets' = sets + 1
    /\ UNCHANGED <<rec, open, step, revoked, deviceVars>>

\* The lost device pushes an envelope; a revoked one is no longer certified.
PushUnbounded ==
    /\ ~revoked
    /\ \E t \in Joined : rec' = Stamped("envelope", Owner, t, 0, "none")
    /\ UNCHANGED <<open, step, sets, revoked, deviceVars>>
PushEnvelope ==
    /\ ~revoked /\ Room("envelope")
    /\ \E t \in Joined :
           Membership(t) = "active" /\ rec' = Stamped("envelope", Owner, t, 0, "none")
    /\ UNCHANGED <<open, step, sets, revoked, deviceVars>>

-----------------------------------------------------------------------------
(* The subject's devices *)

\* devices.status = 'certified', which every policy of the store asks for.
Certified(d) == d # Lost \/ ~revoked

\* signed_records_select: the records of the tenants the user is active in.
Readable(d) ==
    {s \in Committed : IsRecord(s) /\ Certified(d) /\ Membership(rec[s].tenant) = "active"}

\* The cut-off the device applies to the lost device's envelopes.
Cut(d) == CountRevocation(rec, trust[d], seen[d])

AtOrPast(S, cut) == {s \in S : cut # 0 /\ s >= cut}

\* _enforceCutoffs: what is in the mirror is judged again, by the cut-off now.
EnforceNothing(d, cut) == quarantined[d]
Enforced(d, cut) == quarantined[d] \cup AtOrPast(pulled[d], cut)

\* A meta round: every readable record behind the cursor, in order of seq.  A
\* record already verified is not applied again.  After each record a device
\* whose own revocation counts wipes itself; at the end of the round an
\* unsigned claim suspends it, or the cut-offs are enforced.
ReadMeta(d) ==
    LET fresh == {s \in Readable(d) : s > cursor[d]} \ seen[d]
        applied(n) == {s \in fresh : s <= n}
        trustAfter(n) == trust[d] \cup Revocations(rec, applied(n))
        wipes == d = Lost /\ \E n \in fresh :
                     CountRevocation(rec, trustAfter(n), seen[d] \cup applied(n)) # 0
    IN  /\ mode[d] # "wiped"
        /\ UNCHANGED <<serverVars, pulled, restarts>>
        /\ cursor' = [cursor EXCEPT ![d] = Max({@} \cup Readable(d))]
        /\ trust' = [trust EXCEPT ![d] = @ \cup Revocations(rec, fresh)]
        /\ seen' = [seen EXCEPT ![d] = @ \cup fresh]
        /\ mode' = [mode EXCEPT ![d] =
                       IF wipes THEN "wiped"
                       ELSE IF ~Certified(d) /\ Cut(d)' = 0 THEN "suspended" ELSE "active"]
        /\ quarantined' = [quarantined EXCEPT ![d] =
                              IF mode'[d] = "active" THEN Enforced(d, Cut(d)') ELSE @]

\* A pull of the lost device's envelopes; each is checked against the cut-off.
Pull(d) ==
    LET new == {s \in Committed : rec[s].kind = "envelope"} \ pulled[d]
    IN  /\ mode[d] = "active" /\ Certified(d) /\ new # {}
        /\ pulled' = [pulled EXCEPT ![d] = @ \cup new]
        /\ quarantined' = [quarantined EXCEPT ![d] = @ \cup AtOrPast(new, Cut(d))]
        /\ UNCHANGED <<serverVars, cursor, trust, seen, mode, restarts>>

\* The engine starts again.  _restore replays the verified records before any
\* certificate is known: the author's user is unknown, and a revocation record
\* is dropped, though marked as seen.  The meta cursor is gone.
Restart(d) ==
    /\ mode[d] # "wiped" /\ restarts < MaxRestart
    /\ cursor' = [cursor EXCEPT ![d] = 0]
    /\ trust' = [trust EXCEPT ![d] = {}]
    /\ mode' = [mode EXCEPT ![d] = "active"]
    /\ restarts' = restarts + 1
    /\ UNCHANGED <<serverVars, seen, pulled, quarantined>>

-----------------------------------------------------------------------------
ServerStep ==
    \/ \E g \in Guardian : FileApproval(g)
    \/ FileOwners
    \/ FileMembership \/ RefuseMembership
    \/ ApplyMembership \/ KeepMembership \/ Reapply
    \/ \E a \in Author : Judge(a) \/ Count(a) \/ Commit(a)
    \/ AcceptInvite \/ ExpireInvites \/ Verify
    \/ Publish
    \/ PushEnvelope

Next ==
    \/ ServerStep
    \/ \E d \in Device : ReadMeta(d) \/ Pull(d) \/ Restart(d)

Spec == Init /\ [][Next]_vars
-----------------------------------------------------------------------------
(* Properties *)

\* The device has verified every record.
Informed(d) == \A s \in Committed : IsRecord(s) => s \in seen[d]

\* The server's cut-off: the owner's record or the tally, the earlier.
ServerCut == Earlier(Earliest({s \in ByOwner(rec, Committed) : HeldAt(rec, Committed, rec[s].tenant, s)}),
                     Tally(rec, Committed))

\* The records tell every removal and every return, when it happens: none of the
\* places is met where 0027 says that server and device part.
Removed(s) == StatusBefore(rec, Committed, "fact", rec[s].tenant, s) = "removed"
Tells(s) == rec[s].status = "removed"
\* (a) a record that the server refused, or left unapplied, and that tells
\* something else than the row.
Contradicts(m) ==
    rec[m].kind = "membership" /\ (Tells(m) # Removed(m)) /\ ~\E f \in Committed : Applies(rec, f, m)
\* (b) a removal or a return that no record carries.
Unrecorded(f) == rec[f].kind = "fact" /\ rec[f].version = 0 /\ (Tells(f) # Removed(f))
\* (c) a record applied only after others of the tenant.
AppliedLate(m) ==
    \E f \in Committed, q \in Committed :
        Applies(rec, f, m) /\ m < q /\ q < f /\ rec[q].tenant = rec[m].tenant /\ rec[q].kind # "envelope"
RecordsTell == \A s \in Committed : ~(Contradicts(s) \/ Unrecorded(s) \/ AppliedLate(s))

\* No guardian approves again under an earlier set of another threshold: the
\* server takes k from the first approvals, a device from all of them.
VersionsInOrder ==
    \A s, q \in ByGuardian(rec, Committed) :
        rec[s].by = rec[q].by /\ s < q /\ NamesItsSet(rec[s]) /\ NamesItsSet(rec[q]) =>
            rec[s].version <= rec[q].version \/ K(rec[s].version) = K(rec[q].version)

\* No approval is lost to a race: once every transaction has ended, a count
\* that is complete has revoked the device (0026, the lock in
\* revocation_count: two approvals that each complete k with the other's must
\* not both count without it).
StatusFollowsCount == open = {} /\ Tally(rec, Committed) # 0 => revoked

\* Once a device is revoked, the cut-off of the guardians' approvals never
\* vanishes and never moves later, whatever is filed, refused, removed,
\* re-admitted or published afterwards (ADR 2026-09-06 section 3; 0027
\* section 3).
TallyOnlyEarlier ==
    [][revoked /\ Tally(rec, Committed) # 0 =>
          Tally(rec', Committed') \in 1..Tally(rec, Committed)]_vars

\* A device of the subject that has every record counts the same cut-off as the
\* server, and counts one exactly when the server has revoked, wherever the
\* records tell what the rows went through (ADR 2026-10-03b section 2 asks it
\* everywhere; countRevocation against revocation_tally).
DevicesCountAsServer ==
    \A d \in Device \ {Lost} :
        open = {} /\ restarts = 0 /\ Informed(d) /\ RecordsTell /\ VersionsInOrder =>
            Cut(d) = ServerCut /\ (Cut(d) # 0 <=> revoked)

\* What an active device quarantines is exactly what the lost device wrote
\* from the cut-off on, whether the envelope or the record was read first, and
\* however often the cut-off has moved (_enforceCutoffs, _admit).
QuarantineIsTheCut ==
    \A d \in Device :
        mode[d] = "active" /\ restarts = 0 => quarantined[d] = AtOrPast(pulled[d], Cut(d))

\* What a restart brings back is what the device had verified: the cut-off of
\* the records in signed_records_local (engine.dart _restore: "Verified
\* records survive restarts").
CutSurvivesRestart ==
    \A d \in Device :
        restarts > 0 /\ mode[d] = "active" =>
            Cut(d) = CountRevocation(rec, Revocations(rec, seen[d]), seen[d])
=============================================================================
