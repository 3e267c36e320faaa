-------------------------- MODULE RevocationCount --------------------------
(***************************************************************************)
(* Who counts as having revoked a device, and from which seq: the server's *)
(* tally (migrations 0026, 0027) and the count a device of the subject     *)
(* makes for itself (revocation.dart).  Both are functions of the signed   *)
(* records they can see, but not of the same ones: the server judges the   *)
(* subject's membership by its log of the memberships rows, a device by    *)
(* the membership records it has verified.                                 *)
(*                                                                         *)
(* One subject and one device of theirs that is being revoked.  `rec` is   *)
(* what the sequence store_seq has stamped, `known` the seqs a reader of   *)
(* it can see, and 0 stands for "no cut-off".                              *)
(***************************************************************************)
EXTENDS Naturals, Sequences, FiniteSetsExt

CONSTANTS
    Guardian,       \* users who are in some guardian set of the subject
    Owner,          \* the subject, signing on a device of theirs that is not modelled
    Admin,          \* the admin of the subject's tenants
    Tenant,
    Splits          \* the guardian sets the subject publishes, in order

ASSUME PeopleAreDistinct == Owner # Admin /\ {Owner, Admin} \cap Guardian = {}

\* 2 to 5 guardians, all of them other people.
ASSUME SplitsAreSets ==
    Splits \in Seq([tenant : Tenant, guardians : {G \in SUBSET Guardian : Cardinality(G) \in 2..5}])

\* k = ceil((n + 1) / 2): 2 of 2, 2 of 3, 3 of 4, 3 of 5.
K(v) == (Cardinality(Splits[v].guardians) + 2) \div 2

(***************************************************************************)
(* What the sequence stamps: revocation records, membership records of the *)
(* subject, the memberships rows' history, envelopes of the lost device.   *)
(* `version` is the guardian set an approval names, and of a fact the      *)
(* membership record that changed the row, 0 where none did.               *)
(***************************************************************************)
Status == {"none", "invited", "joined", "active", "blocked", "removed"}
Record == [kind : {"revocation", "membership", "fact", "envelope"},
           by : Guardian \cup {Owner, Admin}, tenant : Tenant,
           version : Nat, status : Status]

Revocations(rec, known) == {s \in known : rec[s].kind = "revocation"}
ByOwner(rec, known) == {s \in Revocations(rec, known) : rec[s].by = Owner}
ByGuardian(rec, known) == {s \in Revocations(rec, known) : rec[s].by \in Guardian}

\* The latest status before seq n that the entries of this kind record.
StatusBefore(rec, known, kind, t, n) ==
    LET told == {s \in known : s < n /\ rec[s].kind = kind /\ rec[s].tenant = t}
    IN  IF told = {} THEN "none" ELSE rec[Max(told)].status

\* Fact f is the change that membership record m made.
Applies(rec, f, m) == rec[f].kind = "fact" /\ rec[f].version = m

\* An approval filed in the tenant of the set it names, by one of its guardians.
NamesItsSet(r) ==
    /\ r.version \in DOMAIN Splits
    /\ Splits[r.version].tenant = r.tenant
    /\ r.by \in Splits[r.version].guardians

-----------------------------------------------------------------------------
(* The rule both apply: distinct authors, earliest-k, the k-th smallest seq *)

\* Each author's first approval.
LastOfEach(rec, A) == {s \in A : \A q \in A : rec[q].by = rec[s].by => s >= q}
FirstOfEach(rec, A) == {s \in A : \A q \in A : rec[q].by = rec[s].by => s <= q}

EarliestVersion(rec, A) == Min({rec[s].version : s \in A})

KthSmallest(A, k) == CHOOSE s \in A : Cardinality({q \in A : q <= s}) = k

\* The cut-off of approvals A under threshold k.
KthApproval(A, k) == IF Cardinality(A) >= k THEN KthSmallest(A, k) ELSE 0

\* The earlier of two cut-offs, where there is one.
Earlier(m, n) == IF m = 0 THEN n ELSE IF n = 0 THEN m ELSE Min({m, n})

Earliest(A) == IF A = {} THEN 0 ELSE Min(A)

-----------------------------------------------------------------------------
(* The server *)

\* rf.subject_held_at: with no fact there was no membership.
HeldNow(rec, known, t, n) == StatusBefore(rec, known, "fact", t, Len(rec) + 1) \notin {"none", "removed"}
HeldAt(rec, known, t, n) == StatusBefore(rec, known, "fact", t, n) \notin {"none", "removed"}

\* rf.revocation_approvals
Approvals(rec, known) ==
    {s \in ByGuardian(rec, known) : NamesItsSet(rec[s]) /\ HeldAt(rec, known, rec[s].tenant, s)}

\* rf.revocation_tally: k is that of the earliest version among the counted.
Tally(rec, known) ==
    LET per == FirstOfEach(rec, Approvals(rec, known))
    IN  IF per = {} THEN 0 ELSE KthApproval(per, K(EarliestVersion(rec, per)))

-----------------------------------------------------------------------------
(* A device of the subject *)

\* removedAt: with no fact the membership is taken as held.
RemovedAt(rec, known, t, n) == StatusBefore(rec, known, "membership", t, n) = "removed"

\* The guardian records that pass every check of countRevocation.
ValidWhoever(rec, trusted, known) == {s \in ByGuardian(rec, trusted) : NamesItsSet(rec[s])}
Valid(rec, trusted, known) ==
    {s \in ByGuardian(rec, trusted) : NamesItsSet(rec[s]) /\ ~RemovedAt(rec, known, rec[s].tenant, s)}

CountLatestVersion(rec, trusted, known) ==
    LET valid == Valid(rec, trusted, known)
        latest == {s \in valid : rec[s].version = Max({rec[q].version : q \in valid})}
        guardianSeq == IF valid = {} THEN 0
                       ELSE KthApproval(FirstOfEach(rec, latest), K(EarliestVersion(rec, latest)))
    IN  Earlier(Earliest(ByOwner(rec, trusted)), guardianSeq)
\* countRevocation over the trusted revocation records and the known
\* membership records: k is that of the earliest version of any valid record.
CountRevocation(rec, trusted, known) ==
    LET valid == Valid(rec, trusted, known)
        guardianSeq == IF valid = {} THEN 0
                       ELSE KthApproval(FirstOfEach(rec, valid), K(EarliestVersion(rec, valid)))
    IN  Earlier(Earliest(ByOwner(rec, trusted)), guardianSeq)
=============================================================================
