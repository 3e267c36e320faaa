-------------------------- MODULE RevocationProofs --------------------------
(***************************************************************************)
(* No complete count goes unapplied: while membership changes wait for the *)
(* approvals under way, the lock of rf.revocation_count is enough for the  *)
(* devices row to follow the tally, for every set of people, devices and   *)
(* guardian sets.                                                          *)
(*                                                                         *)
(* The cut-off of the guardians' approvals only moves earlier: whoever     *)
(* knows more approvals counts a k-th smallest seq that is no later, as    *)
(* long as no later guardian set asks for fewer of them than an earlier    *)
(* one.  Where a later set asks for fewer, the rule itself moves the       *)
(* cut-off later (revocation.dart, D-03b-6).                               *)
(***************************************************************************)
EXTENDS Revocation, FiniteSetTheorems, WellFoundedInduction, TLAPS

-----------------------------------------------------------------------------
(* What the tally depends on *)

\* A set of seqs that has a member has a largest one.
LEMMA MaxIsMember ==
    ASSUME NEW n \in Nat, NEW S \in SUBSET (0..n), S # {}
    PROVE  Max(S) \in S /\ \A y \in S : y <= Max(S)
<1> DEFINE distance == {d \in Nat : n - d \in S}
<1>1. \A s \in S : s \in Nat /\ n - s \in Nat /\ n - (n - s) = s
  OBVIOUS
<1>2. distance \subseteq Nat /\ distance # {}
  BY <1>1
<1>3. PICK m \in distance : \A d \in distance : ~(<<d, m>> \in OpToRel(<, Nat))
  BY <1>2, NatLessThanWellFounded, WFMin
<1>4. \A d \in distance : m <= d
  <2> TAKE d \in distance
  <2>1. <<d, m>> \in Nat \X Nat /\ <<d, m>>[1] = d /\ <<d, m>>[2] = m
    BY <1>2, <1>3
  <2>2. ~(d < m)
    BY <1>3, <2>1 DEF OpToRel
  <2> QED BY <2>1, <2>2
<1>5. n - m \in S /\ \A y \in S : n - m >= y
  <2>1. m \in Nat /\ n - m \in S
    BY <1>3
  <2>2. ASSUME NEW y \in S
        PROVE  n - m >= y
    <3>1. n - y \in distance
      BY <1>1
    <3>2. m <= n - y
      BY <1>4, <3>1
    <3> QED BY <1>1, <2>1, <3>2
  <2> QED BY <2>1, <2>2
<1> QED BY <1>5 DEF Max

\* Who knows k2 of log r2 knows all that one knows who knows k1 of r1.
KnowsMore(r1, k1, r2, k2) ==
    /\ r1 \in Seq(Record) /\ k1 \subseteq DOMAIN r1
    /\ r2 \in Seq(Record) /\ k2 \subseteq DOMAIN r2
    /\ k1 \subseteq k2 /\ \A s \in k1 : r1[s] = r2[s]

NoFactBefore(r, new, n) == \A f \in new : r[f].kind = "fact" => ~(f < n)

\* A reader who comes to know more, and no more facts before seq n, judges the
\* subject's membership before n as before.
LEMMA SameJudgment ==
    ASSUME NEW r1, NEW k1, NEW r2, NEW k2, NEW t, NEW n,
           KnowsMore(r1, k1, r2, k2), NoFactBefore(r2, k2 \ k1, n)
    PROVE  HeldAt(r1, k1, t, n) <=> HeldAt(r2, k2, t, n)
<1> USE DEF KnowsMore, NoFactBefore
<1> DEFINE told(r, k) == {s \in k : s < n /\ r[s].kind = "fact" /\ r[s].tenant = t}
<1>1. told(r1, k1) = told(r2, k2)
  OBVIOUS
<1>2. CASE told(r1, k1) = {}
  BY <1>1, <1>2 DEF HeldAt, StatusBefore
<1>3. CASE told(r1, k1) # {}
  <2>1. Len(r1) \in Nat /\ told(r1, k1) \in SUBSET (1..Len(r1))
    OBVIOUS
  <2>2. Max(told(r1, k1)) \in told(r1, k1)
    <3> HIDE DEF told
    <3> QED BY <1>3, <2>1, MaxIsMember
  <2>3. r1[Max(told(r1, k1))] = r2[Max(told(r1, k1))]
    BY <2>2
  <2> QED BY <1>1, <1>3, <2>3 DEF HeldAt, StatusBefore
<1> QED BY <1>2, <1>3

\* The tally depends on the approvals alone.
LEMMA SameApprovalsSameTally ==
    ASSUME NEW r1, NEW k1, NEW r2, NEW k2,
           Approvals(r1, k1) = Approvals(r2, k2),
           \A s \in Approvals(r1, k1) : r1[s] = r2[s]
    PROVE  Tally(r1, k1) = Tally(r2, k2)
<1>1. FirstOfEach(r1, Approvals(r1, k1)) = FirstOfEach(r2, Approvals(r2, k2))
  BY DEF FirstOfEach
<1> DEFINE per == FirstOfEach(r1, Approvals(r1, k1))
<1>2. \A s \in per : r1[s] = r2[s]
  BY DEF FirstOfEach
<1>3. {r1[s].version : s \in per} = {r2[s].version : s \in per}
  <2> HIDE DEF per
  <2> QED BY <1>2
<1>4. EarliestVersion(r1, per) = EarliestVersion(r2, per)
  <2> HIDE DEF per
  <2> QED BY <1>3 DEF EarliestVersion
<1> QED BY <1>1, <1>4 DEF Tally

\* What is newly known holds no approval, and no fact from before a revocation
\* record known already.
NothingToCount(r1, k1, r2, k2) ==
    /\ \A s \in Revocations(r1, k1) : NoFactBefore(r2, k2 \ k1, s)
    /\ \A s \in k2 \ k1 : s \notin Approvals(r2, k2)

\* Then the tally is what it was.
LEMMA SameTally ==
    ASSUME NEW r1, NEW k1, NEW r2, NEW k2,
           KnowsMore(r1, k1, r2, k2), NothingToCount(r1, k1, r2, k2)
    PROVE  Tally(r1, k1) = Tally(r2, k2)
<1> USE DEF KnowsMore, NothingToCount
<1>1. \A s \in ByGuardian(r1, k1) :
          HeldAt(r1, k1, r1[s].tenant, s) <=> HeldAt(r2, k2, r1[s].tenant, s)
  <2> TAKE s \in ByGuardian(r1, k1)
  <2>1. NoFactBefore(r2, k2 \ k1, s)
    BY DEF ByGuardian
  <2> HIDE DEF KnowsMore
  <2> QED BY <2>1, SameJudgment
<1>2. \A s \in k1 : s \in ByGuardian(r1, k1) <=> s \in ByGuardian(r2, k2)
  BY DEF ByGuardian, Revocations
<1>3. \A s \in k1 : s \in Approvals(r1, k1) <=> s \in Approvals(r2, k2)
  BY <1>1, <1>2 DEF Approvals, ByGuardian, Revocations
<1>4. Approvals(r1, k1) \subseteq k1 /\ Approvals(r2, k2) \subseteq k2
  BY DEF Approvals, ByGuardian, Revocations
<1>5. Approvals(r1, k1) = Approvals(r2, k2)
  BY <1>3, <1>4
<1>6. \A s \in Approvals(r1, k1) : r1[s] = r2[s]
  BY <1>4
<1> QED BY <1>5, <1>6, SameApprovalsSameTally

-----------------------------------------------------------------------------
(* The invariant *)

LogShape ==
    /\ rec \in Seq(Record) /\ open \subseteq Seqs
    /\ step \in [Author -> {"idle", "filed", "refused", "judged", "counted", "completes", "applied"}]
    /\ sets \in 0..Len(Splits)

\* An open record belongs to a transaction under way; only the admin's has two.
OneTransactionEach ==
    /\ \A s \in open : step[rec[s].by] # "idle"
    /\ \A s, q \in open : rec[s].by = rec[q].by /\ rec[s].by # Admin => s = q

\* Every other transaction files a revocation, and only the admin's applies.
OthersRevoke ==
    /\ \A s \in open : rec[s].by # Admin => rec[s].kind = "revocation"
    /\ \A a \in Author : step[a] = "applied" => a = Admin

\* The admin's transaction is alone, and what it files comes after every revocation.
AdminAlone ==
    \A s \in open : rec[s].by = Admin =>
        /\ \A q \in open : rec[q].by = Admin
        /\ rec[s].kind # "revocation"
        /\ \A q \in Revocations(rec, Seqs) : q < s

\* The advisory lock has one holder.
LockExclusive ==
    \A a, b \in Author :
        step[a] \in {"counted", "completes"} /\ step[b] \in {"counted", "completes"} => a = b

\* A refused record is no approval, whoever reads it.
RefusedIsNoApproval ==
    \A a \in Author : step[a] = "refused" =>
        \A s \in Mine(a) : rec[s].by \in Guardian =>
            ~(NamesItsSet(rec[s]) /\ HeldAt(rec, Committed, rec[s].tenant, s))

\* A count that fell short still falls short, for as long as the lock is held.
ShortCountStands ==
    \A a \in Author : step[a] = "counted" => Tally(rec, Committed \cup Mine(a)) = 0

TallyApplied == Tally(rec, Committed) # 0 => revoked

RevocationInv ==
    /\ LogShape /\ OneTransactionEach /\ OthersRevoke /\ AdminAlone /\ LockExclusive
    /\ RefusedIsNoApproval /\ ShortCountStands /\ TallyApplied

-----------------------------------------------------------------------------
(* What an entry appended to the log leaves alone *)

\* Appending to the log adds one seq, the last.
LEMMA Appended ==
    ASSUME NEW r \in Seq(Record), NEW x \in Record
    PROVE  /\ Append(r, x) \in Seq(Record)
           /\ Len(r) + 1 \notin DOMAIN r
           /\ DOMAIN Append(r, x) = DOMAIN r \cup {Len(r) + 1}
           /\ \A s \in DOMAIN r : s < Len(r) + 1 /\ Append(r, x)[s] = r[s]
           /\ Append(r, x)[Len(r) + 1] = x
  OBVIOUS

\* A longer log judges and counts as before, as long as no more of it is known.
LEMMA SameKnown ==
    ASSUME NEW r1, NEW r2, NEW k, KnowsMore(r1, k, r2, k)
    PROVE  /\ Tally(r1, k) = Tally(r2, k)
           /\ \A t, n : HeldAt(r1, k, t, n) <=> HeldAt(r2, k, t, n)
<1>1. NothingToCount(r1, k, r2, k) /\ \A n : NoFactBefore(r2, k \ k, n)
  BY DEF NothingToCount, NoFactBefore
<1>2. Tally(r1, k) = Tally(r2, k)
  BY <1>1, SameTally
<1>3. \A t, n : HeldAt(r1, k, t, n) <=> HeldAt(r2, k, t, n)
  BY <1>1, SameJudgment
<1> QED BY <1>2, <1>3


\* Who signs a record is a person of the model.
LEMMA AuthorOfRecord ==
    ASSUME NEW r \in Seq(Record), NEW s \in DOMAIN r
    PROVE  r[s].by \in Author
<1>1. r[s] \in Record
  OBVIOUS
<1> QED BY <1>1 DEF Record, Author

\* At the start only the facts of the subject's memberships are stamped.
LEMMA InitCounts == Init => RevocationInv
<1> SUFFICES ASSUME Init PROVE RevocationInv
  OBVIOUS
<1>1. rec \in Seq(Record) /\ \A s \in Seqs : rec[s].kind = "fact"
  <2>1. Cardinality(Joined) \in Nat
    BY TenantsAssumption, FS_CardinalityType
  <2>2. PICK order \in [1..Cardinality(Joined) -> Joined] :
            rec = [i \in DOMAIN order |->
                       [kind |-> "fact", by |-> Admin, tenant |-> order[i],
                        version |-> 0, status |-> "active"]]
    BY DEF Init
  <2>3. \A i \in DOMAIN order : order[i] \in Tenant
    BY TenantsAssumption
  <2>4. rec \in [1..Cardinality(Joined) -> Record]
    BY <2>2, <2>3 DEF Record, Status
  <2> QED BY <2>1, <2>2, <2>4 DEF Seqs
<1>2. LogShape
  BY <1>1, SplitsAreSets DEF Init, LogShape, Seqs
<1>3. Tally(rec, Committed) = 0
  <2>1. Approvals(rec, Committed) = {}
    BY <1>1 DEF Approvals, ByGuardian, Revocations, Committed
  <2> QED BY <2>1 DEF Tally, FirstOfEach
<1>4. OneTransactionEach /\ OthersRevoke /\ AdminAlone
  BY DEF Init, OneTransactionEach, OthersRevoke, AdminAlone
<1>5. LockExclusive /\ RefusedIsNoApproval /\ ShortCountStands
  BY DEF Init, LockExclusive, RefusedIsNoApproval, ShortCountStands
<1> QED BY <1>2, <1>3, <1>4, <1>5 DEF RevocationInv, TallyApplied

\* A step that leaves the log, the transactions and the devices row alone.
LEMMA SameLog ==
    ASSUME RevocationInv, UNCHANGED <<rec, open, step, revoked>>, sets' \in 0..Len(Splits)
    PROVE  RevocationInv'
<1>1. Seqs' = Seqs /\ Committed' = Committed /\ \A a \in Author : Mine(a)' = Mine(a)
  BY DEF Seqs, Committed, Mine
<1>2. LogShape' /\ OneTransactionEach' /\ OthersRevoke' /\ AdminAlone' /\ LockExclusive'
  BY <1>1 DEF RevocationInv, LogShape, OneTransactionEach, OthersRevoke, AdminAlone, LockExclusive
<1>3. RefusedIsNoApproval' /\ ShortCountStands' /\ TallyApplied'
  BY <1>1 DEF RevocationInv, RefusedIsNoApproval, ShortCountStands, TallyApplied
<1> QED BY <1>2, <1>3 DEF RevocationInv

-----------------------------------------------------------------------------
(* Each step of the server keeps the invariant *)

\* A record of a transaction under way, stamped at the end of the log, is not
\* committed: nothing is known that was not known before.
LEMMA OpenKeeps ==
    ASSUME RevocationInv, NEW x \in Record, NEW pc \in {"filed", "applied"},
           pc = "applied" => x.by = Admin, (x.by = Admin) <=> (x.kind # "revocation"),
           x.by # Admin => step[x.by] = "idle" /\ \A s \in open : rec[s].by # Admin,
           x.by = Admin => \A s \in open : rec[s].by = Admin,
           rec' = Append(rec, x), open' = open \cup {Len(rec) + 1},
           step' = [step EXCEPT ![x.by] = pc], UNCHANGED <<sets, revoked>>
    PROVE  RevocationInv'
<1> DEFINE new == Len(rec) + 1
           a == x.by
<1> USE DEF Seqs
<1>1. rec \in Seq(Record) /\ open \subseteq Seqs
  BY DEF RevocationInv, LogShape
<1>2. /\ a \in Author
      /\ rec' = Append(rec, x) /\ open' = open \cup {new}
      /\ step' = [step EXCEPT ![a] = pc] /\ UNCHANGED <<sets, revoked>>
  BY DEF Record, Author
<1>3. /\ rec' \in Seq(Record) /\ new \notin Seqs /\ Seqs' = Seqs \cup {new}
      /\ \A s \in Seqs : s < new /\ rec'[s] = rec[s]
      /\ rec'[new] = x
  BY <1>1, <1>2, Appended
<1>4. Committed' = Committed
  BY <1>1, <1>2, <1>3 DEF Committed
<1>5. x.by = a /\ (a # Admin => x.kind = "revocation") /\ (a = Admin => x.kind # "revocation")
  OBVIOUS
<1> HIDE DEF a
<1>6. step \in [Author -> {"idle", "filed", "refused", "judged", "counted", "completes", "applied"}]
  BY DEF RevocationInv, LogShape
<1>7. a # Admin => \A s \in open : rec[s].by # a
  BY <1>5 DEF RevocationInv, OneTransactionEach
<1>8. \A b \in Author \ {a} : step'[b] = step[b] /\ Mine(b)' = Mine(b)
  BY <1>1, <1>2, <1>3, <1>5, <1>6 DEF Mine
<1>9. step'[a] = pc
  BY <1>2, <1>6
<1>10. \A s \in open : (a = Admin) <=> (rec[s].by = Admin)
  BY <1>5
<1>11. LogShape'
  <2>1. open' \subseteq Seqs'
    BY <1>1, <1>2, <1>3
  <2>2. step' \in [Author -> {"idle", "filed", "refused", "judged", "counted", "completes", "applied"}]
    BY <1>2, <1>6
  <2>3. sets' \in 0..Len(Splits)
    BY <1>2 DEF RevocationInv, LogShape
  <2> QED BY <1>3, <2>1, <2>2, <2>3 DEF LogShape
<1>12. OneTransactionEach'
  <2>1. \A s \in open : rec'[s] = rec[s] /\ rec[s].by \in Author
    BY <1>1, <1>3, AuthorOfRecord
  <2>2. \A s \in open' : step'[rec'[s].by] # "idle"
    <3> TAKE s \in open'
    <3>1. CASE s = new
      BY <1>3, <1>5, <1>9, <3>1
    <3>2. CASE s \in open
      BY <1>8, <1>9, <2>1, <3>2 DEF RevocationInv, OneTransactionEach
    <3> QED BY <1>2, <3>1, <3>2
  <2>3. \A s, q \in open' : rec'[s].by = rec'[q].by /\ rec'[s].by # Admin => s = q
    <3> TAKE s, q \in open'
    <3>1. CASE s \in open /\ q \in open
      BY <2>1, <3>1 DEF RevocationInv, OneTransactionEach
    <3>2. CASE s = new \/ q = new
      BY <1>2, <1>3, <1>5, <1>7, <2>1, <3>2
    <3> QED BY <1>2, <3>1, <3>2
  <2> QED BY <2>2, <2>3 DEF OneTransactionEach
<1>13. OthersRevoke'
  <2>1. \A s \in open' : rec'[s].by # Admin => rec'[s].kind = "revocation"
    BY <1>1, <1>2, <1>3, <1>5 DEF RevocationInv, OthersRevoke
  <2>2. \A b \in Author : step'[b] = "applied" => b = Admin
    BY <1>5, <1>8, <1>9 DEF RevocationInv, OthersRevoke
  <2> QED BY <2>1, <2>2 DEF OthersRevoke
<1>14. AdminAlone'
  <2>1. CASE a = Admin
    <3>1. Revocations(rec, Seqs)' = Revocations(rec, Seqs)
      BY <1>3, <1>5, <2>1 DEF Revocations
    <3>2. \A q \in Revocations(rec, Seqs) : q < new
      BY <1>3 DEF Revocations
    <3>3. \A q \in open' : rec'[q].by = Admin
      BY <1>1, <1>2, <1>3, <1>5, <1>10, <2>1
    <3>4. \A s \in open : rec'[s].kind # "revocation" /\ \A q \in Revocations(rec, Seqs) : q < s
      BY <1>1, <1>3, <1>10, <2>1 DEF RevocationInv, AdminAlone
    <3> QED BY <1>2, <1>3, <1>5, <2>1, <3>1, <3>2, <3>3, <3>4 DEF AdminAlone
  <2>2. CASE a # Admin
    <3>1. \A s \in open' : rec'[s].by # Admin
      BY <1>1, <1>2, <1>3, <1>5, <1>10, <2>2
    <3> QED BY <3>1 DEF AdminAlone
  <2> QED BY <2>1, <2>2
<1>15. LockExclusive'
  BY <1>8, <1>9 DEF RevocationInv, LockExclusive
<1>16. \A k \in SUBSET DOMAIN rec : KnowsMore(rec, k, rec', k)
  BY <1>1, <1>3 DEF KnowsMore
<1>17. /\ Tally(rec', Committed) = Tally(rec, Committed)
       /\ \A u, n : HeldAt(rec', Committed, u, n) <=> HeldAt(rec, Committed, u, n)
  <2>1. KnowsMore(rec, Committed, rec', Committed)
    BY <1>16 DEF Committed
  <2> QED BY <2>1, SameKnown
<1>18. RefusedIsNoApproval'
  <2> SUFFICES ASSUME NEW b \in Author, step'[b] = "refused", NEW s \in Mine(b)',
                      rec'[s].by \in Guardian
               PROVE  ~(NamesItsSet(rec'[s]) /\ HeldAt(rec', Committed', rec'[s].tenant, s))
    BY DEF RefusedIsNoApproval
  <2>1. b # a
    BY <1>9
  <2>2. s \in Mine(b) /\ step[b] = "refused"
    BY <1>8, <2>1
  <2>3. rec'[s] = rec[s]
    BY <1>1, <1>3, <2>2 DEF Mine
  <2>4. ~(NamesItsSet(rec[s]) /\ HeldAt(rec, Committed, rec[s].tenant, s))
    BY <2>2, <2>3 DEF RevocationInv, RefusedIsNoApproval
  <2> QED BY <1>4, <1>17, <2>3, <2>4
<1>19. ShortCountStands'
  <2> SUFFICES ASSUME NEW b \in Author, step'[b] = "counted"
               PROVE  Tally(rec', Committed' \cup Mine(b)') = 0
    BY DEF ShortCountStands
  <2>1. b # a
    BY <1>9
  <2>2. Tally(rec, Committed \cup Mine(b)) = 0
    BY <1>8, <2>1 DEF RevocationInv, ShortCountStands
  <2>3. Committed \cup Mine(b) \in SUBSET DOMAIN rec
    BY <1>1 DEF Committed, Mine
  <2>4. KnowsMore(rec, Committed \cup Mine(b), rec', Committed \cup Mine(b))
    BY <1>16, <2>3
  <2>5. Tally(rec', Committed \cup Mine(b)) = Tally(rec, Committed \cup Mine(b))
    BY <2>4, SameKnown
  <2> QED BY <1>4, <1>8, <2>1, <2>2, <2>5
<1>20. TallyApplied'
  BY <1>2, <1>4, <1>17 DEF RevocationInv, TallyApplied
<1> QED BY <1>11, <1>12, <1>13, <1>14, <1>15, <1>18, <1>19, <1>20 DEF RevocationInv

\* Knowing one more entry, no revocation, stamped after all that is known leaves
\* the tally.
LEMMA StampSameTally ==
    ASSUME NEW r \in Seq(Record), NEW x \in Record, x.kind # "revocation", NEW k \in SUBSET DOMAIN r
    PROVE  Tally(Append(r, x), k \cup {Len(r) + 1}) = Tally(r, k)
<1> DEFINE r2 == Append(r, x)
           new == Len(r) + 1
           k2 == k \cup {new}
<1>1. /\ r2 \in Seq(Record) /\ new \notin DOMAIN r /\ DOMAIN r2 = DOMAIN r \cup {new}
      /\ \A s \in DOMAIN r : s < new /\ r2[s] = r[s]
      /\ r2[new] = x
  BY Appended
<1> HIDE DEF r2, new
<1>2. KnowsMore(r, k, r2, k2)
  BY <1>1 DEF KnowsMore
<1>3. \A s \in Revocations(r, k) : NoFactBefore(r2, k2 \ k, s)
  BY <1>1 DEF Revocations, NoFactBefore
<1>4. \A s \in k2 \ k : s \notin Approvals(r2, k2)
  BY <1>1 DEF Approvals, ByGuardian, Revocations
<1> HIDE DEF k2
<1>5. NothingToCount(r, k, r2, k2)
  BY <1>3, <1>4 DEF NothingToCount
<1>6. Tally(r, k) = Tally(r2, k2)
  BY <1>2, <1>5, SameTally
<1> QED BY <1>6 DEF r2, new, k2

\* A record by one of the server's other callers is committed as it is stamped:
\* it is no revocation, and comes after every one.
LEMMA StampKeeps ==
    ASSUME RevocationInv, NEW x \in Record, x.kind # "revocation",
           rec' = Append(rec, x), UNCHANGED <<open, step, sets, revoked>>
    PROVE  RevocationInv'
<1> DEFINE new == Len(rec) + 1
<1> USE DEF Seqs
<1>1. /\ rec \in Seq(Record) /\ open \subseteq Seqs
      /\ step \in [Author -> {"idle", "filed", "refused", "judged", "counted", "completes", "applied"}]
  BY DEF RevocationInv, LogShape
<1>2. /\ rec' \in Seq(Record) /\ new \notin Seqs /\ Seqs' = Seqs \cup {new}
      /\ \A s \in Seqs : s < new /\ rec'[s] = rec[s]
      /\ rec'[new] = x
  BY <1>1, Appended
<1>3. Committed' = Committed \cup {new} /\ \A b \in Author : Mine(b)' = Mine(b)
  BY <1>1, <1>2 DEF Committed, Mine
<1>4. \A s \in open : rec'[s] = rec[s]
  BY <1>1, <1>2
<1>5. LogShape'
  BY <1>1, <1>2 DEF RevocationInv, LogShape
<1>6. OneTransactionEach' /\ OthersRevoke' /\ LockExclusive'
  <2>1. OneTransactionEach'
    <3>1. open' = open /\ step' = step
      OBVIOUS
    <3>2. \A s \in open' : step'[rec'[s].by] # "idle"
      BY <1>4, <3>1 DEF RevocationInv, OneTransactionEach
    <3>3. \A s, q \in open : rec[s].by = rec[q].by /\ rec[s].by # Admin => s = q
      BY DEF RevocationInv, OneTransactionEach
    <3>4. \A s, q \in open' : rec'[s].by = rec'[q].by /\ rec'[s].by # Admin => s = q
      <4> TAKE s, q \in open'
      <4>1. rec'[s] = rec[s] /\ rec'[q] = rec[q] /\ s \in open /\ q \in open
        BY <1>4, <3>1
      <4> QED BY <4>1, <3>3
    <3> QED BY <3>2, <3>4 DEF OneTransactionEach
  <2>2. OthersRevoke'
    <3>1. open' = open /\ step' = step
      OBVIOUS
    <3>2. OthersRevoke
      BY DEF RevocationInv
    <3>3. \A s \in open' : rec'[s].by # Admin => rec'[s].kind = "revocation"
      BY <1>4, <3>1, <3>2 DEF OthersRevoke
    <3>4. \A a \in Author : step'[a] = "applied" => a = Admin
      BY <3>1, <3>2 DEF OthersRevoke
    <3> QED BY <3>3, <3>4 DEF OthersRevoke
  <2>3. LockExclusive'
    BY DEF RevocationInv, LockExclusive
  <2> QED BY <2>1, <2>2, <2>3
<1>7. AdminAlone'
  <2>1. Revocations(rec, Seqs)' = Revocations(rec, Seqs)
    BY <1>2 DEF Revocations
  <2> QED BY <1>4, <2>1 DEF RevocationInv, AdminAlone
<1>8. \A k \in SUBSET DOMAIN rec : Tally(rec', k \cup {new}) = Tally(rec, k)
  BY <1>1, StampSameTally
<1>9. RefusedIsNoApproval'
  <2> SUFFICES ASSUME NEW b \in Author, step[b] = "refused", NEW s \in Mine(b),
                      rec'[s].by \in Guardian
               PROVE  ~(NamesItsSet(rec'[s]) /\ HeldAt(rec', Committed', rec'[s].tenant, s))
    BY <1>3 DEF RefusedIsNoApproval
  <2>1. s \in Seqs /\ rec'[s] = rec[s]
    BY <1>1, <1>2 DEF Mine
  <2>2. ~(NamesItsSet(rec[s]) /\ HeldAt(rec, Committed, rec[s].tenant, s))
    BY <2>1 DEF RevocationInv, RefusedIsNoApproval
  <2>3. HeldAt(rec, Committed, rec[s].tenant, s) <=> HeldAt(rec', Committed', rec[s].tenant, s)
    <3>1. KnowsMore(rec, Committed, rec', Committed')
      BY <1>1, <1>2, <1>3 DEF KnowsMore, Committed
    <3>2. NoFactBefore(rec', Committed' \ Committed, s)
      BY <1>2, <1>3, <2>1 DEF NoFactBefore
    <3> QED BY <3>1, <3>2, SameJudgment
  <2> QED BY <2>1, <2>2, <2>3
<1>10. ShortCountStands'
  <2> SUFFICES ASSUME NEW b \in Author, step[b] = "counted"
               PROVE  Tally(rec', Committed' \cup Mine(b)) = 0
    BY <1>3 DEF ShortCountStands
  <2>1. Committed \cup Mine(b) \in SUBSET DOMAIN rec
    BY <1>1 DEF Committed, Mine
  <2>2. Tally(rec', (Committed \cup Mine(b)) \cup {new}) = Tally(rec, Committed \cup Mine(b))
    BY <1>8, <2>1
  <2>3. Committed' \cup Mine(b) = (Committed \cup Mine(b)) \cup {new}
    BY <1>3
  <2> QED BY <2>2, <2>3 DEF RevocationInv, ShortCountStands
<1>11. TallyApplied'
  <2>1. Committed \in SUBSET DOMAIN rec
    BY DEF Committed
  <2> QED BY <1>3, <1>8, <2>1 DEF RevocationInv, TallyApplied
<1> QED BY <1>5, <1>6, <1>7, <1>9, <1>10, <1>11 DEF RevocationInv

\* A transaction's progress that leaves the log as it is: only what is said of
\* its own step needs to be looked at.
LEMMA AdvanceKeeps ==
    ASSUME RevocationInv, NEW a \in Author, NEW pc \in {"refused", "judged", "counted", "completes"},
           step' = [step EXCEPT ![a] = pc], UNCHANGED <<rec, open, sets, revoked>>,
           pc = "refused" => \A s \in Mine(a) : rec[s].by \in Guardian =>
               ~(NamesItsSet(rec[s]) /\ HeldAt(rec, Committed, rec[s].tenant, s)),
           pc \in {"counted", "completes"} => ~LockHeld,
           pc = "counted" => Tally(rec, Committed \cup Mine(a)) = 0
    PROVE  RevocationInv'
<1>1. /\ step \in [Author -> {"idle", "filed", "refused", "judged", "counted", "completes", "applied"}]
      /\ rec \in Seq(Record) /\ open \subseteq DOMAIN rec
  BY DEF RevocationInv, LogShape, Seqs
<1>2. step'[a] = pc /\ \A b \in Author \ {a} : step'[b] = step[b]
  BY <1>1
<1>3. Seqs' = Seqs /\ Committed' = Committed /\ \A b \in Author : Mine(b)' = Mine(b)
  BY DEF Seqs, Committed, Mine
<1>4. \A s \in open : rec[s].by \in Author
  BY <1>1, AuthorOfRecord
<1>5. LogShape' /\ AdminAlone'
  BY <1>1, <1>3 DEF RevocationInv, LogShape, AdminAlone
<1>6. OneTransactionEach'
  BY <1>2, <1>4 DEF RevocationInv, OneTransactionEach
<1>7. OthersRevoke'
  BY <1>2 DEF RevocationInv, OthersRevoke
<1>8. LockExclusive'
  BY <1>2 DEF RevocationInv, LockExclusive, LockHeld
<1>9. RefusedIsNoApproval'
  BY <1>2, <1>3 DEF RevocationInv, RefusedIsNoApproval
<1>10. ShortCountStands' /\ TallyApplied'
  BY <1>2, <1>3 DEF RevocationInv, ShortCountStands, TallyApplied
<1> QED BY <1>5, <1>6, <1>7, <1>8, <1>9, <1>10 DEF RevocationInv

\* A caller who may not revoke is refused; the record it filed is its only one.
LEMMA JudgeKeeps ==
    ASSUME RevocationInv, NEW a \in Author, Judge(a)
    PROVE  RevocationInv'
<1>1. PICK s \in Mine(a) :
          /\ a # Admin
          /\ step' = [step EXCEPT ![a] = IF MayRevoke(a, s) THEN "judged" ELSE "refused"]
          /\ UNCHANGED <<rec, open, sets, revoked>>
  BY DEF Judge
<1>2. \A q \in Mine(a) : q = s
  BY <1>1 DEF Mine, RevocationInv, OneTransactionEach
<1>3. ~MayRevoke(a, s) => \A q \in Mine(a) : rec[q].by \in Guardian =>
          ~(NamesItsSet(rec[q]) /\ HeldAt(rec, Committed, rec[q].tenant, q))
  BY <1>2, PeopleAreDistinct DEF MayRevoke, Mine
<1> QED BY <1>1, <1>3, AdvanceKeeps

\* The lock is taken, and a count that completes is not let go unapplied.
LEMMA CountKeeps ==
    ASSUME RevocationInv, NEW a \in Author, Count(a)
    PROVE  RevocationInv'
<1> DEFINE complete == a = Owner \/ Tally(rec, Committed \cup Mine(a)) # 0
<1>1. /\ step' = [step EXCEPT ![a] = IF complete THEN "completes" ELSE "counted"]
      /\ ~LockHeld /\ UNCHANGED <<rec, open, sets, revoked>>
  BY DEF Count
<1>2. ~complete => Tally(rec, Committed \cup Mine(a)) = 0
  OBVIOUS
<1> HIDE DEF complete
<1> QED BY <1>1, <1>2, AdvanceKeeps

\* What a transaction that is not of a completed count commits changes no tally.
LEMMA CommitSameTally ==
    ASSUME RevocationInv, NEW a \in Author, a = Admin \/ step[a] = "refused",
           NEW k \in SUBSET DOMAIN rec, Committed \subseteq k
    PROVE  Tally(rec, k \cup Mine(a)) = Tally(rec, k)
<1>1. rec \in Seq(Record) /\ open \subseteq DOMAIN rec /\ Mine(a) \subseteq open
  BY DEF RevocationInv, LogShape, Mine, Seqs
<1>2. ASSUME NEW f \in Mine(a), rec[f].kind = "fact", NEW s \in Revocations(rec, k)
      PROVE  s < f
  <2>1. rec[f].by = Admin
    BY <1>1, <1>2 DEF RevocationInv, OthersRevoke
  <2>2. s \in Revocations(rec, Seqs)
    BY DEF Revocations, Seqs
  <2> QED BY <1>1, <2>1, <2>2 DEF RevocationInv, AdminAlone
<1>3. ASSUME NEW s \in Mine(a)
      PROVE  s \notin Approvals(rec, k \cup Mine(a))
  <2>1. s \in open /\ rec[s].by = a
    BY DEF Mine
  <2>2. CASE a = Admin
    BY <2>1, <2>2, PeopleAreDistinct DEF Approvals, ByGuardian
  <2>3. CASE a # Admin /\ rec[s].by \in Guardian
    <3>1. \A f \in open : rec[f].kind = "revocation"
      BY <2>1, <2>3 DEF RevocationInv, OthersRevoke, AdminAlone
    <3>2. NoFactBefore(rec, (k \cup Mine(a)) \ Committed, s)
      BY <1>1, <3>1 DEF Committed, Seqs, NoFactBefore
    <3>3. ~(NamesItsSet(rec[s]) /\ HeldAt(rec, Committed, rec[s].tenant, s))
      BY <2>3 DEF RevocationInv, RefusedIsNoApproval
    <3>4. KnowsMore(rec, Committed, rec, k \cup Mine(a))
      BY <1>1 DEF Committed, Seqs, KnowsMore
    <3>5. HeldAt(rec, Committed, rec[s].tenant, s) <=> HeldAt(rec, k \cup Mine(a), rec[s].tenant, s)
      BY <3>2, <3>4, SameJudgment
    <3> QED BY <3>3, <3>5 DEF Approvals
  <2>4. CASE rec[s].by \notin Guardian
    BY <2>4 DEF Approvals, ByGuardian
  <2> QED BY <2>1, <2>2, <2>3, <2>4
<1>4. KnowsMore(rec, k, rec, k \cup Mine(a))
  BY <1>1 DEF KnowsMore
<1>5. \A s \in Revocations(rec, k) : NoFactBefore(rec, (k \cup Mine(a)) \ k, s)
  BY <1>1, <1>2 DEF NoFactBefore, Revocations
<1>6. NothingToCount(rec, k, rec, k \cup Mine(a))
  BY <1>3, <1>5 DEF NothingToCount
<1> QED BY <1>4, <1>6, SameTally

\* The end of a transaction: its records are known, and its author is idle again.
LEMMA CommitKeeps ==
    ASSUME RevocationInv, NEW a \in Author, Commit(a)
    PROVE  RevocationInv'
<1> USE DEF Seqs
<1>1. /\ rec \in Seq(Record) /\ open \subseteq Seqs
      /\ step \in [Author -> {"idle", "filed", "refused", "judged", "counted", "completes", "applied"}]
  BY DEF RevocationInv, LogShape
<1>2. /\ step[a] \in {"refused", "counted", "completes", "applied"}
      /\ open' = open \ Mine(a) /\ step' = [step EXCEPT ![a] = "idle"]
      /\ revoked' = (revoked \/ step[a] = "completes") /\ UNCHANGED <<rec, sets>>
  BY DEF Commit
<1>3. step'[a] = "idle" /\ \A b \in Author \ {a} : step'[b] = step[b] /\ Mine(b)' = Mine(b)
  BY <1>1, <1>2 DEF Mine
<1>4. Committed' = Committed \cup Mine(a)
  BY <1>1, <1>2 DEF Committed, Mine
<1>5. \A s \in open : rec[s].by \in Author
  BY <1>1, AuthorOfRecord
<1>6. \A s \in open' : s \in open /\ rec[s].by # a
  BY <1>2 DEF Mine
<1>7. LogShape' /\ AdminAlone'
  BY <1>1, <1>2, <1>6 DEF RevocationInv, LogShape, AdminAlone
<1>8. OneTransactionEach'
  BY <1>2, <1>3, <1>5, <1>6 DEF RevocationInv, OneTransactionEach
<1>9. OthersRevoke' /\ LockExclusive'
  BY <1>2, <1>3, <1>6 DEF RevocationInv, OthersRevoke, LockExclusive
<1>10. Committed \in SUBSET DOMAIN rec
  BY DEF Committed
<1>11. RefusedIsNoApproval'
  <2> SUFFICES ASSUME NEW b \in Author, step'[b] = "refused", NEW s \in Mine(b)',
                      rec[s].by \in Guardian
               PROVE  ~(NamesItsSet(rec[s]) /\ HeldAt(rec, Committed', rec[s].tenant, s))
    BY <1>2 DEF RefusedIsNoApproval
  <2>1. b # a /\ s \in Mine(b) /\ step[b] = "refused"
    BY <1>3
  <2>2. ~(NamesItsSet(rec[s]) /\ HeldAt(rec, Committed, rec[s].tenant, s))
    BY <2>1 DEF RevocationInv, RefusedIsNoApproval
  <2>3. s \in open /\ rec[s].by # Admin
    BY <2>1, PeopleAreDistinct DEF Mine
  <2>4. \A f \in open : rec[f].kind = "revocation"
    BY <2>3 DEF RevocationInv, OthersRevoke, AdminAlone
  <2>5. NoFactBefore(rec, Committed' \ Committed, s)
    BY <1>4, <2>4 DEF NoFactBefore, Mine
  <2>6. KnowsMore(rec, Committed, rec, Committed')
    BY <1>1, <1>4 DEF KnowsMore, Committed, Mine
  <2> QED BY <2>2, <2>5, <2>6, SameJudgment
<1>12. a = Admin \/ step[a] = "refused" \/ step[a] \in {"counted", "completes"}
  BY <1>2 DEF RevocationInv, OthersRevoke
<1>13. ShortCountStands'
  <2> SUFFICES ASSUME NEW b \in Author, step'[b] = "counted"
               PROVE  Tally(rec, Committed' \cup Mine(b)') = 0
    BY <1>2 DEF ShortCountStands
  <2>1. b # a /\ step[b] = "counted" /\ Mine(b)' = Mine(b)
    BY <1>3
  <2>2. Tally(rec, Committed \cup Mine(b)) = 0
    BY <2>1 DEF RevocationInv, ShortCountStands
  <2>3. a = Admin \/ step[a] = "refused"
    BY <1>12, <2>1 DEF RevocationInv, LockExclusive
  <2>4. Committed \cup Mine(b) \in SUBSET DOMAIN rec
    BY <1>1, <1>10 DEF Mine
  <2>5. Tally(rec, (Committed \cup Mine(b)) \cup Mine(a)) = Tally(rec, Committed \cup Mine(b))
    BY <2>3, <2>4, CommitSameTally
  <2>6. Committed' \cup Mine(b)' = (Committed \cup Mine(b)) \cup Mine(a)
    BY <1>4, <2>1
  <2> QED BY <2>2, <2>5, <2>6
<1>14. TallyApplied'
  <2>1. CASE step[a] = "completes"
    BY <1>2, <2>1 DEF TallyApplied
  <2>2. CASE step[a] = "counted"
    <3>1. Tally(rec, Committed \cup Mine(a)) = 0
      BY <2>2 DEF RevocationInv, ShortCountStands
    <3> QED BY <1>2, <1>4, <3>1 DEF TallyApplied
  <2>3. CASE a = Admin \/ step[a] = "refused"
    <3>1. Tally(rec, Committed \cup Mine(a)) = Tally(rec, Committed)
      BY <1>10, <2>3, CommitSameTally
    <3> QED BY <1>2, <1>4, <3>1 DEF RevocationInv, TallyApplied
  <2> QED BY <1>12, <2>1, <2>2, <2>3
<1> QED BY <1>7, <1>8, <1>9, <1>11, <1>13, <1>14 DEF RevocationInv

\* A transaction begins alone or beside others of Together, and the admin is not
\* one of those.
LEMMA FileKeeps ==
    ASSUME RevocationInv, Admin \notin Together, NEW a \in Author,
           NEW kind \in {"revocation", "membership"}, (a = Admin) <=> (kind = "membership"),
           NEW t \in Tenant, NEW v \in Nat, NEW st \in Status, File(kind, a, t, v, st)
    PROVE  RevocationInv'
<1> DEFINE x == [kind |-> kind, by |-> a, tenant |-> t, version |-> v, status |-> st]
<1>1. x \in Record /\ x.by = a /\ x.kind = kind
  BY DEF Record, Author
<1>2. /\ step[a] = "idle" /\ MayBegin(a)
      /\ rec' = Append(rec, x) /\ open' = open \cup {Len(rec) + 1}
      /\ step' = [step EXCEPT ![a] = "filed"] /\ UNCHANGED <<sets, revoked>>
  BY DEF File, Stamped
<1>3. (a # Admin => \A s \in open : rec[s].by # Admin) /\ (a = Admin => open = {})
  BY <1>2 DEF MayBegin
<1> HIDE DEF x
<1> QED BY <1>1, <1>2, <1>3, OpenKeeps

\* What the admin's transaction applies comes after every revocation.
LEMMA ApplyKeeps ==
    ASSUME RevocationInv, ApplyMembership
    PROVE  RevocationInv'
<1>1. PICK s \in Mine(Admin) :
          /\ rec' = Append(rec, [kind |-> "fact", by |-> Admin, tenant |-> rec[s].tenant,
                                 version |-> s, status |-> rec[s].status])
          /\ open' = open \cup {Len(rec) + 1}
          /\ step' = [step EXCEPT ![Admin] = "applied"] /\ UNCHANGED <<sets, revoked>>
  BY DEF ApplyMembership, Stamped
<1> DEFINE x == [kind |-> "fact", by |-> Admin, tenant |-> rec[s].tenant,
                 version |-> s, status |-> rec[s].status]
<1>2. s \in open /\ rec[s].by = Admin
  BY DEF Mine
<1>3. rec[s] \in Record /\ s \in Nat
  BY <1>2 DEF RevocationInv, LogShape, Seqs
<1>4. x \in Record /\ x.by = Admin /\ x.kind = "fact"
  BY <1>3 DEF Record
<1>5. \A q \in open : rec[q].by = Admin
  BY <1>2 DEF RevocationInv, AdminAlone
<1>6. rec' = Append(rec, x)
  BY <1>1
<1> HIDE DEF x
<1> QED BY <1>1, <1>4, <1>5, <1>6, OpenKeeps

-----------------------------------------------------------------------------
(* What a step stamps *)

\* A change of the memberships row, at seq n, cites an earlier record of the same
\* tenant that tells the same status, or none.
Cites(x, n) ==
    x.version # 0 =>
        /\ x.version \in Seqs /\ x.version < n /\ rec[x.version].kind = "membership"
        /\ rec[x.version].tenant = x.tenant /\ rec[x.version].status = x.status

\* What the entries tell is a status.
LEMMA StatusOfLog ==
    ASSUME LogShape, NEW k \in SUBSET Seqs, NEW kind, NEW t, NEW n
    PROVE  StatusBefore(rec, k, kind, t, n) \in Status
<1> DEFINE S == {s \in k : s < n /\ rec[s].kind = kind /\ rec[s].tenant = t}
<1>1. rec \in Seq(Record) /\ S \in SUBSET (0..Len(rec)) /\ Len(rec) \in Nat /\ S \subseteq DOMAIN rec
  BY DEF LogShape, Seqs
<1>2. StatusBefore(rec, k, kind, t, n) = IF S = {} THEN "none" ELSE rec[Max(S)].status
  BY DEF StatusBefore
<1> HIDE DEF S
<1>3. S # {} => Max(S) \in S
  BY <1>1, MaxIsMember
<1>4. S # {} => rec[Max(S)] \in Record
  BY <1>1, <1>3
<1> QED BY <1>2, <1>4 DEF Record, Status

LEMMA EdgesAreStatuses == \A st \in Status : Edges[st] \subseteq Status \ {"none"}
BY DEF Edges, Status

\* An entry that is committed as it is stamped: an envelope, a membership record
\* that is refused, or a change of the memberships row.
Stamping(x) ==
    /\ x \in Record /\ rec' = Append(rec, x)
    /\ UNCHANGED <<open, step, sets, revoked, deviceVars>>
    /\ \/ x.kind = "envelope"
       \/ x.kind = "membership" /\ x.by # Admin /\ x.status # "none"
       \/ x.kind = "fact" /\ open = {} /\ x.status # "none" /\ Cites(x, Len(rec) + 1)

LEMMA StampingMoves ==
    ASSUME LogShape, RefuseMembership \/ Reapply \/ AcceptInvite \/ ExpireInvites \/ Verify \/ PushEnvelope
    PROVE  \E x \in Record : Stamping(x)
<1> DEFINE entry(kind, a, t, v, st) ==
               [kind |-> kind, by |-> a, tenant |-> t, version |-> v, status |-> st]
<1>1. CASE RefuseMembership
  <2>1. PICK t \in Changes, a \in Author \ {Admin}, st \in Recorded :
            rec' = Stamped("membership", a, t, 0, st)
    BY <1>1 DEF RefuseMembership
  <2> DEFINE x == entry("membership", a, t, 0, st)
  <2>2. /\ x \in Record /\ x.kind = "membership" /\ x.by # Admin /\ x.status # "none"
        /\ Stamped("membership", a, t, 0, st) = Append(rec, x)
    BY TenantsAssumption, RecordedAssumption DEF Record, Author, Stamped
  <2> HIDE DEF x
  <2>3. Stamping(x)
    BY <1>1, <2>1, <2>2 DEF Stamping, RefuseMembership
  <2> QED BY <2>2, <2>3
<1>2. ASSUME NEW t \in Tenant, NEW s \in Nat, NEW st \in Status \ {"none"}, ChangeMembership(t, s, st),
             s # 0 => /\ s \in Seqs /\ rec[s].kind = "membership" /\ rec[s].by = Admin
                      /\ rec[s].tenant = t /\ rec[s].status = st
      PROVE  \E x \in Record : Stamping(x)
  <2> DEFINE x == entry("fact", Admin, t, s, st)
  <2>1. /\ x \in Record /\ x.kind = "fact" /\ x.status = st /\ x.tenant = t /\ x.version = s
        /\ Stamped("fact", Admin, t, s, st) = Append(rec, x)
    BY DEF Record, Stamped
  <2> HIDE DEF x
  <2>2. \A q \in Seqs : q < Len(rec) + 1
    BY DEF LogShape, Seqs
  <2>3. Cites(x, Len(rec) + 1)
    BY <1>2, <2>1, <2>2 DEF Cites
  <2>4. Stamping(x)
    BY <1>2, <2>1, <2>3 DEF Stamping, ChangeMembership
  <2> QED BY <2>1, <2>4
<1>3. CASE Reapply
  <2>1. PICK s \in Committed : Denied(s) /\ ChangeMembership(rec[s].tenant, s, rec[s].status)
    BY <1>3 DEF Reapply
  <2>2. s \in Seqs /\ s \in Nat /\ rec[s] \in Record
    BY DEF Committed, LogShape, Seqs
  <2>3. rec[s].tenant \in Tenant /\ rec[s].status \in Status
    BY <2>2 DEF Record
  <2>4. rec[s].status # "none"
    <3> DEFINE st == StatusBefore(rec, Committed, "fact", rec[s].tenant, s)
    <3>1. st \in Status
      BY StatusOfLog DEF Committed
    <3>2. rec[s].status \in Edges[st]
      BY <2>1 DEF Denied
    <3> HIDE DEF st
    <3> QED BY <3>1, <3>2, EdgesAreStatuses
  <2> QED BY <1>2, <2>1, <2>2, <2>3, <2>4 DEF Denied
<1>4. CASE AcceptInvite \/ ExpireInvites \/ Verify
  <2>1. PICK t \in Changes, st \in {"joined", "removed", "active", "blocked"} : ChangeMembership(t, 0, st)
    BY <1>4 DEF AcceptInvite, ExpireInvites, Verify
  <2>2. t \in Tenant /\ st \in Status \ {"none"}
    BY TenantsAssumption DEF Status
  <2> QED BY <1>2, <2>1, <2>2
<1>5. CASE PushEnvelope
  <2>1. PICK t \in Joined : rec' = Stamped("envelope", Owner, t, 0, "none")
    BY <1>5 DEF PushEnvelope
  <2> DEFINE x == entry("envelope", Owner, t, 0, "none")
  <2>2. /\ x \in Record /\ x.kind = "envelope"
        /\ Stamped("envelope", Owner, t, 0, "none") = Append(rec, x)
    BY TenantsAssumption DEF Record, Status, Stamped
  <2> HIDE DEF x
  <2>3. Stamping(x)
    BY <1>5, <2>1, <2>2 DEF Stamping, PushEnvelope
  <2> QED BY <2>2, <2>3
<1> QED BY <1>1, <1>3, <1>4, <1>5

-----------------------------------------------------------------------------
(* The theorem *)

\* Every step of the server, and of a device, keeps the invariant.
LEMMA NextKeeps ==
    ASSUME RevocationInv, Admin \notin Together, [Next]_vars
    PROVE  RevocationInv'
<1>1. sets \in 0..Len(Splits) /\ Len(Splits) \in Nat
  BY SplitsAreSets DEF RevocationInv, LogShape
<1>2. CASE \E g \in Guardian : FileApproval(g)
  <2>1. PICK g \in Guardian, t \in Tenant, v \in 1..sets : File("revocation", g, t, v, "none")
    BY <1>2 DEF FileApproval
  <2>2. g \in Author /\ g # Admin /\ v \in Nat /\ "none" \in Status
    BY <1>1, PeopleAreDistinct DEF Author, Status
  <2> QED BY <2>1, <2>2, FileKeeps
<1>3. CASE FileOwners
  <2>1. PICK t \in Tenant : File("revocation", Owner, t, 0, "none")
    BY <1>3 DEF FileOwners
  <2>2. Owner \in Author /\ Owner # Admin /\ "none" \in Status
    BY PeopleAreDistinct DEF Author, Status
  <2> QED BY <2>1, <2>2, FileKeeps
<1>4. CASE FileMembership
  <2>1. PICK t \in Tenant, st \in Status : File("membership", Admin, t, 0, st)
    BY <1>4, TenantsAssumption, RecordedAssumption DEF FileMembership
  <2>2. Admin \in Author
    BY DEF Author
  <2> QED BY <2>1, <2>2, FileKeeps
<1>5. CASE ApplyMembership
  BY <1>5, ApplyKeeps
<1>6. CASE \E a \in Author : Judge(a) \/ Count(a) \/ Commit(a)
  BY <1>6, JudgeKeeps, CountKeeps, CommitKeeps
<1>7. CASE RefuseMembership \/ Reapply \/ AcceptInvite \/ ExpireInvites \/ Verify
  <2>1. PICK x \in Record : Stamping(x)
    BY <1>1, <1>7, StampingMoves DEF RevocationInv
  <2>2. x.kind # "revocation"
    BY <2>1 DEF Stamping
  <2> QED BY <2>1, <2>2, StampKeeps DEF Stamping
<1>8. CASE PushEnvelope
  <2>1. PICK t \in Joined :
            rec' = Append(rec, [kind |-> "envelope", by |-> Owner, tenant |-> t,
                                version |-> 0, status |-> "none"])
    BY <1>8 DEF PushEnvelope, Stamped
  <2> DEFINE x == [kind |-> "envelope", by |-> Owner, tenant |-> t, version |-> 0, status |-> "none"]
  <2>2. x \in Record /\ x.kind = "envelope" /\ rec' = Append(rec, x)
    BY <2>1, TenantsAssumption DEF Record, Status
  <2>3. UNCHANGED <<open, step, sets, revoked>>
    BY <1>8 DEF PushEnvelope
  <2> HIDE DEF x
  <2> QED BY <2>2, <2>3, StampKeeps
<1>9. CASE Publish
  BY <1>1, <1>9, SameLog DEF Publish
<1>10. CASE \E d \in Device : ReadMeta(d) \/ Pull(d) \/ Restart(d)
  <2>1. UNCHANGED serverVars
    BY <1>10 DEF ReadMeta, Pull, Restart
  <2> QED BY <1>1, <2>1, SameLog DEF serverVars
<1>11. CASE UNCHANGED vars
  BY <1>1, <1>11, SameLog DEF vars, serverVars
<1>12. CASE KeepMembership
  <2>1. \A s \in Mine(Admin) : rec[s].by \notin Guardian
    BY PeopleAreDistinct DEF Mine
  <2>2. Admin \in Author
    BY DEF Author
  <2>3. step' = [step EXCEPT ![Admin] = "refused"] /\ UNCHANGED <<rec, open, sets, revoked>>
    BY <1>12 DEF KeepMembership
  <2> QED BY <2>1, <2>2, <2>3, AdvanceKeeps
<1> QED BY <1>2, <1>3, <1>4, <1>5, <1>6, <1>7, <1>8, <1>9, <1>10, <1>11, <1>12 DEF Next, ServerStep

\* Two approvals whose transactions overlap never both count without the other:
\* when no transaction is under way, a complete count has revoked the device
\* (rf.revocation_count takes the lock; 0026), as long as the admin's membership
\* changes do not overlap approvals.
THEOREM StatusFollowsCountHolds == Admin \notin Together => (Spec => []StatusFollowsCount)
<1> SUFFICES ASSUME Admin \notin Together PROVE Spec => []StatusFollowsCount
  OBVIOUS
<1>1. Init => RevocationInv
  BY InitCounts
<1>2. RevocationInv /\ [Next]_vars => RevocationInv'
  BY NextKeeps
<1>3. RevocationInv => StatusFollowsCount
  BY DEF RevocationInv, TallyApplied, StatusFollowsCount
<1> QED BY <1>1, <1>2, <1>3, PTL DEF Spec

-----------------------------------------------------------------------------
(* What more approvals can change *)

ThresholdsNeverFall == \A v, w \in DOMAIN Splits : v <= w => K(v) <= K(w)

-----------------------------------------------------------------------------
(* The k-th smallest of a set of seqs *)

\* A set of naturals that has a member has a smallest one.
LEMMA LeastMember ==
    ASSUME NEW S \in SUBSET Nat, S # {}
    PROVE  \E m \in S : \A y \in S : m <= y
<1>1. PICK m \in S : \A y \in S : ~(<<y, m>> \in OpToRel(<, Nat))
  BY NatLessThanWellFounded, WFMin
<1>2. \A y \in S : m <= y
  <2> TAKE y \in S
  <2>1. <<y, m>> \in Nat \X Nat /\ <<y, m>>[1] = y /\ <<y, m>>[2] = m
    OBVIOUS
  <2>2. ~(y < m)
    BY <1>1, <2>1 DEF OpToRel
  <2> QED BY <2>1, <2>2
<1> QED BY <1>2

LEMMA MinIsMember ==
    ASSUME NEW S \in SUBSET Nat, S # {}
    PROVE  Min(S) \in S /\ \A y \in S : Min(S) <= y
BY LeastMember DEF Min

\* Of a larger set the smallest is no larger.
LEMMA MinNoLater ==
    ASSUME NEW T \in SUBSET Nat, NEW S \in SUBSET T, S # {}
    PROVE  Min(T) \in Nat /\ Min(T) <= Min(S)
<1>1. Min(T) \in T /\ (\A y \in T : Min(T) <= y) /\ Min(S) \in S
  BY MinIsMember
<1> QED BY <1>1

UpToSeq(A, x) == {q \in A : q <= x}

\* Counting the members up to a seq.
LEMMA CountUpTo ==
    ASSUME NEW n \in Nat, NEW A \in SUBSET (1..n), NEW B \in SUBSET A
    PROVE  /\ IsFiniteSet(A) /\ Cardinality(A) \in Nat
           /\ IsFiniteSet(B) /\ Cardinality(B) \in Nat /\ Cardinality(B) <= Cardinality(A)
<1>1. IsFiniteSet(1..n)
  BY FS_Interval
<1>2. IsFiniteSet(A)
  BY <1>1, FS_Subset
<1>3. IsFiniteSet(B) /\ Cardinality(B) <= Cardinality(A)
  BY <1>2, FS_Subset
<1> QED BY <1>2, <1>3, FS_CardinalityType

\* Up to a later seq there are as many or more.
LEMMA CountGrows ==
    ASSUME NEW n \in Nat, NEW B \in SUBSET (1..n), NEW A \in SUBSET B,
           NEW x \in Nat, NEW y \in Nat, x <= y
    PROVE  /\ Cardinality(UpToSeq(A, x)) \in Nat /\ Cardinality(UpToSeq(B, y)) \in Nat
           /\ Cardinality(UpToSeq(A, x)) <= Cardinality(UpToSeq(B, y))
<1>1. \A q \in B : q \in Nat /\ (q <= x => q <= y)
  OBVIOUS
<1>2. UpToSeq(B, y) \in SUBSET (1..n) /\ UpToSeq(A, x) \in SUBSET UpToSeq(B, y)
  BY <1>1 DEF UpToSeq
<1> QED BY <1>2, CountUpTo

\* A set with k members has a k-th smallest one: it is a member, it is the k-th,
\* and no seq before it has k members up to it.
LEMMA KthSmallestIs ==
    ASSUME NEW n \in Nat, NEW A \in SUBSET (1..n), NEW k \in Nat, 1 <= k, k <= Cardinality(A)
    PROVE  /\ KthSmallest(A, k) \in A
           /\ \A x \in Nat : Cardinality(UpToSeq(A, x)) >= k => KthSmallest(A, k) <= x
           /\ \A x \in Nat : KthSmallest(A, k) <= x => Cardinality(UpToSeq(A, x)) >= k
<1> DEFINE Enough == {x \in Nat : Cardinality(UpToSeq(A, x)) >= k}
<1>0. \A q \in A : q \in Nat /\ q <= n /\ ~(q <= 0)
  OBVIOUS
<1>1. UpToSeq(A, n) = A /\ UpToSeq(A, 0) = {}
  BY <1>0 DEF UpToSeq
<1>2. n \in Enough
  BY <1>1, CountUpTo
<1>3. PICK m \in Enough : \A x \in Enough : m <= x
  BY <1>2, LeastMember
<1>4. m \in Nat /\ m # 0
  <2>1. Cardinality(UpToSeq(A, 0)) = 0
    BY <1>1, FS_EmptySet
  <2> QED BY <1>3, <2>1
<1>5. m - 1 \in Nat /\ Cardinality(UpToSeq(A, m - 1)) < k
  <2>1. m - 1 \in Nat /\ ~(m <= m - 1)
    BY <1>4
  <2>2. m - 1 \notin Enough
    BY <1>3, <2>1
  <2>3. UpToSeq(A, m - 1) \in SUBSET A
    BY DEF UpToSeq
  <2>4. Cardinality(UpToSeq(A, m - 1)) \in Nat /\ Cardinality(UpToSeq(A, m - 1)) \in Int
    BY <2>3, CountUpTo
  <2> QED BY <2>1, <2>2, <2>4
<1>6. m \in A /\ Cardinality(UpToSeq(A, m)) = k
  <2>1. UpToSeq(A, m) = IF m \in A THEN UpToSeq(A, m - 1) \cup {m} ELSE UpToSeq(A, m - 1)
    <3>1. \A q \in A : q <= m <=> q = m \/ q <= m - 1
      BY <1>0, <1>4
    <3> QED BY <3>1 DEF UpToSeq
  <2>2. m \notin UpToSeq(A, m - 1)
    BY <1>4 DEF UpToSeq
  <2>3. UpToSeq(A, m - 1) \in SUBSET A
    BY DEF UpToSeq
  <2>4. IsFiniteSet(UpToSeq(A, m - 1)) /\ Cardinality(UpToSeq(A, m - 1)) \in Nat
    BY <2>3, CountUpTo
  <2>5. Cardinality(UpToSeq(A, m - 1) \cup {m}) = Cardinality(UpToSeq(A, m - 1)) + 1
    BY <2>2, <2>4, FS_AddElement
  <2>6. Cardinality(UpToSeq(A, m)) >= k
    BY <1>3
  <2> QED BY <1>5, <2>1, <2>4, <2>5, <2>6
<1>7. ASSUME NEW s \in A, Cardinality(UpToSeq(A, s)) = k
      PROVE  s = m
  <2>1. s \in Nat /\ m <= s
    BY <1>3, <1>7
  <2>2. UpToSeq(A, m) \in SUBSET UpToSeq(A, s) /\ UpToSeq(A, s) \in SUBSET (1..n)
    <3>1. \A q \in A : q <= m => q <= s
      BY <1>0, <1>4, <2>1
    <3> QED BY <3>1 DEF UpToSeq
  <2>3. UpToSeq(A, m) = UpToSeq(A, s)
    BY <1>6, <1>7, <2>2, CountUpTo, FS_Subset
  <2> QED BY <1>4, <2>1, <2>3 DEF UpToSeq
<1>8. KthSmallest(A, k) = m
  BY <1>6, <1>7 DEF KthSmallest, UpToSeq
<1>9. \A x \in Nat : m <= x => Cardinality(UpToSeq(A, x)) >= k
  <2> TAKE x \in Nat
  <2> HAVE m <= x
  <2>1. Cardinality(UpToSeq(A, m)) <= Cardinality(UpToSeq(A, x)) /\ Cardinality(UpToSeq(A, x)) \in Nat
    BY <1>4, CountGrows
  <2> QED BY <1>6, <2>1
<1> QED BY <1>3, <1>6, <1>8, <1>9

\* Who counts more approvals, under a threshold that is no higher, has a k-th
\* one that is no later.
LEMMA KthApprovalNoLater ==
    ASSUME NEW n \in Nat, NEW B \in SUBSET (1..n), NEW A \in SUBSET B,
           NEW k \in Nat, NEW j \in Nat, 1 <= j, j <= k, KthApproval(A, k) # 0
    PROVE  KthApproval(B, j) \in 1..KthApproval(A, k)
<1>0. \A q \in B : q \in Nat /\ q >= 1
  OBVIOUS
<1>1. /\ IsFiniteSet(A) /\ Cardinality(A) \in Nat /\ Cardinality(B) \in Nat
      /\ Cardinality(A) <= Cardinality(B)
  BY CountUpTo
<1>2. Cardinality(A) >= k /\ KthApproval(A, k) = KthSmallest(A, k)
  BY DEF KthApproval
<1>3. Cardinality(B) >= j /\ KthApproval(B, j) = KthSmallest(B, j)
  BY <1>1, <1>2 DEF KthApproval
<1> DEFINE x == KthSmallest(A, k)
<1>4. x \in A /\ x \in Nat /\ Cardinality(UpToSeq(A, x)) >= k
  <2>1. A \in SUBSET (1..n) /\ 1 <= k /\ k <= Cardinality(A)
    BY <1>1, <1>2
  <2>2. x \in A /\ \A y \in Nat : x <= y => Cardinality(UpToSeq(A, y)) >= k
    BY <2>1, KthSmallestIs
  <2>3. x \in Nat /\ x <= x
    <3>1. x \in Nat
      BY <1>0, <2>2
    <3> QED BY <3>1
  <2> QED BY <2>2, <2>3
<1> HIDE DEF x
<1>5. Cardinality(UpToSeq(B, x)) >= j
  <2>1. /\ Cardinality(UpToSeq(A, x)) \in Nat /\ Cardinality(UpToSeq(B, x)) \in Nat
        /\ Cardinality(UpToSeq(A, x)) <= Cardinality(UpToSeq(B, x))
    BY <1>4, CountGrows, SMTT(20)
  <2> QED BY <1>4, <2>1
<1>6. KthSmallest(B, j) \in B /\ KthSmallest(B, j) <= x
  <2>1. j <= Cardinality(B)
    BY <1>1, <1>3
  <2> QED BY <1>4, <1>5, <2>1, KthSmallestIs
<1>7. KthSmallest(B, j) \in 1..x
  <2>1. \A y \in Nat : y >= 1 /\ y <= x => y \in 1..x
    BY <1>4
  <2> QED BY <1>0, <1>6, <2>1
<1> QED BY <1>2, <1>3, <1>7 DEF x

-----------------------------------------------------------------------------
(* Knowing more approvals *)

\* Two or three guardians are enough, whatever the set (0026: k of 2 to 5).
LEMMA ThresholdRange ==
    \A v \in DOMAIN Splits : K(v) \in Nat /\ K(v) >= 1
<1> TAKE v \in DOMAIN Splits
<1> DEFINE GuardianSets == [tenant : Tenant, guardians : {G \in SUBSET Guardian : Cardinality(G) \in 2..5}]
<1>1. Splits \in Seq(GuardianSets)
  BY SplitsAreSets
<1>2. \A x \in GuardianSets : Cardinality(x.guardians) \in 2..5
  OBVIOUS
<1> HIDE DEF GuardianSets
<1>3. Splits[v] \in GuardianSets
  BY <1>1
<1>4. Cardinality(Splits[v].guardians) \in 2..5
  BY <1>2, <1>3
<1> QED BY <1>4 DEF K

\* More approvals of more versions: the threshold is no higher, the seq at which
\* it is reached no later.
LEMMA MoreApprovals ==
    ASSUME ThresholdsNeverFall, NEW n \in Nat, NEW Q \in SUBSET (1..n), NEW P \in SUBSET Q,
           NEW W \in SUBSET DOMAIN Splits, NEW V \in SUBSET W, V # {},
           KthApproval(P, K(Min(V))) # 0
    PROVE  KthApproval(Q, K(Min(W))) \in 1..KthApproval(P, K(Min(V)))
<1>1. DOMAIN Splits \subseteq Nat
  BY SplitsAreSets
<1>2. W \in SUBSET Nat /\ V \in SUBSET Nat /\ W # {}
  BY <1>1
<1>3. Min(V) \in DOMAIN Splits /\ Min(W) \in DOMAIN Splits
  BY <1>2, MinIsMember
<1>4. Min(W) <= Min(V)
  BY <1>2, MinNoLater
<1>5. K(Min(W)) <= K(Min(V))
  BY <1>3, <1>4 DEF ThresholdsNeverFall
<1> DEFINE j == K(Min(W))
           k == K(Min(V))
<1>6. j \in Nat /\ k \in Nat /\ 1 <= j /\ j <= k
  BY <1>3, <1>5, ThresholdRange
<1> HIDE DEF j, k
<1>7. KthApproval(Q, j) \in 1..KthApproval(P, k)
  <2>1. KthApproval(P, k) # 0
    BY DEF k
  <2> QED BY <1>6, <2>1, KthApprovalNoLater
<1> QED BY <1>7 DEF j, k

\* An author's first approval stays the first, if what is new of that author is later.
LEMMA FirstStays ==
    ASSUME NEW r, NEW n \in Nat, NEW B \in SUBSET (1..n), NEW A \in SUBSET B,
           \A b \in B \ A, a \in A : r[b].by = r[a].by => a < b
    PROVE  FirstOfEach(r, A) \in SUBSET FirstOfEach(r, B)
<1> SUFFICES ASSUME NEW s \in FirstOfEach(r, A) PROVE s \in FirstOfEach(r, B)
  OBVIOUS
<1>1. s \in A /\ s \in B /\ \A q \in A : r[q].by = r[s].by => s <= q
  BY DEF FirstOfEach
<1>2. \A q \in B : q \in Nat
  OBVIOUS
<1>3. \A q \in B : r[q].by = r[s].by => s <= q
  BY <1>1, <1>2
<1> QED BY <1>1, <1>3 DEF FirstOfEach

\* Who has approved has a first approval.
LEMMA FirstExists ==
    ASSUME NEW r, NEW n \in Nat, NEW A \in SUBSET (1..n), A # {}
    PROVE  FirstOfEach(r, A) # {}
<1>1. A \in SUBSET Nat
  OBVIOUS
<1>2. Min(A) \in A /\ \A y \in A : Min(A) <= y
  BY <1>1, MinIsMember
<1> QED BY <1>2 DEF FirstOfEach

Versions(r, A) == {r[s].version : s \in A}

LEMMA ApprovalsKnown ==
    ASSUME NEW r, NEW k
    PROVE  /\ Approvals(r, k) \in SUBSET k
           /\ \A s \in Approvals(r, k) : r[s].kind = "revocation" /\ r[s].by \in Guardian
           /\ \A s \in Approvals(r, k) : r[s].version \in DOMAIN Splits
BY DEF Approvals, ByGuardian, Revocations, NamesItsSet

\* The tally of one who knows more approvals is no later.
LEMMA TallyNoLater ==
    ASSUME ThresholdsNeverFall, NEW r, NEW n \in Nat, NEW k1, NEW k2 \in SUBSET (1..n),
           Approvals(r, k1) \subseteq Approvals(r, k2),
           \A b \in Approvals(r, k2) \ Approvals(r, k1), a \in Approvals(r, k1) :
               r[b].by = r[a].by => a < b,
           Tally(r, k1) # 0
    PROVE  Tally(r, k2) \in 1..Tally(r, k1)
<1> DEFINE P == FirstOfEach(r, Approvals(r, k1))
           Q == FirstOfEach(r, Approvals(r, k2))
<1>1. Approvals(r, k2) \in SUBSET (1..n)
  BY ApprovalsKnown
<1>2. P \in SUBSET Q
  BY <1>1, FirstStays
<1>3. Q \in SUBSET Approvals(r, k2)
  BY DEF FirstOfEach
<1>4. Q \in SUBSET (1..n)
  BY <1>1, <1>3
<1>5. P # {} /\ Tally(r, k1) = KthApproval(P, K(Min(Versions(r, P))))
  BY DEF Tally, EarliestVersion, Versions
<1>6. Tally(r, k2) = KthApproval(Q, K(Min(Versions(r, Q))))
  BY <1>2, <1>5 DEF Tally, EarliestVersion, Versions
<1>7. Versions(r, Q) \in SUBSET DOMAIN Splits
  BY <1>3, ApprovalsKnown DEF Versions
<1> HIDE DEF P, Q
<1>8. Versions(r, P) \in SUBSET Versions(r, Q) /\ Versions(r, P) # {}
  BY <1>2, <1>5 DEF Versions
<1>9. KthApproval(P, K(Min(Versions(r, P)))) # 0
  BY <1>5
<1>10. KthApproval(Q, K(Min(Versions(r, Q)))) \in 1..KthApproval(P, K(Min(Versions(r, P))))
  BY <1>2, <1>4, <1>7, <1>8, <1>9, MoreApprovals
<1> QED BY <1>5, <1>6, <1>10

-----------------------------------------------------------------------------
(* What a step does to the log *)

\* A record is filed by a transaction that has not begun.
Filing(x) ==
    /\ x \in Record /\ step[x.by] = "idle" /\ MayBegin(x.by)
    /\ rec' = Append(rec, x) /\ open' = open \cup {Len(rec) + 1}
    /\ step' = [step EXCEPT ![x.by] = "filed"]
    /\ UNCHANGED <<sets, revoked, deviceVars>>
    /\ \/ x.kind = "revocation" /\ x.by \in Guardian /\ x.version \in 1..sets
       \/ x.kind = "revocation" /\ x.by = Owner /\ x.version = 0 /\ SubjectMayFile(x.tenant)
       \/ x.kind = "membership" /\ x.by = Admin /\ x.status # "none"

DeviceMoves == \E d \in Device : ReadMeta(d) \/ Pull(d) \/ Restart(d)

\* Every step is one of these.
LEMMA Moves ==
    ASSUME LogShape, [Next]_vars
    PROVE  \/ \E x \in Record : Filing(x)
           \/ ApplyMembership
           \/ KeepMembership
           \/ \E x \in Record : Stamping(x)
           \/ \E a \in Author : Judge(a) \/ Count(a)
           \/ \E a \in Author : Commit(a)
           \/ Publish
           \/ DeviceMoves
           \/ UNCHANGED vars
<1>1. sets \in 0..Len(Splits) /\ Len(Splits) \in Nat
  BY SplitsAreSets DEF LogShape
<1> DEFINE entry(kind, a, t, v, st) ==
               [kind |-> kind, by |-> a, tenant |-> t, version |-> v, status |-> st]
<1>2. CASE \E g \in Guardian : FileApproval(g)
  <2>1. PICK g \in Guardian, t \in Tenant, v \in 1..sets : File("revocation", g, t, v, "none")
    BY <1>2 DEF FileApproval
  <2>2. v \in Nat
    BY <1>1
  <2> DEFINE x == entry("revocation", g, t, v, "none")
  <2>3. /\ x \in Record /\ x.by = g /\ x.kind = "revocation" /\ x.version = v
        /\ Stamped("revocation", g, t, v, "none") = Append(rec, x)
    BY <2>2 DEF Record, Status, Stamped
  <2> HIDE DEF x
  <2>4. Filing(x)
    BY <2>1, <2>3 DEF Filing, File
  <2> QED BY <2>3, <2>4
<1>3. CASE FileOwners
  <2>1. PICK t \in Tenant : SubjectMayFile(t) /\ File("revocation", Owner, t, 0, "none")
    BY <1>3 DEF FileOwners
  <2> DEFINE x == entry("revocation", Owner, t, 0, "none")
  <2>2. /\ x \in Record /\ x.by = Owner /\ x.kind = "revocation" /\ x.version = 0 /\ x.tenant = t
        /\ Stamped("revocation", Owner, t, 0, "none") = Append(rec, x)
    BY DEF Record, Status, Stamped
  <2> HIDE DEF x
  <2>3. Filing(x)
    BY <2>1, <2>2 DEF Filing, File
  <2> QED BY <2>2, <2>3
<1>4. CASE FileMembership
  <2>1. PICK t \in Changes, st \in Recorded : File("membership", Admin, t, 0, st)
    BY <1>4 DEF FileMembership
  <2> DEFINE x == entry("membership", Admin, t, 0, st)
  <2>2. /\ x \in Record /\ x.by = Admin /\ x.kind = "membership" /\ x.tenant = t /\ x.status # "none"
        /\ Stamped("membership", Admin, t, 0, st) = Append(rec, x)
    BY TenantsAssumption, RecordedAssumption DEF Record, Stamped
  <2> HIDE DEF x
  <2>3. Filing(x)
    BY <2>1, <2>2 DEF Filing, File
  <2> QED BY <2>2, <2>3
<1>5. CASE RefuseMembership \/ Reapply \/ AcceptInvite \/ ExpireInvites \/ Verify \/ PushEnvelope
  BY <1>5, StampingMoves
<1> QED BY <1>2, <1>3, <1>4, <1>5 DEF Next, ServerStep, DeviceMoves

-----------------------------------------------------------------------------
(* The tally of one step to the next *)

\* What an author has filed and not committed is the author's latest.
OwnLatest ==
    \A s \in open : rec[s].by # Admin =>
        \A q \in Revocations(rec, Seqs) : rec[q].by = rec[s].by => q <= s

LEMMA OwnLatestKept ==
    ASSUME RevocationInv, OwnLatest, [Next]_vars
    PROVE  OwnLatest'
<1> USE DEF Seqs
<1>1. rec \in Seq(Record) /\ open \subseteq Seqs /\ LogShape
  BY DEF RevocationInv, LogShape
<1>2. ASSUME NEW x \in Record, Filing(x)
      PROVE  OwnLatest'
  <2> DEFINE new == Len(rec) + 1
  <2>1. /\ new \notin Seqs /\ Seqs' = Seqs \cup {new} /\ open' = open \cup {new}
        /\ (\A s \in Seqs : s < new /\ s <= new /\ rec'[s] = rec[s])
        /\ rec'[new] = x /\ new <= new
    BY <1>1, <1>2, Appended DEF Filing
  <2> HIDE DEF new
  <2>2. \A s \in open : rec[s].by # x.by
    BY <1>2 DEF Filing, RevocationInv, OneTransactionEach
  <2>3. ASSUME NEW s \in open, rec'[s].by # Admin, NEW q \in Seqs', rec'[q].kind = "revocation",
               rec'[q].by = rec'[s].by
        PROVE  q <= s
    <3>1. rec'[s] = rec[s] /\ rec[s].by # x.by
      BY <1>1, <2>1, <2>2
    <3>2. q # new
      BY <2>1, <2>3, <3>1
    <3>3. q \in Seqs /\ rec'[q] = rec[q]
      BY <2>1, <3>2
    <3> QED BY <2>3, <3>1, <3>3 DEF OwnLatest, Revocations
  <2>4. \A q \in Seqs' : q <= new
    BY <2>1
  <2> QED BY <2>1, <2>3, <2>4 DEF OwnLatest, Revocations
<1>3. ASSUME NEW x \in Record, rec' = Append(rec, x), x.kind # "revocation",
             \A s \in open' \ open : rec'[s].by = Admin
      PROVE  OwnLatest'
  <2> DEFINE new == Len(rec) + 1
  <2>1. /\ new \notin Seqs /\ Seqs' = Seqs \cup {new}
        /\ (\A s \in Seqs : rec'[s] = rec[s]) /\ rec'[new] = x
    BY <1>1, <1>3, Appended
  <2> HIDE DEF new
  <2>2. Revocations(rec, Seqs)' = Revocations(rec, Seqs)
    BY <1>3, <2>1 DEF Revocations
  <2>3. \A q \in Revocations(rec, Seqs) : rec'[q] = rec[q]
    BY <2>1 DEF Revocations
  <2>4. \A s \in open' : rec'[s].by # Admin => s \in open /\ rec'[s] = rec[s]
    BY <1>1, <1>3, <2>1
  <2> QED BY <2>2, <2>3, <2>4 DEF OwnLatest
<1>4. CASE ApplyMembership
  <2>1. PICK s \in Mine(Admin) :
            /\ rec' = Append(rec, [kind |-> "fact", by |-> Admin, tenant |-> rec[s].tenant,
                                   version |-> s, status |-> rec[s].status])
            /\ open' = open \cup {Len(rec) + 1}
    BY <1>4 DEF ApplyMembership, Stamped
  <2> DEFINE x == [kind |-> "fact", by |-> Admin, tenant |-> rec[s].tenant,
                   version |-> s, status |-> rec[s].status]
  <2>2. rec[s] \in Record /\ s \in Nat
    BY <1>1 DEF Mine
  <2>3. x \in Record /\ x.kind = "fact" /\ x.by = Admin /\ rec' = Append(rec, x)
    BY <2>1, <2>2 DEF Record
  <2> HIDE DEF x
  <2>4. \A q \in open' \ open : rec'[q].by = Admin
    BY <1>1, <2>1, <2>3, Appended
  <2> QED BY <1>3, <2>3, <2>4
<1>5. ASSUME NEW x \in Record, Stamping(x)
      PROVE  OwnLatest'
  BY <1>3, <1>5 DEF Stamping
<1>6. CASE UNCHANGED rec /\ (open' \subseteq open)
  BY <1>6 DEF OwnLatest
<1>7. (UNCHANGED rec /\ (open' \subseteq open))
          \/ ApplyMembership \/ (\E x \in Record : Filing(x) \/ Stamping(x))
  <2>1. DeviceMoves => UNCHANGED <<rec, open>>
    BY DEF DeviceMoves, ReadMeta, Pull, Restart, serverVars
  <2>2. UNCHANGED vars => UNCHANGED <<rec, open>>
    BY DEF vars, serverVars
  <2>3. ASSUME NEW a \in Author, Judge(a) \/ Count(a) \/ Commit(a)
        PROVE  UNCHANGED rec /\ open' \subseteq open
    BY <2>3 DEF Judge, Count, Commit
  <2>4. Publish \/ KeepMembership => UNCHANGED <<rec, open>>
    BY DEF Publish, KeepMembership
  <2> QED BY <1>1, <2>1, <2>2, <2>3, <2>4, Moves
<1> QED BY <1>2, <1>4, <1>5, <1>6, <1>7

\* A complete count is a seq of the log.
LEMMA TallyInLog ==
    ASSUME NEW r, NEW n \in Nat, NEW k \in SUBSET (1..n), Tally(r, k) # 0
    PROVE  Tally(r, k) \in 1..n
<1> DEFINE P == FirstOfEach(r, Approvals(r, k))
<1>1. P # {} /\ Tally(r, k) = KthApproval(P, K(Min(Versions(r, P))))
  BY DEF Tally, EarliestVersion, Versions
<1>2. P \in SUBSET (1..n) /\ Versions(r, P) \in SUBSET DOMAIN Splits
  <2>1. P \subseteq Approvals(r, k)
    BY DEF FirstOfEach
  <2>2. Approvals(r, k) \in SUBSET k
    BY ApprovalsKnown
  <2>3. P \subseteq k
    BY <2>1, <2>2
  <2>4. \A s \in P : r[s].version \in DOMAIN Splits
    BY <2>1, ApprovalsKnown
  <2> QED BY <2>3, <2>4 DEF Versions
<1> HIDE DEF P
<1>3. Versions(r, P) # {} /\ Versions(r, P) \in SUBSET Nat
  <2>1. DOMAIN Splits \subseteq Nat
    BY SplitsAreSets
  <2> QED BY <1>1, <1>2, <2>1 DEF Versions
<1>4. Min(Versions(r, P)) \in DOMAIN Splits
  BY <1>2, <1>3, MinIsMember
<1> DEFINE j == K(Min(Versions(r, P)))
<1>5. j \in Nat /\ j >= 1
  BY <1>4, ThresholdRange
<1>6. KthApproval(P, j) # 0
  BY <1>1
<1> HIDE DEF j
<1>7. KthApproval(P, j) = KthSmallest(P, j) /\ Cardinality(P) >= j
  BY <1>6 DEF KthApproval
<1>8. Cardinality(P) \in Nat
  BY <1>2, CountUpTo
<1>9. j <= Cardinality(P)
  BY <1>5, <1>7, <1>8
<1>10. KthSmallest(P, j) \in P
  BY <1>2, <1>5, <1>9, KthSmallestIs
<1> QED BY <1>1, <1>2, <1>7, <1>10 DEF j

\* What a guardian's transaction commits adds to the approvals and takes none away.
LEMMA CommitAddsApprovals ==
    ASSUME RevocationInv, OwnLatest, NEW a \in Author \ {Admin}
    PROVE  /\ Approvals(rec, Committed) \subseteq Approvals(rec, Committed \cup Mine(a))
           /\ \A b \in Approvals(rec, Committed \cup Mine(a)) \ Approvals(rec, Committed),
                 s \in Approvals(rec, Committed) : rec[b].by = rec[s].by => s < b
<1> USE DEF Seqs
<1> DEFINE more == Committed \cup Mine(a)
<1>1. /\ rec \in Seq(Record) /\ open \subseteq Seqs /\ Committed \subseteq Seqs
      /\ Mine(a) \subseteq open /\ Committed = Seqs \ open
      /\ \A s \in Mine(a) : rec[s].by = a
  BY DEF RevocationInv, LogShape, Mine, Committed
<1>2. \A s \in Mine(a) : rec[s].kind = "revocation"
  BY <1>1 DEF RevocationInv, OthersRevoke
<1>3. KnowsMore(rec, Committed, rec, more) /\ \A n : NoFactBefore(rec, more \ Committed, n)
  BY <1>1, <1>2 DEF KnowsMore, NoFactBefore
<1>4. \A t, n : HeldAt(rec, Committed, t, n) <=> HeldAt(rec, more, t, n)
  BY <1>3, SameJudgment
<1>5. \A s \in Committed : s \in Approvals(rec, Committed) <=> s \in Approvals(rec, more)
  BY <1>4 DEF Approvals, ByGuardian, Revocations
<1> HIDE DEF more
<1>6. Approvals(rec, Committed) \in SUBSET Committed /\ Approvals(rec, more) \in SUBSET more
  BY ApprovalsKnown
<1>7. ASSUME NEW b \in Approvals(rec, more) \ Approvals(rec, Committed),
             NEW s \in Approvals(rec, Committed), rec[b].by = rec[s].by
      PROVE  s < b
  <2>1. b \in Mine(a)
    BY <1>5, <1>6 DEF more
  <2>2. s \in Revocations(rec, Seqs)
    BY <1>1, <1>6, ApprovalsKnown DEF Revocations
  <2>3. s <= b /\ s # b
    BY <1>1, <1>6, <1>7, <2>1, <2>2 DEF OwnLatest
  <2>4. s \in Nat /\ b \in Nat
    <3>1. \A q \in Seqs : q \in Nat
      BY <1>1
    <3>2. s \in Seqs /\ b \in Seqs
      BY <1>1, <1>6, <2>1
    <3> QED BY <3>1, <3>2
  <2> QED BY <2>3, <2>4
<1> QED BY <1>5, <1>6, <1>7 DEF more

\* From one step to the next the tally moves earlier or stays.
LEMMA TallyStep ==
    ASSUME RevocationInv, OwnLatest, ThresholdsNeverFall, [Next]_vars, Tally(rec, Committed) # 0
    PROVE  Tally(rec, Committed)' \in 1..Tally(rec, Committed)
<1> USE DEF Seqs
<1>1. /\ rec \in Seq(Record) /\ open \subseteq Seqs /\ LogShape
      /\ Committed \in SUBSET DOMAIN rec /\ Committed \in SUBSET (1..Len(rec)) /\ Len(rec) \in Nat
  BY DEF RevocationInv, LogShape, Committed
<1>2. Tally(rec, Committed) \in 1..Tally(rec, Committed)
  <2>1. Tally(rec, Committed) \in 1..Len(rec)
    BY <1>1, TallyInLog
  <2> QED BY <1>1, <2>1
<1>3. CASE UNCHANGED <<rec, open>>
  BY <1>2, <1>3 DEF Committed
<1>4. ASSUME NEW x \in Record, rec' = Append(rec, x), open' = open \cup {Len(rec) + 1}
      PROVE  Tally(rec, Committed)' \in 1..Tally(rec, Committed)
  <2>1. /\ rec' \in Seq(Record) /\ Len(rec) + 1 \notin Seqs /\ Seqs' = Seqs \cup {Len(rec) + 1}
        /\ \A s \in Seqs : rec'[s] = rec[s]
    BY <1>1, <1>4, Appended
  <2>2. Committed' = Committed
    BY <1>1, <1>4, <2>1 DEF Committed
  <2>3. KnowsMore(rec, Committed, rec', Committed)
    BY <1>1, <2>1 DEF KnowsMore
  <2>4. Tally(rec', Committed) = Tally(rec, Committed)
    BY <2>3, SameKnown
  <2> QED BY <1>2, <2>2, <2>4
<1>5. ASSUME NEW x \in Record, Filing(x)
      PROVE  Tally(rec, Committed)' \in 1..Tally(rec, Committed)
  BY <1>4, <1>5 DEF Filing
<1>6. CASE ApplyMembership
  <2>1. PICK s \in Mine(Admin) :
            /\ rec' = Append(rec, [kind |-> "fact", by |-> Admin, tenant |-> rec[s].tenant,
                                   version |-> s, status |-> rec[s].status])
            /\ open' = open \cup {Len(rec) + 1}
    BY <1>6 DEF ApplyMembership, Stamped
  <2>2. rec[s] \in Record /\ s \in Nat
    BY <1>1 DEF Mine
  <2>3. [kind |-> "fact", by |-> Admin, tenant |-> rec[s].tenant,
         version |-> s, status |-> rec[s].status] \in Record
    BY <2>2 DEF Record
  <2> QED BY <1>4, <2>1, <2>3
<1>7. ASSUME NEW x \in Record, Stamping(x)
      PROVE  Tally(rec, Committed)' \in 1..Tally(rec, Committed)
  <2>1. /\ Len(rec) + 1 \notin Seqs /\ Seqs' = Seqs \cup {Len(rec) + 1}
        /\ rec' = Append(rec, x) /\ open' = open /\ x.kind # "revocation"
    BY <1>1, <1>7, Appended DEF Stamping
  <2>2. Committed' = Committed \cup {Len(rec) + 1}
    BY <1>1, <2>1 DEF Committed
  <2>3. Tally(Append(rec, x), Committed \cup {Len(rec) + 1}) = Tally(rec, Committed)
    BY <1>1, <2>1, StampSameTally
  <2> QED BY <1>2, <2>1, <2>2, <2>3
<1>8. ASSUME NEW a \in Author, Commit(a)
      PROVE  Tally(rec, Committed)' \in 1..Tally(rec, Committed)
  <2>1. rec' = rec /\ Committed' = Committed \cup Mine(a)
    BY <1>1, <1>8 DEF Commit, Committed, Mine
  <2>2. CASE a = Admin
    <3>1. Tally(rec, Committed \cup Mine(a)) = Tally(rec, Committed)
      BY <1>1, <2>2, CommitSameTally
    <3> QED BY <1>2, <2>1, <3>1
  <2>3. CASE a # Admin
    <3>1. Committed \cup Mine(a) \in SUBSET (1..Len(rec))
      BY <1>1 DEF Mine
    <3>2. a \in Author \ {Admin}
      BY <2>3
    <3>3. Tally(rec, Committed \cup Mine(a)) \in 1..Tally(rec, Committed)
      BY <1>1, <3>1, <3>2, CommitAddsApprovals, TallyNoLater
    <3> QED BY <2>1, <3>3
  <2> QED BY <2>2, <2>3
<1>9. UNCHANGED <<rec, open>> \/ ApplyMembership
          \/ (\E x \in Record : Filing(x) \/ Stamping(x)) \/ \E a \in Author : Commit(a)
  <2>1. DeviceMoves => UNCHANGED <<rec, open>>
    BY DEF DeviceMoves, ReadMeta, Pull, Restart, serverVars
  <2>2. UNCHANGED vars => UNCHANGED <<rec, open>>
    BY DEF vars, serverVars
  <2>3. ASSUME NEW a \in Author, Judge(a) \/ Count(a)
        PROVE  UNCHANGED <<rec, open>>
    BY <2>3 DEF Judge, Count
  <2>4. Publish \/ KeepMembership => UNCHANGED <<rec, open>>
    BY DEF Publish, KeepMembership
  <2> QED BY <1>1, <2>1, <2>2, <2>3, <2>4, Moves
<1> QED BY <1>3, <1>5, <1>6, <1>7, <1>8, <1>9

-----------------------------------------------------------------------------
(* The theorem *)

TallyInv == RevocationInv /\ OwnLatest

LEMMA TallyInvKept ==
    ASSUME Admin \notin Together
    PROVE  /\ Init => TallyInv
           /\ TallyInv /\ [Next]_vars => TallyInv'
<1>1. Init => TallyInv
  BY InitCounts DEF TallyInv, Init, OwnLatest
<1>2. TallyInv /\ [Next]_vars => TallyInv'
  BY NextKeeps, OwnLatestKept DEF TallyInv
<1> QED BY <1>1, <1>2

\* Once a device is revoked, the cut-off of the guardians' approvals never
\* vanishes and never moves later, whatever is filed, refused, removed,
\* re-admitted or published afterwards (rf.revocation_tally; 0027 section 3),
\* as long as no later set asks for fewer guardians than an earlier one and the
\* admin's membership changes do not overlap approvals.
THEOREM TallyOnlyEarlierHolds ==
    ThresholdsNeverFall /\ Admin \notin Together => (Spec => TallyOnlyEarlier)
<1> SUFFICES ASSUME ThresholdsNeverFall, Admin \notin Together PROVE Spec => TallyOnlyEarlier
  OBVIOUS
<1>1. Init => TallyInv
  BY TallyInvKept
<1>2. TallyInv /\ [Next]_vars => TallyInv'
  BY TallyInvKept
<1>3. TallyInv /\ [Next]_vars =>
          [revoked /\ Tally(rec, Committed) # 0 =>
              Tally(rec', Committed') \in 1..Tally(rec, Committed)]_vars
  BY TallyStep DEF TallyInv
<1> QED BY <1>1, <1>2, <1>3, PTL DEF Spec, TallyOnlyEarlier
=============================================================================
