----------------------- MODULE RevocationDeviceProofs -----------------------
(***************************************************************************)
(* What a device of the subject counts for itself: it quarantines exactly  *)
(* what the lost device wrote from the cut-off on (QuarantineIsTheCut),    *)
(* and once it has every record its cut-off is the server's, wherever the  *)
(* records tell what the rows went through (DevicesCountAsServer).  The    *)
(* types of server and devices come first.                                 *)
(***************************************************************************)
EXTENDS RevocationProofs

-----------------------------------------------------------------------------
(* Types *)

\* What is stamped is a record, and the log stays within its bound.
LEMMA LogGrows ==
    ASSUME LogShape, [Next]_vars
    PROVE  \/ UNCHANGED rec
           \/ Len(rec) < MaxSeq /\ \E x \in Record : rec' = Append(rec, x)
<1>1. rec \in Seq(Record) /\ open \subseteq Seqs
  BY DEF LogShape
<1>2. UNCHANGED rec \/ Len(rec) < MaxSeq
  <2> USE DEF File, Room
  <2>1. ServerStep => UNCHANGED rec \/ Len(rec) < MaxSeq
    BY DEF ServerStep, FileApproval, FileOwners, FileMembership, RefuseMembership, ApplyMembership,
           KeepMembership, Reapply, Judge, Count, Commit, AcceptInvite, ExpireInvites, Verify,
           ChangeMembership, Publish, PushEnvelope
  <2>2. (\E d \in Device : ReadMeta(d) \/ Pull(d) \/ Restart(d)) => UNCHANGED rec
    BY DEF ReadMeta, Pull, Restart, serverVars
  <2> QED BY <2>1, <2>2 DEF Next, vars, serverVars
<1>3. UNCHANGED rec \/ \E x \in Record : rec' = Append(rec, x)
  <2>1. CASE ApplyMembership
    <3>1. PICK s \in Mine(Admin) :
              rec' = Append(rec, [kind |-> "fact", by |-> Admin, tenant |-> rec[s].tenant,
                                  version |-> s, status |-> rec[s].status])
      BY <2>1 DEF ApplyMembership, Stamped
    <3>2. rec[s] \in Record /\ s \in Nat
      BY <1>1 DEF Mine, Seqs
    <3>3. [kind |-> "fact", by |-> Admin, tenant |-> rec[s].tenant,
           version |-> s, status |-> rec[s].status] \in Record
      BY <3>2 DEF Record
    <3> QED BY <3>1, <3>3
  <2>2. \A x \in Record : Filing(x) \/ Stamping(x) => rec' = Append(rec, x)
    BY DEF Filing, Stamping
  <2>3. DeviceMoves \/ Publish \/ KeepMembership \/ UNCHANGED vars => UNCHANGED rec
    BY DEF DeviceMoves, ReadMeta, Pull, Restart, Publish, KeepMembership, vars, serverVars
  <2>4. \A a \in Author : Judge(a) \/ Count(a) \/ Commit(a) => UNCHANGED rec
    BY DEF Judge, Count, Commit
  <2> QED BY <2>1, <2>2, <2>3, <2>4, Moves
<1> QED BY <1>2, <1>3

\* A step of the server leaves the devices alone.
LEMMA ServerLeavesDevices ==
    ServerStep \/ UNCHANGED vars => UNCHANGED deviceVars
<1> USE DEF File
<1> QED BY DEF ServerStep, FileApproval, FileOwners, FileMembership, RefuseMembership, ApplyMembership,
              KeepMembership, Reapply, Judge, Count, Commit, AcceptInvite, ExpireInvites, Verify,
              ChangeMembership, Publish, PushEnvelope, vars

DeviceTypes ==
    /\ cursor \in [Device -> Seqs \cup {0}]
    /\ trust \in [Device -> SUBSET Seqs] /\ seen \in [Device -> SUBSET Seqs]
    /\ pulled \in [Device -> SUBSET Seqs] /\ quarantined \in [Device -> SUBSET Seqs]
    /\ mode \in [Device -> {"active", "suspended", "wiped"}]
    /\ restarts \in 0..MaxRestart

ServerTypes ==
    LogShape /\ Len(rec) <= MaxSeq /\ revoked \in BOOLEAN

\* The cursor of a meta round is a seq of the log, the last that was read.
LEMMA CursorAdvances ==
    ASSUME LogShape, DeviceTypes, NEW d \in Device
    PROVE  LET next == Max({cursor[d]} \cup Readable(d))
           IN  next \in {cursor[d]} \cup Readable(d) /\ \A s \in {cursor[d]} \cup Readable(d) : s <= next
<1> DEFINE S == {cursor[d]} \cup Readable(d)
<1>1. rec \in Seq(Record) /\ Len(rec) \in Nat /\ Seqs = 1..Len(rec)
  BY DEF LogShape, Seqs
<1>2. cursor[d] \in Seqs \cup {0} /\ Readable(d) \subseteq Seqs
  BY DEF DeviceTypes, Readable, Committed
<1>3. S \in SUBSET (0..Len(rec)) /\ S # {}
  BY <1>1, <1>2
<1> HIDE DEF S
<1>4. Max(S) \in S /\ \A y \in S : y <= Max(S)
  BY <1>1, <1>3, MaxIsMember
<1> QED BY <1>4 DEF S

LEMMA DeviceTypesKept ==
    ASSUME LogShape, DeviceTypes, Seqs \subseteq Seqs', [Next]_vars
    PROVE  DeviceTypes'
<1>1. CASE UNCHANGED deviceVars
  BY <1>1 DEF DeviceTypes, deviceVars
<1>2. ASSUME NEW d \in Device, ReadMeta(d)
      PROVE  DeviceTypes'
  <2> DEFINE fresh == {s \in Readable(d) : s > cursor[d]} \ seen[d]
  <2>0. Readable(d) \subseteq Seqs /\ fresh \subseteq Seqs
    BY DEF Readable, Committed
  <2>1. UNCHANGED <<pulled, restarts>>
    BY <1>2 DEF ReadMeta
  <2>2. cursor' \in [Device -> Seqs \cup {0}]
    <3>1. cursor' = [cursor EXCEPT ![d] = Max({@} \cup Readable(d))]
      BY <1>2 DEF ReadMeta
    <3>2. Max({cursor[d]} \cup Readable(d)) \in {cursor[d]} \cup Readable(d)
      BY CursorAdvances
    <3> QED BY <2>0, <3>1, <3>2 DEF DeviceTypes
  <2>3. seen' \in [Device -> SUBSET Seqs]
    <3>1. seen' = [seen EXCEPT ![d] = @ \cup fresh]
      BY <1>2 DEF ReadMeta
    <3> QED BY <2>0, <3>1 DEF DeviceTypes
  <2>4. trust' \in [Device -> SUBSET Seqs]
    <3>1. trust' = [trust EXCEPT ![d] = @ \cup Revocations(rec, fresh)]
      BY <1>2 DEF ReadMeta
    <3>2. Revocations(rec, fresh) \subseteq Seqs
      BY <2>0 DEF Revocations
    <3> QED BY <3>1, <3>2 DEF DeviceTypes
  <2>5. mode' \in [Device -> {"active", "suspended", "wiped"}]
    BY <1>2 DEF ReadMeta, DeviceTypes
  <2>6. quarantined' \in [Device -> SUBSET Seqs]
    <3>1. PICK c : quarantined' = [quarantined EXCEPT ![d] =
                       IF mode'[d] = "active" THEN Enforced(d, c) ELSE @]
      BY <1>2 DEF ReadMeta
    <3>2. Enforced(d, c) \subseteq Seqs
      BY DEF Enforced, AtOrPast, DeviceTypes
    <3> QED BY <3>1, <3>2 DEF DeviceTypes
  <2> QED BY <2>1, <2>2, <2>3, <2>4, <2>5, <2>6 DEF DeviceTypes
<1>3. ASSUME NEW d \in Device, Pull(d)
      PROVE  DeviceTypes'
  <2> DEFINE new == {s \in Committed : rec[s].kind = "envelope"} \ pulled[d]
  <2>1. /\ pulled' = [pulled EXCEPT ![d] = @ \cup new]
        /\ quarantined' = [quarantined EXCEPT ![d] = @ \cup AtOrPast(new, Cut(d))]
        /\ UNCHANGED <<cursor, trust, seen, mode, restarts>>
    BY <1>3 DEF Pull
  <2>2. new \subseteq Seqs /\ AtOrPast(new, Cut(d)) \subseteq Seqs
    BY DEF Committed, AtOrPast
  <2> HIDE DEF new
  <2> QED BY <2>1, <2>2 DEF DeviceTypes
<1>4. ASSUME NEW d \in Device, Restart(d)
      PROVE  DeviceTypes'
  BY <1>4, RevocationBounds DEF Restart, DeviceTypes
<1> QED BY <1>1, <1>2, <1>3, <1>4, ServerLeavesDevices DEF Next

LEMMA ServerTypesKept ==
    ASSUME ServerTypes, [Next]_vars
    PROVE  ServerTypes' /\ Seqs \subseteq Seqs'
<1> USE DEF Seqs
<1>1. /\ rec \in Seq(Record) /\ open \subseteq Seqs /\ LogShape /\ MaxSeq \in Nat
      /\ Len(rec) <= MaxSeq
  BY RevocationBounds DEF ServerTypes, LogShape
<1>2. rec' \in Seq(Record) /\ Len(rec') <= MaxSeq /\ Seqs \subseteq Seqs'
  <2>1. ASSUME NEW x \in Record, rec' = Append(rec, x), Len(rec) < MaxSeq
        PROVE  rec' \in Seq(Record) /\ Len(rec') <= MaxSeq /\ Seqs \subseteq Seqs'
    BY <1>1, <2>1
  <2>2. CASE UNCHANGED rec
    BY <1>1, <2>2
  <2> QED BY <1>1, <2>1, <2>2, LogGrows
<1>3. /\ open' \subseteq Seqs'
      /\ step' \in [Author -> {"idle", "filed", "refused", "judged", "counted", "completes", "applied"}]
      /\ sets' \in 0..Len(Splits) /\ revoked' \in BOOLEAN
  <2> DEFINE StepTypes == [Author -> {"idle", "filed", "refused", "judged", "counted", "completes", "applied"}]
             Kept == /\ open' \subseteq Seqs' /\ step' \in StepTypes
                     /\ sets' \in 0..Len(Splits) /\ revoked' \in BOOLEAN
  <2>0. step \in StepTypes /\ sets \in 0..Len(Splits) /\ revoked \in BOOLEAN
    BY DEF ServerTypes, LogShape
  <2>1. CASE UNCHANGED <<open, step, sets, revoked>>
    BY <1>1, <1>2, <2>0, <2>1
  <2>2. ASSUME NEW x \in Record, Filing(x)
        PROVE  Kept
    <3>1. Seqs' = Seqs \cup {Len(rec) + 1}
      BY <1>1, <2>2, Appended DEF Filing
    <3> QED BY <1>1, <1>2, <2>0, <2>2, <3>1 DEF Filing
  <2>3. CASE ApplyMembership
    <3>1. PICK s \in Mine(Admin) : rec' = Stamped("fact", Admin, rec[s].tenant, s, rec[s].status)
      BY <2>3 DEF ApplyMembership
    <3>2. rec[s] \in Record /\ s \in Nat
      BY <1>1 DEF Mine
    <3>3. [kind |-> "fact", by |-> Admin, tenant |-> rec[s].tenant,
           version |-> s, status |-> rec[s].status] \in Record
      BY <3>2 DEF Record
    <3>4. Seqs' = Seqs \cup {Len(rec) + 1}
      BY <1>1, <3>1, <3>3, Appended DEF Stamped
    <3> QED BY <1>1, <1>2, <2>0, <2>3, <3>4 DEF ApplyMembership
  <2>4. ASSUME NEW x \in Record, Stamping(x)
        PROVE  Kept
    BY <2>1, <2>4 DEF Stamping
  <2>5. ASSUME NEW a \in Author, Judge(a) \/ Count(a)
        PROVE  Kept
    BY <1>1, <1>2, <2>0, <2>5 DEF Judge, Count
  <2>6. ASSUME NEW a \in Author, Commit(a)
        PROVE  Kept
    BY <1>1, <1>2, <2>0, <2>6 DEF Commit, Mine
  <2>7. CASE Publish
    <3>1. Len(Splits) \in Nat
      BY SplitsAreSets
    <3>2. sets' \in 0..Len(Splits) /\ UNCHANGED <<open, step, revoked>>
      BY <2>0, <2>7, <3>1 DEF Publish
    <3> QED BY <1>1, <1>2, <2>0, <3>2
  <2>8. CASE DeviceMoves \/ UNCHANGED vars
    BY <2>1, <2>8 DEF DeviceMoves, ReadMeta, Pull, Restart, vars, serverVars
  <2>9. CASE KeepMembership
    BY <1>1, <1>2, <2>0, <2>9 DEF KeepMembership
  <2> QED BY <1>1, <2>2, <2>3, <2>4, <2>5, <2>6, <2>7, <2>8, <2>9, Moves
<1> QED BY <1>2, <1>3 DEF ServerTypes, LogShape

LEMMA TypesAtStart == Init => ServerTypes /\ DeviceTypes
<1> SUFFICES ASSUME Init PROVE ServerTypes /\ DeviceTypes
  OBVIOUS
<1>1. LogShape
  BY InitCounts DEF RevocationInv
<1>2. Len(rec) <= MaxSeq
  <2>1. Cardinality(Joined) \in Nat /\ Cardinality(Joined) <= MaxSeq
    BY TenantsAssumption, FS_CardinalityType, RevocationBounds
  <2>2. PICK order \in [1..Cardinality(Joined) -> Joined] :
            rec = [i \in DOMAIN order |->
                       [kind |-> "fact", by |-> Admin, tenant |-> order[i],
                        version |-> 0, status |-> "active"]]
    BY DEF Init
  <2>3. DOMAIN rec = 1..Cardinality(Joined)
    BY <2>2
  <2> QED BY <1>1, <2>1, <2>3 DEF LogShape
<1>3. DeviceTypes
  BY RevocationBounds DEF Init, DeviceTypes
<1> QED BY <1>1, <1>2, <1>3 DEF Init, ServerTypes

LEMMA TypesHold ==
    /\ Init => ServerTypes /\ DeviceTypes
    /\ ServerTypes /\ DeviceTypes /\ [Next]_vars => ServerTypes' /\ DeviceTypes'
BY TypesAtStart, ServerTypesKept, DeviceTypesKept DEF ServerTypes

\* Every variable keeps its type: what a device trusts, has verified, pulled and
\* quarantined, and its cursor, are seqs of the log (Revocation.tla).
THEOREM RevocationTypeOK == Spec => []TypeOK
<1>1. ServerTypes /\ DeviceTypes => TypeOK
  BY DEF ServerTypes, LogShape, DeviceTypes, TypeOK
<1> QED BY <1>1, TypesHold, PTL DEF Spec

-----------------------------------------------------------------------------
(* What a device counts as it comes to know more *)

\* The cut-off of the guardians' records A, by whichever rule they were found valid.
GuardianSeq(r, A) == IF A = {} THEN 0 ELSE KthApproval(FirstOfEach(r, A), K(Min(Versions(r, A))))

LEMMA GuardianSeqInLog ==
    ASSUME NEW r, NEW n \in Nat, NEW A \in SUBSET (1..n), Versions(r, A) \in SUBSET DOMAIN Splits
    PROVE  GuardianSeq(r, A) \in 0..n
<1>1. CASE A = {}
  BY <1>1 DEF GuardianSeq
<1>2. CASE A # {}
  <2> DEFINE P == FirstOfEach(r, A)
             j == K(Min(Versions(r, A)))
  <2>1. P \in SUBSET (1..n)
    BY DEF FirstOfEach
  <2>2. Versions(r, A) # {} /\ Versions(r, A) \in SUBSET Nat
    <3>1. DOMAIN Splits \subseteq Nat
      BY SplitsAreSets
    <3> QED BY <1>2, <3>1 DEF Versions
  <2>3. Min(Versions(r, A)) \in DOMAIN Splits
    BY <2>2, MinIsMember
  <2>4. j \in Nat /\ j >= 1
    BY <2>3, ThresholdRange
  <2>5. GuardianSeq(r, A) = KthApproval(P, j)
    BY <1>2 DEF GuardianSeq
  <2> HIDE DEF P, j
  <2>6. CASE Cardinality(P) >= j
    <3>1. Cardinality(P) \in Nat
      BY <2>1, CountUpTo
    <3>2. KthSmallest(P, j) \in P
      BY <2>1, <2>4, <2>6, <3>1, KthSmallestIs
    <3>3. KthSmallest(P, j) \in 0..n
      <4>1. \A x \in P : x \in 0..n
        BY <2>1
      <4> QED BY <3>2, <4>1
    <3>4. GuardianSeq(r, A) = KthSmallest(P, j)
      BY <2>5, <2>6 DEF KthApproval
    <3> QED BY <3>3, <3>4
  <2>7. CASE ~(Cardinality(P) >= j)
    BY <2>5, <2>7 DEF KthApproval
  <2> QED BY <2>6, <2>7
<1> QED BY <1>1, <1>2

\* More valid records, each author's later than that author's earlier ones: the
\* guardians' cut-off does not move later.
LEMMA GuardianSeqNoLater ==
    ASSUME ThresholdsNeverFall, NEW r, NEW n \in Nat, NEW B \in SUBSET (1..n), NEW A \in SUBSET B,
           Versions(r, B) \in SUBSET DOMAIN Splits,
           \A b \in B \ A, a \in A : r[b].by = r[a].by => a < b,
           GuardianSeq(r, A) # 0
    PROVE  GuardianSeq(r, B) \in 1..GuardianSeq(r, A)
<1>1. A # {} /\ B # {}
  BY DEF GuardianSeq
<1>2. FirstOfEach(r, A) \in SUBSET FirstOfEach(r, B)
  BY FirstStays
<1>3. FirstOfEach(r, B) \in SUBSET (1..n)
  BY DEF FirstOfEach
<1>4. Versions(r, A) \in SUBSET Versions(r, B) /\ Versions(r, A) # {}
  BY <1>1 DEF Versions
<1>5. KthApproval(FirstOfEach(r, A), K(Min(Versions(r, A)))) # 0
  BY <1>1 DEF GuardianSeq
<1>6. KthApproval(FirstOfEach(r, B), K(Min(Versions(r, B))))
          \in 1..KthApproval(FirstOfEach(r, A), K(Min(Versions(r, A))))
  BY <1>2, <1>3, <1>4, <1>5, MoreApprovals
<1> QED BY <1>1, <1>6 DEF GuardianSeq

\* Both of two cut-offs move earlier or stay, and so does the earlier of them.
LEMMA EarlierNoLater ==
    ASSUME NEW m1 \in Nat, NEW m2 \in Nat, NEW n1 \in Nat, NEW n2 \in Nat,
           m1 # 0 => m2 \in 1..m1, n1 # 0 => n2 \in 1..n1, Earlier(m1, n1) # 0
    PROVE  Earlier(m2, n2) \in 1..Earlier(m1, n1)
<1>1. \A m, n \in Nat : Min({m, n}) \in {m, n} /\ Min({m, n}) <= m /\ Min({m, n}) <= n
  <2> TAKE m, n \in Nat
  <2>1. {m, n} \in SUBSET Nat /\ {m, n} # {}
    OBVIOUS
  <2> QED BY <2>1, MinIsMember
<1> QED BY <1>1 DEF Earlier

LEMMA EarliestIs ==
    ASSUME NEW A \in SUBSET Nat
    PROVE  Earliest(A) \in Nat /\ (A # {} => Earliest(A) \in A /\ \A y \in A : Earliest(A) <= y)
BY MinIsMember DEF Earliest

\* The count of a device, in the terms of the lemmas above.
LEMMA CountIs ==
    ASSUME NEW r, NEW trusted, NEW known
    PROVE  CountRevocation(r, trusted, known) =
               Earlier(Earliest(ByOwner(r, trusted)), GuardianSeq(r, Valid(r, trusted, known)))
BY DEF CountRevocation, GuardianSeq, EarliestVersion, Versions

\* A valid record is known and names a guardian set.
LEMMA ValidKnown ==
    ASSUME NEW r, NEW known
    PROVE  /\ Valid(r, Revocations(r, known), known) \in SUBSET known
           /\ Versions(r, Valid(r, Revocations(r, known), known)) \in SUBSET DOMAIN Splits
BY DEF Valid, ByGuardian, Revocations, Versions, NamesItsSet

\* The cut-off a device counts does not move later as the device reads on.
LEMMA CutNoLater ==
    ASSUME ThresholdsNeverFall, NEW r, NEW n \in Nat,
           NEW k2 \in SUBSET (1..n), NEW k1 \in SUBSET k2,
           \A s \in k1, q \in k2 \ k1 : s < q,
           CountRevocation(r, Revocations(r, k1), k1) # 0
    PROVE  CountRevocation(r, Revocations(r, k2), k2)
               \in 1..CountRevocation(r, Revocations(r, k1), k1)
<1> DEFINE A == Valid(r, Revocations(r, k1), k1)
           B == Valid(r, Revocations(r, k2), k2)
           O1 == ByOwner(r, Revocations(r, k1))
           O2 == ByOwner(r, Revocations(r, k2))
<1>0. \A s, q \in k2 : s \in Nat /\ q \in Nat /\ (s < q => ~(q < s))
  OBVIOUS
<1>1. \A t : \A s \in k1 : RemovedAt(r, k1, t, s) <=> RemovedAt(r, k2, t, s)
  <2> TAKE t
  <2> TAKE s \in k1
  <2>1. {q \in k1 : q < s /\ r[q].kind = "membership" /\ r[q].tenant = t}
            = {q \in k2 : q < s /\ r[q].kind = "membership" /\ r[q].tenant = t}
    BY <1>0
  <2> QED BY <2>1 DEF RemovedAt, StatusBefore
<1>2. \A s \in k1 : s \in A <=> s \in B
  BY <1>1 DEF Valid, ByGuardian, Revocations
<1>3. A \in SUBSET k1 /\ B \in SUBSET k2 /\ Versions(r, A) \in SUBSET DOMAIN Splits
      /\ Versions(r, B) \in SUBSET DOMAIN Splits
  BY ValidKnown
<1>4. O1 \in SUBSET k1 /\ O2 \in SUBSET k2 /\ \A s \in k1 : s \in O1 <=> s \in O2
  BY DEF ByOwner, Revocations
<1>5. /\ CountRevocation(r, Revocations(r, k1), k1) = Earlier(Earliest(O1), GuardianSeq(r, A))
      /\ CountRevocation(r, Revocations(r, k2), k2) = Earlier(Earliest(O2), GuardianSeq(r, B))
  BY CountIs
<1> HIDE DEF A, B, O1, O2
<1>6. GuardianSeq(r, A) \in Nat /\ GuardianSeq(r, B) \in Nat
  <2>1. A \in SUBSET (1..n) /\ B \in SUBSET (1..n)
    BY <1>3
  <2>2. GuardianSeq(r, A) \in 0..n /\ GuardianSeq(r, B) \in 0..n
    BY <1>3, <2>1, GuardianSeqInLog
  <2> QED BY <2>2
<1>7. GuardianSeq(r, A) # 0 => GuardianSeq(r, B) \in 1..GuardianSeq(r, A)
  <2>1. A \in SUBSET B /\ B \in SUBSET (1..n)
    BY <1>2, <1>3
  <2>2. \A b \in B \ A, a \in A : a < b
    BY <1>2, <1>3
  <2> QED BY <1>3, <2>1, <2>2, GuardianSeqNoLater
<1>8. O2 \in SUBSET Nat /\ O1 \in SUBSET Nat
  BY <1>0, <1>4
<1>9. Earliest(O1) \in Nat /\ Earliest(O2) \in Nat
  BY <1>8, EarliestIs
<1>10. Earliest(O1) # 0 => Earliest(O2) \in 1..Earliest(O1)
  <2> SUFFICES ASSUME Earliest(O1) # 0 PROVE Earliest(O2) \in 1..Earliest(O1)
    OBVIOUS
  <2>1. O1 # {}
    BY DEF Earliest
  <2>2. Earliest(O1) \in O2
    BY <1>4, <1>8, <2>1, EarliestIs
  <2>3. Earliest(O2) \in O2 /\ Earliest(O2) <= Earliest(O1)
    BY <1>8, <2>2, EarliestIs
  <2>4. Earliest(O2) >= 1
    <3>1. Earliest(O2) \in 1..n
      BY <1>4, <2>3
    <3> QED BY <3>1
  <2> QED BY <1>9, <2>3, <2>4
<1>11. Earlier(Earliest(O1), GuardianSeq(r, A)) # 0
  BY <1>5
<1>12. Earlier(Earliest(O2), GuardianSeq(r, B)) \in 1..Earlier(Earliest(O1), GuardianSeq(r, A))
  BY <1>6, <1>7, <1>9, <1>10, <1>11, EarlierNoLater
<1> QED BY <1>5, <1>12

\* A longer log is counted as before by a device that knows no more of it.
LEMMA SameCount ==
    ASSUME NEW r1, NEW r2, NEW k, KnowsMore(r1, k, r2, k), NEW trusted \in SUBSET k
    PROVE  /\ Revocations(r1, trusted) = Revocations(r2, trusted)
           /\ CountRevocation(r1, trusted, k) = CountRevocation(r2, trusted, k)
<1> USE DEF KnowsMore
<1>1. \A t, n : RemovedAt(r1, k, t, n) <=> RemovedAt(r2, k, t, n)
  <2> TAKE t, n
  <2> DEFINE told(r) == {s \in k : s < n /\ r[s].kind = "membership" /\ r[s].tenant = t}
  <2>1. told(r1) = told(r2)
    OBVIOUS
  <2>2. told(r1) # {} => Max(told(r1)) \in told(r1)
    <3>1. Len(r1) \in Nat /\ told(r1) \in SUBSET (0..Len(r1))
      OBVIOUS
    <3> HIDE DEF told
    <3> QED BY <3>1, MaxIsMember
  <2>3. told(r1) # {} => r1[Max(told(r1))] = r2[Max(told(r1))]
    BY <2>2
  <2> QED BY <2>1, <2>3 DEF RemovedAt, StatusBefore
<1>2. /\ Revocations(r1, trusted) = Revocations(r2, trusted)
      /\ ByOwner(r1, trusted) = ByOwner(r2, trusted)
      /\ ByGuardian(r1, trusted) = ByGuardian(r2, trusted)
  BY DEF Revocations, ByOwner, ByGuardian
<1>3. Valid(r1, trusted, k) = Valid(r2, trusted, k)
  BY <1>1, <1>2 DEF Valid, ByGuardian, Revocations
<1>4. Valid(r1, trusted, k) \subseteq k
  BY DEF Valid, ByGuardian, Revocations
<1> HIDE DEF KnowsMore
<1> DEFINE A == Valid(r1, trusted, k)
<1>5. \A s \in A : r1[s] = r2[s]
  BY <1>4 DEF KnowsMore
<1>6. CountRevocation(r1, trusted, k) = Earlier(Earliest(ByOwner(r1, trusted)), GuardianSeq(r1, A))
  BY CountIs
<1>7. CountRevocation(r2, trusted, k) = Earlier(Earliest(ByOwner(r2, trusted)), GuardianSeq(r2, A))
  BY <1>3, CountIs
<1> HIDE DEF A
<1>8. GuardianSeq(r1, A) = GuardianSeq(r2, A)
  <2>1. FirstOfEach(r1, A) = FirstOfEach(r2, A) /\ Versions(r1, A) = Versions(r2, A)
    BY <1>5 DEF FirstOfEach, Versions
  <2> QED BY <2>1 DEF GuardianSeq
<1> QED BY <1>2, <1>6, <1>7, <1>8

-----------------------------------------------------------------------------
(* Quarantine *)

\* Until a restart: what a device has verified is at or below its cursor, what it
\* trusts are the revocation records among it, and, unless the device has wiped
\* itself, what it has quarantined is what its cut-off says.
DeviceFollows(d) ==
    /\ \A s \in seen[d] : s <= cursor[d]
    /\ trust[d] = Revocations(rec, seen[d])
    /\ mode[d] # "wiped" => quarantined[d] = AtOrPast(pulled[d], Cut(d))

QuarantineInv == restarts = 0 => \A d \in Device : DeviceFollows(d)

LEMMA ServerKeepsQuarantine ==
    ASSUME ServerTypes, DeviceTypes, QuarantineInv, [Next]_vars, UNCHANGED deviceVars
    PROVE  QuarantineInv'
<1> USE DEF Seqs
<1> SUFFICES ASSUME restarts = 0, NEW d \in Device PROVE DeviceFollows(d)'
  BY DEF QuarantineInv, deviceVars
<1>1. DeviceFollows(d)
  BY DEF QuarantineInv
<1>2. rec \in Seq(Record) /\ seen[d] \subseteq Seqs /\ trust[d] \subseteq seen[d]
  BY <1>1 DEF ServerTypes, LogShape, DeviceTypes, DeviceFollows, Revocations
<1>3. KnowsMore(rec, seen[d], rec', seen[d])
  <2>1. CASE UNCHANGED rec
    BY <1>2, <2>1 DEF KnowsMore
  <2>2. ASSUME NEW x \in Record, rec' = Append(rec, x)
        PROVE  KnowsMore(rec, seen[d], rec', seen[d])
    BY <1>2, <2>2, Appended DEF KnowsMore
  <2> QED BY <2>1, <2>2, LogGrows DEF ServerTypes
<1>4. Revocations(rec', seen[d]) = Revocations(rec, seen[d])
  BY <1>2, <1>3, SameCount
<1>5. CountRevocation(rec', trust[d], seen[d]) = CountRevocation(rec, trust[d], seen[d])
  BY <1>2, <1>3, SameCount
<1> QED BY <1>1, <1>4, <1>5 DEF DeviceFollows, Cut, deviceVars

LEMMA ReadMetaKeepsQuarantine ==
    ASSUME ThresholdsNeverFall, ServerTypes, DeviceTypes, QuarantineInv, restarts = 0,
           NEW d \in Device, ReadMeta(d)
    PROVE  QuarantineInv'
<1> DEFINE fresh == {s \in Readable(d) : s > cursor[d]} \ seen[d]
           k2 == seen[d] \cup fresh
<1>1. /\ UNCHANGED <<rec, open, pulled, restarts>> /\ mode[d] # "wiped"
      /\ seen' = [seen EXCEPT ![d] = @ \cup fresh]
      /\ trust' = [trust EXCEPT ![d] = @ \cup Revocations(rec, fresh)]
      /\ cursor' = [cursor EXCEPT ![d] = Max({@} \cup Readable(d))]
      /\ mode' = [mode EXCEPT ![d] = mode'[d]]
      /\ mode'[d] = "wiped" \/ (mode'[d] = "suspended" /\ Cut(d)' = 0) \/ mode'[d] = "active"
      /\ quarantined' = [quarantined EXCEPT ![d] =
                              IF mode'[d] = "active" THEN Enforced(d, Cut(d)') ELSE @]
  BY DEF ReadMeta, serverVars, DeviceTypes
<1>2. /\ rec \in Seq(Record) /\ Len(rec) \in Nat /\ Seqs = 1..Len(rec)
      /\ seen[d] \subseteq Seqs /\ cursor[d] \in Nat
  BY DEF ServerTypes, LogShape, DeviceTypes, Seqs
<1>3. fresh \subseteq Seqs
  BY DEF Readable, Committed
<1>4. DeviceFollows(d)
  BY DEF QuarantineInv
<1>5. /\ seen'[d] = k2 /\ trust'[d] = trust[d] \cup Revocations(rec, fresh)
      /\ cursor'[d] = Max({cursor[d]} \cup Readable(d)) /\ pulled'[d] = pulled[d]
      /\ quarantined'[d] = IF mode'[d] = "active" THEN Enforced(d, Cut(d)') ELSE quarantined[d]
  BY <1>1 DEF DeviceTypes
<1>6. trust'[d] = Revocations(rec, k2)
  BY <1>4, <1>5 DEF DeviceFollows, Revocations
<1>7. Cut(d)' = CountRevocation(rec, Revocations(rec, k2), k2)
  BY <1>1, <1>5, <1>6 DEF Cut
<1>8. Cut(d) = CountRevocation(rec, Revocations(rec, seen[d]), seen[d])
  BY <1>4 DEF DeviceFollows, Cut
<1>9. \A s \in seen[d], q \in fresh : s < q
  <2> TAKE s \in seen[d], q \in fresh
  <2>1. s \in Nat /\ q \in Nat /\ s <= cursor[d] /\ q > cursor[d]
    BY <1>2, <1>3, <1>4 DEF DeviceFollows
  <2> QED BY <1>2, <2>1
<1>10. \A s \in k2 : s <= cursor'[d]
  <2>1. cursor'[d] \in {cursor[d]} \cup Readable(d) /\ \A s \in {cursor[d]} \cup Readable(d) : s <= cursor'[d]
    BY <1>5, CursorAdvances DEF ServerTypes
  <2>2. cursor'[d] \in Nat
    BY <1>2, <2>1 DEF Readable, Committed
  <2>3. ASSUME NEW s \in seen[d]
        PROVE  s <= cursor'[d]
    <3>1. s \in Nat /\ s <= cursor[d] /\ cursor[d] <= cursor'[d]
      BY <1>2, <1>4, <2>1 DEF DeviceFollows
    <3> QED BY <1>2, <2>2, <3>1
  <2> QED BY <2>1, <2>3
<1>11. Cut(d) # 0 => Cut(d)' \in 1..Cut(d)
  <2>1. k2 \in SUBSET (1..Len(rec)) /\ seen[d] \in SUBSET k2
    BY <1>2, <1>3
  <2>2. \A s \in seen[d], q \in k2 \ seen[d] : s < q
    BY <1>9
  <2> HIDE DEF k2
  <2> QED BY <1>2, <1>7, <1>8, <2>1, <2>2, CutNoLater
<1> HIDE DEF fresh, k2
<1>12. Cut(d) \in Nat /\ pulled[d] \subseteq Nat
  <2>1. Cut(d) \in Nat
    <3> DEFINE A == Valid(rec, Revocations(rec, seen[d]), seen[d])
               O == ByOwner(rec, Revocations(rec, seen[d]))
    <3>1. A \in SUBSET seen[d] /\ Versions(rec, A) \in SUBSET DOMAIN Splits
      BY ValidKnown
    <3>2. O \in SUBSET Nat
      BY <1>2 DEF ByOwner, Revocations
    <3>3. Cut(d) = Earlier(Earliest(O), GuardianSeq(rec, A))
      BY <1>8, CountIs
    <3> HIDE DEF A, O
    <3>4. A \in SUBSET (1..Len(rec))
      BY <1>2, <3>1
    <3>5. GuardianSeq(rec, A) \in 0..Len(rec)
      BY <1>2, <3>1, <3>4, GuardianSeqInLog
    <3>6. Earliest(O) \in Nat /\ GuardianSeq(rec, A) \in Nat
      BY <1>2, <3>2, <3>5, EarliestIs
    <3>7. {Earliest(O), GuardianSeq(rec, A)} \in SUBSET Nat
      BY <3>6
    <3>8. Min({Earliest(O), GuardianSeq(rec, A)}) \in Nat
      BY <3>7, MinIsMember
    <3> QED BY <3>3, <3>6, <3>8 DEF Earlier
  <2>2. pulled[d] \subseteq Seqs
    BY DEF DeviceTypes
  <2> QED BY <1>2, <2>1, <2>2
<1>13. mode'[d] # "wiped" => quarantined'[d] = AtOrPast(pulled'[d], Cut(d)')
  <2> SUFFICES ASSUME mode'[d] # "wiped" PROVE quarantined'[d] = AtOrPast(pulled[d], Cut(d)')
    BY <1>5
  <2>1. quarantined[d] = AtOrPast(pulled[d], Cut(d))
    BY <1>1, <1>4 DEF DeviceFollows
  <2>2. AtOrPast(pulled[d], Cut(d)) \subseteq AtOrPast(pulled[d], Cut(d)')
    <3>1. CASE Cut(d) = 0
      BY <3>1 DEF AtOrPast
    <3>2. CASE Cut(d) # 0
      <4>1. Cut(d)' \in Nat /\ Cut(d)' # 0 /\ Cut(d)' <= Cut(d)
        BY <1>11, <1>12, <3>2
      <4>2. \A s \in pulled[d] : s >= Cut(d) => s >= Cut(d)'
        BY <1>12, <4>1
      <4> QED BY <4>1, <4>2 DEF AtOrPast
    <3> QED BY <3>1, <3>2
  <2>3. CASE mode'[d] = "active"
    BY <1>5, <2>1, <2>2, <2>3 DEF Enforced
  <2>4. CASE mode'[d] = "suspended"
    <3>1. Cut(d)' = 0
      BY <1>1, <2>4
    <3>2. Cut(d) = 0
      BY <1>11, <1>12, <3>1
    <3> QED BY <1>5, <2>1, <2>4, <3>1, <3>2
  <2> QED BY <1>1, <2>3, <2>4
<1>14. DeviceFollows(d)'
  BY <1>1, <1>5, <1>6, <1>10, <1>13 DEF DeviceFollows
<1>15. ASSUME NEW e \in Device, e # d
       PROVE  DeviceFollows(e)'
  <2>1. /\ seen'[e] = seen[e] /\ trust'[e] = trust[e] /\ cursor'[e] = cursor[e]
        /\ mode'[e] = mode[e] /\ quarantined'[e] = quarantined[e] /\ pulled'[e] = pulled[e]
        /\ rec' = rec
    BY <1>1, <1>15 DEF DeviceTypes
  <2>2. DeviceFollows(e)
    BY DEF QuarantineInv
  <2> QED BY <2>1, <2>2 DEF DeviceFollows, Cut
<1> QED BY <1>14, <1>15 DEF QuarantineInv

LEMMA QuarantineKept ==
    ASSUME ThresholdsNeverFall, ServerTypes, DeviceTypes, QuarantineInv, [Next]_vars
    PROVE  QuarantineInv'
<1>1. CASE UNCHANGED deviceVars
  BY <1>1, ServerKeepsQuarantine
<1>2. ASSUME NEW d \in Device, ReadMeta(d)
      PROVE  QuarantineInv'
  <2>1. CASE restarts = 0
    BY <1>2, <2>1, ReadMetaKeepsQuarantine
  <2>2. CASE restarts # 0
    BY <1>2, <2>2 DEF ReadMeta, QuarantineInv
  <2> QED BY <2>1, <2>2
<1>3. ASSUME NEW d \in Device, Pull(d)
      PROVE  QuarantineInv'
  <2> SUFFICES ASSUME restarts = 0, NEW e \in Device PROVE DeviceFollows(e)'
    BY <1>3 DEF Pull, QuarantineInv
  <2>1. DeviceFollows(e)
    BY DEF QuarantineInv
  <2> DEFINE new == {s \in Committed : rec[s].kind = "envelope"} \ pulled[d]
  <2>2. /\ pulled' = [pulled EXCEPT ![d] = @ \cup new]
        /\ quarantined' = [quarantined EXCEPT ![d] = @ \cup AtOrPast(new, Cut(d))]
        /\ UNCHANGED <<rec, cursor, trust, seen, mode>>
    BY <1>3 DEF Pull, serverVars
  <2> HIDE DEF new
  <2>3. Cut(e)' = Cut(e)
    BY <2>2 DEF Cut
  <2>4. mode[e] # "wiped" => quarantined'[e] = AtOrPast(pulled'[e], Cut(e))
    <3>1. CASE e = d
      BY <2>1, <2>2, <3>1 DEF DeviceFollows, AtOrPast, DeviceTypes
    <3>2. CASE e # d
      BY <2>1, <2>2, <3>2 DEF DeviceFollows, DeviceTypes
    <3> QED BY <3>1, <3>2
  <2> QED BY <2>1, <2>2, <2>3, <2>4 DEF DeviceFollows
<1>4. ASSUME NEW d \in Device, Restart(d)
      PROVE  QuarantineInv'
  <2>1. restarts \in Nat /\ restarts' = restarts + 1
    BY <1>4, RevocationBounds DEF Restart, DeviceTypes
  <2> QED BY <2>1 DEF QuarantineInv
<1> QED BY <1>1, <1>2, <1>3, <1>4, ServerLeavesDevices DEF Next

LEMMA QuarantineAtStart == Init => QuarantineInv
<1> SUFFICES ASSUME Init, NEW d \in Device PROVE DeviceFollows(d)
  BY DEF QuarantineInv
<1>1. seen[d] = {} /\ trust[d] = {} /\ quarantined[d] = {} /\ pulled[d] = {}
  BY DEF Init
<1> QED BY <1>1 DEF DeviceFollows, Revocations, AtOrPast

\* What an active device has quarantined is exactly what the lost device wrote
\* from the cut-off on, whether the envelope or the record was read first, and
\* however often the cut-off has moved (_enforceCutoffs, _admit), as long as no
\* later guardian set asks for fewer approvals than an earlier one.
THEOREM QuarantineIsTheCutHolds ==
    ThresholdsNeverFall => (Spec => []QuarantineIsTheCut)
<1> SUFFICES ASSUME ThresholdsNeverFall PROVE Spec => []QuarantineIsTheCut
  OBVIOUS
<1>1. Init => ServerTypes /\ DeviceTypes /\ QuarantineInv
  BY TypesHold, QuarantineAtStart
<1>2. ServerTypes /\ DeviceTypes /\ QuarantineInv /\ [Next]_vars
          => ServerTypes' /\ DeviceTypes' /\ QuarantineInv'
  BY TypesHold, QuarantineKept
<1>3. QuarantineInv => QuarantineIsTheCut
  BY DEF QuarantineInv, DeviceFollows, QuarantineIsTheCut
<1> QED BY <1>1, <1>2, <1>3, PTL DEF Spec

-----------------------------------------------------------------------------
(* What the devices and the server count alike *)

\* Changes of the memberships row, in the log of the rows.
Entries(r, S) == {s \in S : r[s].kind = "fact"}

\* A transaction under way has filed its record, and every change that is
\* committed was stamped before it.
HasRecord == \A a \in Author : step[a] # "idle" => Mine(a) # {}
EntriesFirst == \A s \in open, e \in Entries(rec, Committed) : e < s

\* The admin's transaction files a membership record, and counts nothing.
AdminFiles ==
    /\ step[Admin] \in {"idle", "filed", "applied", "refused"}
    /\ step[Admin] = "filed" => \A s \in Mine(Admin) : rec[s].kind = "membership"

\* The subject's own record is never refused, is of a tenant they were in, and revokes.
OwnersStand ==
    /\ step[Owner] \in {"idle", "filed", "judged", "completes"}
    /\ \A s \in ByOwner(rec, Seqs) : HeldAt(rec, Committed, rec[s].tenant, s)
    /\ ByOwner(rec, Committed) # {} => revoked

\* A guardian's count that is complete stays complete until it commits.
CompletesStand ==
    \A a \in Author \ {Owner, Admin} :
        step[a] = "completes" => Tally(rec, Committed \cup Mine(a)) # 0

RevokedStands == revoked => ByOwner(rec, Committed) # {} \/ Tally(rec, Committed) # 0

\* A set is published in a tenant the subject has been in.
Told(r, k, kind, t, n) == {s \in k : s < n /\ r[s].kind = kind /\ r[s].tenant = t}
PublishedWhereJoined ==
    /\ \A v \in 1..sets : Told(rec, Committed, "fact", Splits[v].tenant, Len(rec) + 1) # {}
    /\ \A s \in Revocations(rec, Seqs) : NamesItsSet(rec[s]) =>
           Told(rec, Committed, "fact", rec[s].tenant, s) # {}

\* Every membership record, and every change of the row, tells a status; a change
\* that cites a record is the one which that record asks for.
EntriesTell ==
    \A s \in Seqs :
        /\ rec[s].kind \in {"membership", "fact"} => rec[s].status # "none"
        /\ rec[s].kind = "fact" => Cites(rec[s], s)

ServerInv ==
    /\ HasRecord /\ EntriesFirst /\ AdminFiles /\ EntriesTell /\ OwnersStand
    /\ CompletesStand /\ RevokedStands /\ PublishedWhereJoined

-----------------------------------------------------------------------------
(* What a step does to the log, move by move *)

\* A record of author x.by is inserted into a transaction under way.
Inserted(x) ==
    /\ rec' \in Seq(Record) /\ Len(rec) + 1 \notin Seqs /\ Seqs' = Seqs \cup {Len(rec) + 1}
    /\ \A s \in Seqs : s < Len(rec) + 1 /\ rec'[s] = rec[s]
    /\ rec'[Len(rec) + 1] = x /\ x.by \in Author
    /\ open' = open \cup {Len(rec) + 1} /\ Committed' = Committed
    /\ Mine(x.by)' = Mine(x.by) \cup {Len(rec) + 1}
    /\ \A a \in Author \ {x.by} : Mine(a)' = Mine(a)
    /\ Len(rec') = Len(rec) + 1

LEMMA InsertedIs ==
    ASSUME LogShape, NEW x \in Record, rec' = Append(rec, x), open' = open \cup {Len(rec) + 1}
    PROVE  Inserted(x)
<1> USE DEF Seqs
<1>1. rec \in Seq(Record) /\ open \subseteq Seqs /\ Len(rec') = Len(rec) + 1
  BY DEF LogShape
<1>2. /\ rec' \in Seq(Record) /\ Len(rec) + 1 \notin Seqs /\ Seqs' = Seqs \cup {Len(rec) + 1}
      /\ \A s \in Seqs : s < Len(rec) + 1 /\ rec'[s] = rec[s]
      /\ rec'[Len(rec) + 1] = x
  BY <1>1, Appended
<1>3. x.by \in Author
  BY DEF Record, Author
<1> DEFINE new == Len(rec) + 1
<1> HIDE DEF new
<1>4. /\ open' = open \cup {new} /\ new \notin Seqs /\ Seqs' = Seqs \cup {new}
      /\ rec'[new] = x /\ \A s \in open : rec'[s] = rec[s]
  BY <1>1, <1>2 DEF new
<1>5. Committed' = Committed
  BY <1>1, <1>4 DEF Committed
<1>6. Mine(x.by)' = Mine(x.by) \cup {new} /\ \A a \in Author \ {x.by} : Mine(a)' = Mine(a)
  BY <1>4 DEF Mine
<1> QED BY <1>1, <1>2, <1>3, <1>5, <1>6 DEF Inserted, new

LEMMA FilingInserts ==
    ASSUME LogShape, NEW x \in Record, Filing(x)
    PROVE  Inserted(x)
BY InsertedIs DEF Filing

LEMMA ApplyInserts ==
    ASSUME LogShape, ApplyMembership
    PROVE  \E s \in Mine(Admin), x \in Record :
               /\ x = [kind |-> "fact", by |-> Admin, tenant |-> rec[s].tenant,
                       version |-> s, status |-> rec[s].status]
               /\ rec' = Append(rec, x) /\ Inserted(x)
<1>1. PICK s \in Mine(Admin) :
          /\ rec' = Append(rec, [kind |-> "fact", by |-> Admin, tenant |-> rec[s].tenant,
                                 version |-> s, status |-> rec[s].status])
          /\ open' = open \cup {Len(rec) + 1}
  BY DEF ApplyMembership, Stamped
<1>2. rec[s] \in Record /\ s \in Nat
  BY DEF Mine, Seqs, LogShape
<1> DEFINE x == [kind |-> "fact", by |-> Admin, tenant |-> rec[s].tenant,
                 version |-> s, status |-> rec[s].status]
<1>3. x \in Record
  BY <1>2 DEF Record
<1>4. rec' = Append(rec, x)
  BY <1>1
<1> HIDE DEF x
<1>5. Inserted(x)
  BY <1>1, <1>3, <1>4, InsertedIs
<1> QED BY <1>3, <1>4, <1>5 DEF x

\* An entry that is no record is committed as it is stamped.
Committing(x) ==
    /\ rec' \in Seq(Record) /\ Len(rec) + 1 \notin Seqs /\ Seqs' = Seqs \cup {Len(rec) + 1}
    /\ \A s \in Seqs : s < Len(rec) + 1 /\ rec'[s] = rec[s]
    /\ rec'[Len(rec) + 1] = x
    /\ open' = open /\ Committed' = Committed \cup {Len(rec) + 1}
    /\ \A a \in Author : Mine(a)' = Mine(a)
    /\ Len(rec') = Len(rec) + 1

LEMMA StampingCommits ==
    ASSUME LogShape, NEW x \in Record, Stamping(x)
    PROVE  Committing(x)
<1> USE DEF Seqs
<1>1. rec \in Seq(Record) /\ open \subseteq Seqs /\ rec' = Append(rec, x) /\ open' = open
  BY DEF LogShape, Stamping
<1>2. /\ rec' \in Seq(Record) /\ Len(rec) + 1 \notin Seqs /\ Seqs' = Seqs \cup {Len(rec) + 1}
      /\ \A s \in Seqs : s < Len(rec) + 1 /\ rec'[s] = rec[s]
      /\ rec'[Len(rec) + 1] = x /\ Len(rec') = Len(rec) + 1
  BY <1>1, Appended
<1>3. Committed' = Committed \cup {Len(rec) + 1}
  BY <1>1, <1>2 DEF Committed
<1>4. \A a \in Author : Mine(a)' = Mine(a)
  BY <1>1, <1>2 DEF Mine
<1> QED BY <1>1, <1>2, <1>3, <1>4 DEF Committing

LEMMA CommitMoves ==
    ASSUME LogShape, NEW a \in Author, Commit(a)
    PROVE  /\ rec' = rec /\ Committed' = Committed \cup Mine(a) /\ open' = open \ Mine(a)
           /\ Mine(a) \subseteq open /\ open \subseteq Seqs
           /\ \A b \in Author \ {a} : Mine(b)' = Mine(b)
           /\ step[a] \in {"refused", "counted", "completes", "applied"}
           /\ step' = [step EXCEPT ![a] = "idle"]
BY DEF LogShape, Commit, Committed, Mine, Seqs

\* The steps that leave the log alone.
LEMMA SameLogMoves ==
    ASSUME DeviceMoves \/ Publish \/ KeepMembership \/ UNCHANGED vars
               \/ \E a \in Author : Judge(a) \/ Count(a)
    PROVE  UNCHANGED <<rec, open, revoked>>
<1>1. DeviceMoves \/ UNCHANGED vars => UNCHANGED <<rec, open, revoked>>
  BY DEF DeviceMoves, ReadMeta, Pull, Restart, vars, serverVars
<1>2. Publish \/ KeepMembership => UNCHANGED <<rec, open, revoked>>
  BY DEF Publish, KeepMembership
<1>3. ASSUME NEW a \in Author, Judge(a) \/ Count(a)
      PROVE  UNCHANGED <<rec, open, revoked>>
  BY <1>3 DEF Judge, Count
<1> QED BY <1>1, <1>2, <1>3

\* Every step extends the log and what is committed of it.
Extends ==
    /\ rec \in Seq(Record) /\ Committed \subseteq Seqs /\ rec' \in Seq(Record)
    /\ Seqs \subseteq Seqs' /\ \A s \in Seqs : rec'[s] = rec[s]
    /\ Committed \subseteq Committed' /\ Committed' \subseteq Seqs'

LEMMA StepExtends ==
    ASSUME LogShape, [Next]_vars
    PROVE  Extends
<1>1. rec \in Seq(Record) /\ Committed \subseteq Seqs /\ open \subseteq Seqs
  BY DEF LogShape, Committed
<1>2. \A x : Inserted(x) \/ Committing(x) => Extends
  BY <1>1 DEF Inserted, Committing, Extends, Committed
<1>3. ASSUME NEW x \in Record, Filing(x) \/ Stamping(x)
      PROVE  Extends
  BY <1>2, <1>3, FilingInserts, StampingCommits
<1>4. ApplyMembership => Extends
  BY <1>2, ApplyInserts
<1>5. ASSUME NEW a \in Author, Commit(a)
      PROVE  Extends
  BY <1>1, <1>5, CommitMoves DEF Extends, Seqs, Committed
<1>6. UNCHANGED <<rec, open>> => Extends
  BY <1>1 DEF Extends, Seqs, Committed
<1> QED BY <1>3, <1>4, <1>5, <1>6, SameLogMoves, Moves

-----------------------------------------------------------------------------
(* The status that the entries tell *)

\* The same entries told, the same status.
LEMMA SameStatus ==
    ASSUME NEW r1 \in Seq(Record), NEW k1 \in SUBSET DOMAIN r1, NEW r2, NEW k2,
           NEW kind, NEW t, NEW n1, NEW n2,
           Told(r1, k1, kind, t, n1) = Told(r2, k2, kind, t, n2),
           \A s \in k1 : r1[s] = r2[s]
    PROVE  StatusBefore(r1, k1, kind, t, n1) = StatusBefore(r2, k2, kind, t, n2)
<1> DEFINE S == Told(r1, k1, kind, t, n1)
<1>1. S # {} => Max(S) \in S
  <2>1. Len(r1) \in Nat /\ S \in SUBSET (0..Len(r1))
    BY DEF Told
  <2> HIDE DEF S
  <2> QED BY <2>1, MaxIsMember
<1>2. S # {} => r1[Max(S)] = r2[Max(S)]
  BY <1>1 DEF Told
<1> QED BY <1>2 DEF Told, StatusBefore

\* A status that is told at all is told by an entry.
LEMMA StatusTold ==
    ASSUME NEW r, NEW k, NEW kind, NEW t, NEW n, StatusBefore(r, k, kind, t, n) # "none"
    PROVE  Told(r, k, kind, t, n) # {}
BY DEF StatusBefore, Told

\* The last entry is the status now.
LEMMA LastIsStatus ==
    ASSUME NEW r \in Seq(Record), NEW k \in SUBSET DOMAIN r, NEW kind, NEW t, NEW n,
           NEW e \in Told(r, k, kind, t, n), \A s \in Told(r, k, kind, t, n) : s <= e
    PROVE  StatusBefore(r, k, kind, t, n) = r[e].status
<1> DEFINE S == Told(r, k, kind, t, n)
<1>1. S \in SUBSET Nat /\ S \in SUBSET (0..Len(r)) /\ Len(r) \in Nat /\ S # {}
  BY DEF Told
<1>2. StatusBefore(r, k, kind, t, n) = r[Max(S)].status
  BY <1>1 DEF StatusBefore, Told
<1>3. e \in S /\ \A s \in S : s <= e
  OBVIOUS
<1> HIDE DEF S
<1>4. Max(S) \in S /\ e <= Max(S)
  BY <1>1, <1>3, MaxIsMember
<1>5. Max(S) = e
  <2>1. Max(S) <= e /\ Max(S) \in Nat /\ e \in Nat
    BY <1>1, <1>3, <1>4
  <2> QED BY <1>4, <2>1
<1> QED BY <1>2, <1>5

\* What is newly committed comes after seq n: the status before n stays.
LEMMA StatusStays ==
    ASSUME Extends, NEW t, NEW n, \A e \in Entries(rec', Committed' \ Committed) : ~(e < n)
    PROVE  /\ Told(rec', Committed', "fact", t, n) = Told(rec, Committed, "fact", t, n)
           /\ StatusBefore(rec', Committed', "fact", t, n) = StatusBefore(rec, Committed, "fact", t, n)
<1>1. Told(rec', Committed', "fact", t, n) = Told(rec, Committed, "fact", t, n)
  BY DEF Extends, Told, Entries
<1>2. rec \in Seq(Record) /\ Committed \in SUBSET DOMAIN rec /\ \A s \in Committed : rec[s] = rec'[s]
  BY DEF Extends, Seqs
<1> QED BY <1>1, <1>2, SameStatus

-----------------------------------------------------------------------------
(* The transactions of one step to the next *)

LEMMA SeqsAreNat ==
    ASSUME LogShape
    PROVE  /\ Len(rec) \in Nat /\ Len(rec) + 1 \in Nat
           /\ \A s \in Seqs : s \in Nat /\ s >= 1 /\ s < Len(rec) + 1
           /\ \A s, q \in Seqs : s < q => ~(q < s) /\ s # q
BY DEF LogShape, Seqs

\* What other transactions file is no entry of the membership.
LEMMA OthersFileNoEntry ==
    ASSUME RevocationInv, NEW a \in Author \ {Admin}
    PROVE  /\ \A s \in Mine(a) : s \in open /\ rec[s].by = a /\ rec[s].kind = "revocation"
           /\ Entries(rec, Mine(a)) = {}
BY DEF RevocationInv, OthersRevoke, Mine, Entries

\* While the admin's transaction is under way there is no other.
LEMMA AdminIsAlone ==
    ASSUME RevocationInv, Mine(Admin) # {}
    PROVE  open = Mine(Admin) /\ \A a \in Author \ {Admin} : Mine(a) = {}
BY DEF RevocationInv, AdminAlone, Mine

\* An entry that is committed by this step comes after every revocation record.
LEMMA NewEntriesLast ==
    ASSUME RevocationInv, [Next]_vars, NEW n \in Revocations(rec, Seqs)
    PROVE  \A e \in Entries(rec', Committed' \ Committed) : ~(e < n)
<1>1. LogShape /\ n \in Seqs
  BY DEF RevocationInv, Revocations
<1>2. ASSUME NEW x \in Record, Filing(x)
      PROVE  \A e \in Entries(rec', Committed' \ Committed) : ~(e < n)
  BY <1>1, <1>2, FilingInserts DEF Inserted, Entries
<1>3. ASSUME ApplyMembership
      PROVE  \A e \in Entries(rec', Committed' \ Committed) : ~(e < n)
  BY <1>1, <1>3, ApplyInserts DEF Inserted, Entries
<1>4. ASSUME NEW x \in Record, Stamping(x)
      PROVE  \A e \in Entries(rec', Committed' \ Committed) : ~(e < n)
  <2>1. Committed' = Committed \cup {Len(rec) + 1} /\ n < Len(rec) + 1
    BY <1>1, <1>4, StampingCommits DEF Committing
  <2>2. \A e \in Entries(rec', Committed' \ Committed) : e = Len(rec) + 1
    BY <2>1 DEF Entries
  <2>3. n \in Nat /\ Len(rec) + 1 \in Nat
    BY <1>1, SeqsAreNat
  <2> QED BY <2>1, <2>2, <2>3
<1>5. ASSUME NEW a \in Author, Commit(a)
      PROVE  \A e \in Entries(rec', Committed' \ Committed) : ~(e < n)
  <2>1. rec' = rec /\ Committed' = Committed \cup Mine(a) /\ Mine(a) \subseteq Seqs
    BY <1>1, <1>5, CommitMoves
  <2>2. CASE a # Admin
    BY <2>1, <2>2, OthersFileNoEntry DEF Entries
  <2>3. CASE a = Admin
    <3>1. \A e \in Mine(a) : n < e
      BY <2>3 DEF RevocationInv, AdminAlone, Mine
    <3> QED BY <1>1, <2>1, <3>1, SeqsAreNat DEF Entries
  <2> QED BY <2>2, <2>3
<1>6. ASSUME UNCHANGED <<rec, open>>
      PROVE  \A e \in Entries(rec', Committed' \ Committed) : ~(e < n)
  BY <1>6 DEF Entries, Committed, Seqs
<1> QED BY <1>1, <1>2, <1>3, <1>4, <1>5, <1>6, SameLogMoves, Moves

LEMMA HasRecordKept ==
    ASSUME RevocationInv, HasRecord, [Next]_vars
    PROVE  HasRecord'
<1>1. LogShape
  BY DEF RevocationInv
<1>2. step \in [Author -> {"idle", "filed", "refused", "judged", "counted", "completes", "applied"}]
  BY <1>1 DEF LogShape
<1>3. ASSUME NEW x \in Record, Filing(x)
      PROVE  HasRecord'
  <2>1. Inserted(x) /\ step' = [step EXCEPT ![x.by] = "filed"]
    BY <1>1, <1>3, FilingInserts DEF Filing
  <2> QED BY <1>2, <2>1 DEF HasRecord, Inserted
<1>4. ASSUME ApplyMembership
      PROVE  HasRecord'
  <2>1. PICK x \in Record : x.by = Admin /\ Inserted(x)
    BY <1>1, <1>4, ApplyInserts
  <2>2. step' = [step EXCEPT ![Admin] = "applied"]
    BY <1>4 DEF ApplyMembership
  <2> QED BY <1>2, <2>1, <2>2 DEF HasRecord, Inserted
<1>5. ASSUME NEW x \in Record, Stamping(x)
      PROVE  HasRecord'
  <2>1. (\A a \in Author : Mine(a)' = Mine(a)) /\ step' = step
    BY <1>1, <1>5, StampingCommits DEF Committing, Stamping
  <2> QED BY <2>1 DEF HasRecord
<1>6. ASSUME NEW a \in Author, Judge(a) \/ Count(a)
      PROVE  HasRecord'
  <2>1. UNCHANGED <<rec, open>> /\ step[a] # "idle" /\ \A b \in Author \ {a} : step'[b] = step[b]
    BY <1>2, <1>6 DEF Judge, Count
  <2>2. \A b \in Author : Mine(b)' = Mine(b)
    BY <2>1 DEF Mine
  <2> QED BY <2>1, <2>2 DEF HasRecord
<1>7. ASSUME NEW a \in Author, Commit(a)
      PROVE  HasRecord'
  <2>1. step' = [step EXCEPT ![a] = "idle"] /\ \A b \in Author \ {a} : Mine(b)' = Mine(b)
    BY <1>1, <1>7, CommitMoves
  <2> QED BY <1>2, <2>1 DEF HasRecord
<1>8. ASSUME UNCHANGED <<rec, open, step>>
      PROVE  HasRecord'
  BY <1>8 DEF HasRecord, Mine
<1>9. Publish \/ DeviceMoves \/ UNCHANGED vars => UNCHANGED <<rec, open, step>>
  BY DEF Publish, DeviceMoves, ReadMeta, Pull, Restart, vars, serverVars
<1>10. ASSUME KeepMembership
       PROVE  HasRecord'
  <2>1. UNCHANGED <<rec, open>> /\ step[Admin] # "idle" /\ \A b \in Author \ {Admin} : step'[b] = step[b]
    BY <1>2, <1>10 DEF KeepMembership
  <2>2. \A b \in Author : Mine(b)' = Mine(b)
    BY <2>1 DEF Mine
  <2> QED BY <2>1, <2>2 DEF HasRecord
<1> QED BY <1>1, <1>3, <1>4, <1>5, <1>6, <1>7, <1>8, <1>9, <1>10, Moves

LEMMA EntriesFirstKept ==
    ASSUME RevocationInv, EntriesFirst, [Next]_vars
    PROVE  EntriesFirst'
<1>1. LogShape /\ open \subseteq Seqs /\ Committed \subseteq Seqs
  BY DEF RevocationInv, LogShape, Committed
<1>2. ASSUME NEW x \in Record, Inserted(x)
      PROVE  EntriesFirst'
  <2>1. Entries(rec, Committed)' = Entries(rec, Committed)
    BY <1>1, <1>2 DEF Inserted, Entries
  <2> QED BY <1>1, <1>2, <2>1 DEF Inserted, EntriesFirst, Entries
<1>3. ASSUME NEW x \in Record, Stamping(x)
      PROVE  EntriesFirst'
  <2>1. CASE x.kind # "fact"
    <3>1. Entries(rec, Committed)' = Entries(rec, Committed) /\ open' = open
      BY <1>1, <1>3, <2>1, StampingCommits DEF Committing, Entries
    <3> QED BY <3>1 DEF EntriesFirst
  <2>2. CASE open = {}
    BY <1>3, <2>2 DEF Stamping, EntriesFirst
  <2> QED BY <1>3, <2>1, <2>2 DEF Stamping
<1>4. ASSUME NEW a \in Author, Commit(a)
      PROVE  EntriesFirst'
  <2>1. rec' = rec /\ Committed' = Committed \cup Mine(a) /\ open' = open \ Mine(a)
    BY <1>1, <1>4, CommitMoves
  <2>2. CASE a = Admin
    <3>1. CASE Mine(Admin) = {}
      BY <2>1, <2>2, <3>1 DEF EntriesFirst
    <3>2. CASE Mine(Admin) # {}
      BY <2>1, <2>2, <3>2, AdminIsAlone DEF EntriesFirst
    <3> QED BY <3>1, <3>2
  <2>3. CASE a # Admin
    <3>1. Entries(rec, Mine(a)) = {}
      BY <2>3, OthersFileNoEntry
    <3> QED BY <2>1, <3>1 DEF EntriesFirst, Entries
  <2> QED BY <2>2, <2>3
<1>5. ASSUME UNCHANGED <<rec, open>>
      PROVE  EntriesFirst'
  BY <1>5 DEF EntriesFirst, Entries, Committed, Seqs
<1> QED BY <1>1, <1>2, <1>3, <1>4, <1>5, FilingInserts, ApplyInserts, SameLogMoves, Moves

LEMMA AdminFilesKept ==
    ASSUME RevocationInv, AdminFiles, [Next]_vars
    PROVE  AdminFiles'
<1>1. LogShape /\ open \subseteq Seqs /\ \A a \in Author : Mine(a) \subseteq open
  BY DEF RevocationInv, LogShape, Mine
<1>2. step \in [Author -> {"idle", "filed", "refused", "judged", "counted", "completes", "applied"}]
  BY <1>1 DEF LogShape
<1>3. Admin \in Author
  BY DEF Author
<1>4. ASSUME step'[Admin] = step[Admin], Mine(Admin)' = Mine(Admin), \A s \in Seqs : rec'[s] = rec[s]
      PROVE  AdminFiles'
  BY <1>1, <1>3, <1>4 DEF AdminFiles
<1>5. ASSUME NEW x \in Record, Filing(x)
      PROVE  AdminFiles'
  <2>1. Inserted(x) /\ step' = [step EXCEPT ![x.by] = "filed"] /\ step[x.by] = "idle"
    BY <1>1, <1>5, FilingInserts DEF Filing
  <2>2. CASE x.by = Admin
    <3>1. x.kind = "membership"
      BY <1>5, <2>2, PeopleAreDistinct DEF Filing
    <3>2. Mine(Admin) = {}
      BY <2>1, <2>2 DEF RevocationInv, OneTransactionEach, Mine
    <3> QED BY <1>2, <1>3, <2>1, <2>2, <3>1, <3>2 DEF Inserted, AdminFiles
  <2>3. CASE x.by # Admin
    BY <1>2, <1>3, <1>4, <2>1, <2>3 DEF Inserted
  <2> QED BY <2>2, <2>3
<1>6. ASSUME step' = [step EXCEPT ![Admin] = "applied"] \/ step' = [step EXCEPT ![Admin] = "refused"]
      PROVE  AdminFiles'
  BY <1>2, <1>3, <1>6 DEF AdminFiles
<1>7. ASSUME NEW x \in Record, Stamping(x)
      PROVE  AdminFiles'
  BY <1>1, <1>3, <1>4, <1>7, StampingCommits DEF Committing, Stamping
<1>8. ASSUME NEW a \in Author, Judge(a) \/ Count(a)
      PROVE  AdminFiles'
  <2>1. a # Admin
    BY <1>8 DEF Judge, Count, AdminFiles
  <2>2. UNCHANGED <<rec, open>> /\ step'[Admin] = step[Admin]
    BY <1>2, <1>3, <1>8, <2>1 DEF Judge, Count
  <2>3. Mine(Admin)' = Mine(Admin)
    BY <2>2 DEF Mine
  <2> QED BY <1>4, <2>2, <2>3
<1>9. ASSUME NEW a \in Author, Commit(a)
      PROVE  AdminFiles'
  <2>1. rec' = rec /\ step' = [step EXCEPT ![a] = "idle"] /\ \A b \in Author \ {a} : Mine(b)' = Mine(b)
    BY <1>1, <1>9, CommitMoves
  <2>2. CASE a = Admin
    BY <1>2, <2>1, <2>2 DEF AdminFiles
  <2>3. CASE a # Admin
    BY <1>2, <1>3, <1>4, <2>1, <2>3
  <2> QED BY <2>2, <2>3
<1>10. ASSUME UNCHANGED <<rec, open, step>>
       PROVE  AdminFiles'
  BY <1>4, <1>10 DEF Mine
<1>11. Publish \/ DeviceMoves \/ UNCHANGED vars => UNCHANGED <<rec, open, step>>
  BY DEF Publish, DeviceMoves, ReadMeta, Pull, Restart, vars, serverVars
<1>12. ApplyMembership \/ KeepMembership => AdminFiles'
  BY <1>6 DEF ApplyMembership, KeepMembership
<1> QED BY <1>1, <1>5, <1>7, <1>8, <1>9, <1>10, <1>11, <1>12, Moves

LEMMA EntriesTellKept ==
    ASSUME RevocationInv, AdminFiles, EntriesTell, [Next]_vars
    PROVE  EntriesTell'
<1>1. LogShape /\ Extends /\ open \subseteq Seqs
  BY StepExtends DEF RevocationInv, LogShape
<1>2. ASSUME NEW s, s \in Seqs
      PROVE  (/\ rec[s].kind \in {"membership", "fact"} => rec[s].status # "none"
              /\ rec[s].kind = "fact" => Cites(rec[s], s))'
  <2>1. /\ rec[s].kind \in {"membership", "fact"} => rec[s].status # "none"
        /\ rec[s].kind = "fact" => Cites(rec[s], s)
    BY <1>2 DEF EntriesTell
  <2> QED BY <1>1, <1>2, <2>1 DEF Cites, Extends
<1>3. ASSUME NEW x \in Record, NEW new, new = Len(rec) + 1, Seqs' = Seqs \cup {new}, rec'[new] = x,
             x.kind \in {"membership", "fact"} => x.status # "none",
             x.kind = "fact" => Cites(x, new)
      PROVE  EntriesTell'
  <2>1. x.kind = "fact" => Cites(x, new)'
    BY <1>1, <1>3 DEF Cites, Extends
  <2>2. (/\ rec[new].kind \in {"membership", "fact"} => rec[new].status # "none"
         /\ rec[new].kind = "fact" => Cites(rec[new], new))'
    BY <1>3, <2>1 DEF Cites
  <2> QED BY <1>2, <1>3, <2>2 DEF EntriesTell
<1>4. ASSUME NEW x \in Record, Filing(x)
      PROVE  EntriesTell'
  <2>1. (x.kind \in {"membership", "fact"} => x.status # "none") /\ x.kind # "fact"
    BY <1>4 DEF Filing
  <2> QED BY <1>1, <1>3, <1>4, <2>1, FilingInserts DEF Inserted
<1>5. ASSUME ApplyMembership
      PROVE  EntriesTell'
  <2>1. PICK s \in Mine(Admin), x \in Record :
            /\ x = [kind |-> "fact", by |-> Admin, tenant |-> rec[s].tenant,
                    version |-> s, status |-> rec[s].status]
            /\ Inserted(x)
    BY <1>1, <1>5, ApplyInserts
  <2>2. rec[s].kind = "membership" /\ s \in Seqs
    BY <1>1, <1>5, <2>1 DEF ApplyMembership, AdminFiles, Mine
  <2>3. x.status # "none"
    BY <2>1, <2>2 DEF EntriesTell
  <2>4. Cites(x, Len(rec) + 1)
    BY <2>1, <2>2 DEF Cites, Inserted
  <2> QED BY <1>3, <2>1, <2>3, <2>4 DEF Inserted
<1>6. ASSUME NEW x \in Record, Stamping(x)
      PROVE  EntriesTell'
  <2>1. /\ x.kind \in {"membership", "fact"} => x.status # "none"
        /\ x.kind = "fact" => Cites(x, Len(rec) + 1)
    BY <1>6 DEF Stamping
  <2> QED BY <1>1, <1>3, <1>6, <2>1, StampingCommits DEF Committing
<1>7. UNCHANGED rec => EntriesTell'
  BY DEF EntriesTell, Cites, Seqs
<1>8. \A a \in Author : Commit(a) => UNCHANGED rec
  BY DEF Commit
<1> QED BY <1>1, <1>4, <1>5, <1>6, <1>7, <1>8, SameLogMoves, Moves

\* Where the subject stands before a record of theirs that is under way is where
\* they stand now.
LEMMA HeldNowIsHeldThen ==
    ASSUME LogShape, EntriesFirst, NEW s \in open, NEW t
    PROVE  HeldAt(rec, Committed, t, Len(rec) + 1) <=> HeldAt(rec, Committed, t, s)
<1>1. rec \in Seq(Record) /\ Committed \in SUBSET DOMAIN rec
  BY DEF LogShape, Committed, Seqs
<1>2. \A e \in Committed : e < Len(rec) + 1
  BY SeqsAreNat DEF Committed
<1>3. Told(rec, Committed, "fact", t, Len(rec) + 1) = Told(rec, Committed, "fact", t, s)
  BY <1>2 DEF EntriesFirst, Entries, Told
<1>4. StatusBefore(rec, Committed, "fact", t, Len(rec) + 1) = StatusBefore(rec, Committed, "fact", t, s)
  BY <1>1, <1>3, SameStatus
<1> QED BY <1>4 DEF HeldAt

LEMMA OwnersStandKept ==
    ASSUME RevocationInv, HasRecord, EntriesFirst, AdminFiles, OwnersStand, [Next]_vars
    PROVE  OwnersStand'
<1>1. LogShape /\ open \subseteq Seqs /\ Committed \subseteq Seqs /\ Extends
  BY StepExtends DEF RevocationInv, LogShape, Committed
<1>2. step \in [Author -> {"idle", "filed", "refused", "judged", "counted", "completes", "applied"}]
  BY <1>1 DEF LogShape
<1>3. Owner \in Author /\ Admin \in Author /\ Owner # Admin /\ Owner \notin Guardian
  BY PeopleAreDistinct DEF Author
<1>4. step'[Owner] \in {"idle", "filed", "judged", "completes"}
  <2>1. step[Owner] \in {"idle", "filed", "judged", "completes"}
    BY DEF OwnersStand
  <2>2. ASSUME NEW x \in Record, Filing(x)
        PROVE  step'[Owner] \in {"idle", "filed", "judged", "completes"}
    BY <1>2, <1>3, <2>1, <2>2 DEF Filing
  <2>3. ASSUME ApplyMembership
        PROVE  step'[Owner] \in {"idle", "filed", "judged", "completes"}
    BY <1>2, <1>3, <2>1, <2>3 DEF ApplyMembership
  <2>4. ASSUME NEW a \in Author, Judge(a)
        PROVE  step'[Owner] \in {"idle", "filed", "judged", "completes"}
    <3>1. PICK s \in Mine(a) : step' = [step EXCEPT ![a] = IF MayRevoke(a, s) THEN "judged" ELSE "refused"]
      BY <2>4 DEF Judge
    <3>2. CASE a = Owner
      <4>1. s \in open /\ s \in ByOwner(rec, Seqs)
        BY <1>1, <1>3, <3>2, OthersFileNoEntry DEF Mine, ByOwner, Revocations
      <4>2. HeldAt(rec, Committed, rec[s].tenant, Len(rec) + 1)
        BY <1>1, <4>1, HeldNowIsHeldThen DEF OwnersStand
      <4>3. MayRevoke(a, s)
        BY <3>2, <4>2 DEF MayRevoke
      <4> QED BY <1>2, <1>3, <3>1, <3>2, <4>3
    <3>3. CASE a # Owner
      BY <1>2, <1>3, <2>1, <3>1, <3>3
    <3> QED BY <3>2, <3>3
  <2>5. ASSUME NEW a \in Author, Count(a)
        PROVE  step'[Owner] \in {"idle", "filed", "judged", "completes"}
    <3>1. CASE a = Owner
      BY <1>2, <1>3, <2>5, <3>1 DEF Count
    <3>2. CASE a # Owner
      BY <1>2, <1>3, <2>1, <2>5, <3>2 DEF Count
    <3> QED BY <3>1, <3>2
  <2>6. ASSUME NEW a \in Author, Commit(a)
        PROVE  step'[Owner] \in {"idle", "filed", "judged", "completes"}
    BY <1>2, <1>3, <2>1, <2>6 DEF Commit
  <2>7. ASSUME UNCHANGED step
        PROVE  step'[Owner] \in {"idle", "filed", "judged", "completes"}
    BY <2>1, <2>7
  <2>8. (\E x \in Record : Stamping(x)) \/ Publish \/ DeviceMoves \/ UNCHANGED vars => UNCHANGED step
    BY DEF Stamping, Publish, DeviceMoves, ReadMeta, Pull, Restart, vars, serverVars
  <2>9. ASSUME KeepMembership
        PROVE  step'[Owner] \in {"idle", "filed", "judged", "completes"}
    BY <1>2, <1>3, <2>1, <2>9 DEF KeepMembership
  <2> QED BY <1>1, <2>2, <2>3, <2>4, <2>5, <2>6, <2>7, <2>8, <2>9, Moves
<1>5. ASSUME NEW s \in ByOwner(rec, Seqs)
      PROVE  HeldAt(rec', Committed', rec'[s].tenant, s)
  <2>1. s \in Revocations(rec, Seqs) /\ s \in Seqs
    BY DEF ByOwner, Revocations
  <2>2. \A e \in Entries(rec', Committed' \ Committed) : ~(e < s)
    BY <2>1, NewEntriesLast
  <2>3. StatusBefore(rec', Committed', "fact", rec[s].tenant, s)
            = StatusBefore(rec, Committed, "fact", rec[s].tenant, s)
    BY <1>1, <2>1, <2>2, StatusStays
  <2>4. rec'[s] = rec[s]
    BY <1>1, <2>1 DEF Extends
  <2> QED BY <2>3, <2>4 DEF OwnersStand, HeldAt
<1>6. ASSUME NEW s \in ByOwner(rec', Seqs'), s \notin ByOwner(rec, Seqs)
      PROVE  HeldAt(rec', Committed', rec'[s].tenant, s)
  <2>1. s \notin Seqs /\ s \in Seqs' /\ rec'[s].kind = "revocation" /\ rec'[s].by = Owner
    BY <1>1, <1>6 DEF ByOwner, Revocations, Extends
  <2>2. ASSUME NEW x \in Record, Filing(x)
        PROVE  HeldAt(rec', Committed', rec'[s].tenant, s)
    <3>1. Inserted(x)
      BY <1>1, <2>2, FilingInserts
    <3>2. s = Len(rec) + 1 /\ rec'[s] = x
      BY <2>1, <3>1 DEF Inserted
    <3>3. Membership(x.tenant) \in {"active", "joined"}
      BY <1>3, <2>1, <2>2, <3>2 DEF Filing, SubjectMayFile
    <3>4. StatusBefore(rec, Committed, "fact", x.tenant, s) \in {"active", "joined"}
      BY <3>2, <3>3 DEF Membership
    <3>5. Entries(rec', Committed' \ Committed) = {}
      BY <3>1 DEF Inserted, Entries
    <3>6. StatusBefore(rec', Committed', "fact", x.tenant, s) \in {"active", "joined"}
      BY <1>1, <3>4, <3>5, StatusStays
    <3> QED BY <3>2, <3>6 DEF HeldAt
  <2>3. ~ApplyMembership
    BY <1>1, <2>1, ApplyInserts DEF Inserted
  <2>4. \A x \in Record : ~Stamping(x)
    <3> TAKE x \in Record
    <3>1. Stamping(x) => Committing(x) /\ x.kind # "revocation"
      BY <1>1, StampingCommits DEF Stamping
    <3> QED BY <2>1, <3>1 DEF Committing
  <2>5. rec' # rec
    BY <2>1 DEF Seqs
  <2>6. \A a \in Author : ~Commit(a)
    BY <2>5 DEF Commit
  <2> QED BY <1>1, <2>2, <2>3, <2>4, <2>5, <2>6, SameLogMoves, Moves
<1>7. ByOwner(rec', Committed') # {} => revoked'
  <2>1. ASSUME NEW a \in Author, Commit(a)
        PROVE  ByOwner(rec', Committed') # {} => revoked'
    <3>1. rec' = rec /\ Committed' = Committed \cup Mine(a) /\ (revoked => revoked')
      BY <1>1, <2>1, CommitMoves DEF Commit
    <3>2. CASE a = Owner
      <4>1. step[a] = "completes"
        BY <2>1, <3>2 DEF Commit, OwnersStand
      <4> QED BY <2>1, <4>1 DEF Commit
    <3>3. CASE a # Owner
      <4>1. ByOwner(rec', Committed') = ByOwner(rec, Committed)
        BY <3>1, <3>3 DEF ByOwner, Revocations, Mine
      <4> QED BY <3>1, <4>1 DEF OwnersStand
    <3> QED BY <3>2, <3>3
  <2>2. ASSUME UNCHANGED revoked, \A s \in Committed' \ Committed : rec'[s].kind # "revocation"
        PROVE  ByOwner(rec', Committed') # {} => revoked'
    <3>1. ByOwner(rec', Committed') = ByOwner(rec, Committed)
      BY <1>1, <2>2 DEF ByOwner, Revocations, Extends
    <3> QED BY <2>2, <3>1 DEF OwnersStand
  <2>3. ASSUME NEW x \in Record, Filing(x) \/ Stamping(x)
        PROVE  UNCHANGED revoked /\ \A s \in Committed' \ Committed : rec'[s].kind # "revocation"
    <3>1. Stamping(x) => Committing(x) /\ x.kind # "revocation" /\ UNCHANGED revoked
      BY <1>1, StampingCommits DEF Stamping
    <3>2. Filing(x) => Inserted(x) /\ UNCHANGED revoked
      BY <1>1, FilingInserts DEF Filing
    <3> QED BY <2>3, <3>1, <3>2 DEF Committing, Inserted
  <2>4. ASSUME ApplyMembership
        PROVE  UNCHANGED revoked /\ \A s \in Committed' \ Committed : rec'[s].kind # "revocation"
    BY <1>1, <2>4, ApplyInserts DEF Inserted, ApplyMembership
  <2>5. UNCHANGED <<rec, open, revoked>> => \A s \in Committed' \ Committed : rec'[s].kind # "revocation"
    BY DEF Committed, Seqs
  <2> QED BY <1>1, <2>1, <2>2, <2>3, <2>4, <2>5, SameLogMoves, Moves
<1> QED BY <1>4, <1>5, <1>6, <1>7 DEF OwnersStand

LEMMA PublishedKept ==
    ASSUME RevocationInv, PublishedWhereJoined, [Next]_vars
    PROVE  PublishedWhereJoined'
<1>1. LogShape /\ Extends /\ Len(Splits) \in Nat /\ sets \in Nat
  BY StepExtends, SplitsAreSets DEF RevocationInv, LogShape
<1>2. \A t : Told(rec, Committed, "fact", t, Len(rec) + 1)
                 \subseteq Told(rec', Committed', "fact", t, Len(rec') + 1)
  BY <1>1 DEF Extends, Told, Seqs
<1>3. ASSUME NEW v \in 1..sets'
      PROVE  Told(rec', Committed', "fact", Splits[v].tenant, Len(rec') + 1) # {}
  <2>1. CASE v \in 1..sets
    BY <1>2, <2>1 DEF PublishedWhereJoined
  <2>2. CASE v \notin 1..sets
    <3>1. sets' # sets
      BY <2>2
    <3>2. Publish
      BY <1>1, <3>1, Moves DEF Filing, ApplyMembership, KeepMembership, Stamping, Judge, Count, Commit, DeviceMoves,
                               ReadMeta, Pull, Restart, vars, serverVars
    <3>3. v = sets + 1
      BY <1>1, <2>2, <3>2 DEF Publish
    <3>4. StatusBefore(rec, Committed, "fact", Splits[v].tenant, Len(rec) + 1) = "active"
      BY <3>2, <3>3 DEF Publish, Membership
    <3>5. Told(rec, Committed, "fact", Splits[v].tenant, Len(rec) + 1) # {}
      BY <3>4, StatusTold
    <3> QED BY <1>2, <3>5
  <2> QED BY <2>1, <2>2
<1>4. ASSUME NEW s \in Revocations(rec, Seqs), NamesItsSet(rec'[s])
      PROVE  Told(rec', Committed', "fact", rec'[s].tenant, s) # {}
  <2>1. rec'[s] = rec[s] /\ \A e \in Entries(rec', Committed' \ Committed) : ~(e < s)
    BY <1>1, NewEntriesLast DEF Extends, Revocations
  <2>2. Told(rec', Committed', "fact", rec[s].tenant, s) = Told(rec, Committed, "fact", rec[s].tenant, s)
    BY <1>1, <2>1, StatusStays
  <2> QED BY <1>4, <2>1, <2>2 DEF PublishedWhereJoined
<1>5. ASSUME NEW s \in Revocations(rec', Seqs'), s \notin Revocations(rec, Seqs), NamesItsSet(rec'[s])
      PROVE  Told(rec', Committed', "fact", rec'[s].tenant, s) # {}
  <2>1. s \notin Seqs /\ s \in Seqs' /\ rec'[s].kind = "revocation"
    BY <1>1, <1>5 DEF Revocations, Extends
  <2>2. ASSUME NEW x \in Record, Filing(x)
        PROVE  Told(rec', Committed', "fact", rec'[s].tenant, s) # {}
    <3>1. Inserted(x)
      BY <1>1, <2>2, FilingInserts
    <3>2. s = Len(rec) + 1 /\ rec'[s] = x
      BY <2>1, <3>1 DEF Inserted
    <3>3. x.by \in Guardian
      <4> DEFINE Sets == [tenant : Tenant, guardians : {G \in SUBSET Guardian : Cardinality(G) \in 2..5}]
      <4>1. \A v \in DOMAIN Splits : Splits[v] \in Sets
        <5>1. Splits \in Seq(Sets)
          BY SplitsAreSets
        <5> HIDE DEF Sets
        <5> QED BY <5>1
      <4> QED BY <1>5, <3>2, <4>1 DEF NamesItsSet
    <3>4. x.version \in 1..sets
      BY <2>1, <2>2, <3>2, <3>3, PeopleAreDistinct DEF Filing
    <3>5. Told(rec, Committed, "fact", x.tenant, s) # {}
      BY <1>5, <3>2, <3>4 DEF PublishedWhereJoined, NamesItsSet
    <3>6. Entries(rec', Committed' \ Committed) = {}
      BY <3>1 DEF Inserted, Entries
    <3>7. Told(rec', Committed', "fact", x.tenant, s) = Told(rec, Committed, "fact", x.tenant, s)
      BY <1>1, <3>6, StatusStays
    <3> QED BY <3>2, <3>5, <3>7
  <2>3. ~ApplyMembership
    BY <1>1, <2>1, ApplyInserts DEF Inserted
  <2>4. \A x \in Record : ~Stamping(x)
    <3> TAKE x \in Record
    <3>1. Stamping(x) => Committing(x) /\ x.kind # "revocation"
      BY <1>1, StampingCommits DEF Stamping
    <3> QED BY <2>1, <3>1 DEF Committing
  <2>5. rec' # rec
    BY <2>1 DEF Seqs
  <2>6. \A a \in Author : ~Commit(a)
    BY <2>5 DEF Commit
  <2> QED BY <1>1, <2>2, <2>3, <2>4, <2>5, <2>6, SameLogMoves, Moves
<1> QED BY <1>3, <1>4, <1>5 DEF PublishedWhereJoined

-----------------------------------------------------------------------------
(* The counts of one step to the next *)

\* Whoever knows a guardian's record besides counts no later.
LEMMA OneMoreRecord ==
    ASSUME RevocationInv, OwnLatest, ThresholdsNeverFall,
           NEW k \in SUBSET Seqs, NEW a \in Author \ {Admin}, Tally(rec, k) # 0
    PROVE  Tally(rec, k \cup Mine(a)) # 0
<1> DEFINE more == k \cup Mine(a)
<1>1. /\ rec \in Seq(Record) /\ LogShape /\ Len(rec) \in Nat /\ Mine(a) \subseteq Seqs
      /\ more \in SUBSET (1..Len(rec)) /\ k \subseteq DOMAIN rec /\ more \subseteq DOMAIN rec
  BY DEF RevocationInv, LogShape, Mine, Seqs
<1>2. \A s \in Mine(a) : s \in open /\ rec[s].by = a /\ rec[s].kind = "revocation"
  BY OthersFileNoEntry
<1>3. KnowsMore(rec, k, rec, more) /\ \A n : NoFactBefore(rec, more \ k, n)
  BY <1>1, <1>2 DEF KnowsMore, NoFactBefore
<1>4. \A t, n : HeldAt(rec, k, t, n) <=> HeldAt(rec, more, t, n)
  BY <1>3, SameJudgment
<1>5. \A s \in k : s \in Approvals(rec, k) <=> s \in Approvals(rec, more)
  BY <1>4 DEF Approvals, ByGuardian, Revocations
<1>6. Approvals(rec, k) \in SUBSET k /\ Approvals(rec, more) \in SUBSET more
  BY ApprovalsKnown
<1>7. Approvals(rec, k) \subseteq Approvals(rec, more)
  BY <1>5, <1>6
<1>8. ASSUME NEW b \in Approvals(rec, more) \ Approvals(rec, k), NEW s \in Approvals(rec, k),
             rec[b].by = rec[s].by
      PROVE  s < b
  <2>1. b \in Mine(a) /\ b \notin k
    BY <1>5, <1>6
  <2>2. s \in Revocations(rec, Seqs) /\ s \in k
    BY <1>6, ApprovalsKnown DEF Revocations
  <2>3. s <= b /\ s # b
    BY <1>2, <1>8, <2>1, <2>2 DEF OwnLatest
  <2>4. s \in Nat /\ b \in Nat
    BY <1>1, <2>1, <2>2, SeqsAreNat
  <2> QED BY <2>3, <2>4
<1> HIDE DEF more
<1>9. Tally(rec, more) \in 1..Tally(rec, k)
  BY <1>1, <1>7, <1>8, TallyNoLater
<1> QED BY <1>9 DEF more

LEMMA CompletesStandKept ==
    ASSUME RevocationInv, OwnLatest, HasRecord, AdminFiles, CompletesStand, ThresholdsNeverFall, [Next]_vars
    PROVE  CompletesStand'
<1> SUFFICES ASSUME NEW a \in Author \ {Owner, Admin}, step'[a] = "completes"
             PROVE  Tally(rec', Committed' \cup Mine(a)') # 0
  BY DEF CompletesStand
<1> DEFINE known == Committed \cup Mine(a)
<1>1. LogShape /\ Extends /\ Mine(a) \subseteq open /\ open \subseteq Seqs /\ known \subseteq Seqs
  BY StepExtends DEF RevocationInv, LogShape, Mine, Committed
<1>2. step \in [Author -> {"idle", "filed", "refused", "judged", "counted", "completes", "applied"}]
  BY <1>1 DEF LogShape
<1>3. ASSUME step[a] = "completes"
      PROVE  Tally(rec, known) # 0 /\ Mine(a) # {}
  BY <1>3 DEF CompletesStand, HasRecord
<1>4. ASSUME step[a] = "completes", known' = known
      PROVE  Tally(rec', known') # 0
  <2>1. KnowsMore(rec, known, rec', known)
    BY <1>1, <1>4 DEF KnowsMore, Extends, Seqs
  <2>2. Tally(rec', known) = Tally(rec, known)
    BY <2>1, SameKnown
  <2> QED BY <1>3, <1>4, <2>2
<1> HIDE DEF known
<1>5. ASSUME NEW x \in Record, Inserted(x), step' = [step EXCEPT ![x.by] = "filed"] \/ step' = [step EXCEPT ![x.by] = "applied"]
      PROVE  Tally(rec', known') # 0
  <2>1. x.by # a /\ step[a] = "completes" /\ x.by \in Author
    BY <1>2, <1>5 DEF Inserted
  <2>2. known' = known
    BY <1>5, <2>1 DEF Inserted, known
  <2> QED BY <1>4, <2>1, <2>2
<1>6. ASSUME NEW x \in Record, Stamping(x)
      PROVE  Tally(rec', known') # 0
  <2>1. step[a] = "completes" /\ Committing(x) /\ open # {}
    BY <1>1, <1>3, <1>6, StampingCommits DEF Stamping
  <2>2. x.kind # "fact" /\ x.kind # "revocation"
    BY <1>6, <2>1 DEF Stamping
  <2>3. known' = known \cup {Len(rec) + 1} /\ Len(rec) + 1 \notin known
    BY <1>1, <2>1 DEF Committing, known
  <2>4. KnowsMore(rec, known, rec', known')
    BY <1>1, <2>1, <2>3 DEF KnowsMore, Extends, Committing, Seqs
  <2>5. NothingToCount(rec, known, rec', known')
    BY <2>1, <2>2, <2>3 DEF NothingToCount, NoFactBefore, Committing, Approvals, ByGuardian, Revocations
  <2>6. Tally(rec, known) = Tally(rec', known')
    BY <2>4, <2>5, SameTally
  <2> QED BY <1>3, <2>1, <2>6
<1>7. ASSUME NEW b \in Author, Judge(b)
      PROVE  Tally(rec', known') # 0
  <2>1. step[a] = "completes" /\ UNCHANGED <<rec, open>>
    BY <1>2, <1>7 DEF Judge
  <2>2. known' = known
    BY <2>1 DEF known, Mine, Committed, Seqs
  <2> QED BY <1>4, <2>1, <2>2
<1>8. ASSUME NEW b \in Author, Count(b)
      PROVE  Tally(rec', known') # 0
  <2>1. UNCHANGED <<rec, open>>
    BY <1>8 DEF Count
  <2>2. known' = known
    BY <2>1 DEF known, Mine, Committed, Seqs
  <2>3. CASE b = a
    <3>1. Tally(rec, Committed \cup Mine(a)) # 0
      BY <1>2, <1>8, <2>3 DEF Count
    <3> QED BY <2>1, <2>2, <3>1 DEF known
  <2>4. CASE b # a
    <3>1. step[a] = "completes"
      BY <1>2, <1>8, <2>4 DEF Count
    <3> QED BY <1>4, <2>2, <3>1
  <2> QED BY <2>3, <2>4
<1>9. ASSUME NEW b \in Author, Commit(b)
      PROVE  Tally(rec', known') # 0
  <2>1. /\ rec' = rec /\ Committed' = Committed \cup Mine(b)
        /\ \A c \in Author \ {b} : Mine(c)' = Mine(c)
        /\ step' = [step EXCEPT ![b] = "idle"]
    BY <1>1, <1>9, CommitMoves
  <2>2. b # a /\ step[a] = "completes"
    BY <1>2, <2>1
  <2>3. known' = known \cup Mine(b)
    BY <2>1, <2>2 DEF known
  <2>4. CASE b = Admin
    <3>1. Mine(b) = {}
      BY <1>3, <2>2, <2>4, AdminIsAlone
    <3> QED BY <1>4, <2>2, <2>3, <3>1
  <2>5. CASE b # Admin
    <3>1. Tally(rec, known \cup Mine(b)) # 0
      BY <1>1, <1>3, <2>2, <2>5, OneMoreRecord
    <3> QED BY <2>1, <2>3, <3>1
  <2> QED BY <2>4, <2>5
<1>10. ASSUME UNCHANGED <<rec, open, step>>
       PROVE  Tally(rec', known') # 0
  BY <1>4, <1>10 DEF known, Mine, Committed, Seqs
<1>11. Publish \/ DeviceMoves \/ UNCHANGED vars => UNCHANGED <<rec, open, step>>
  BY DEF Publish, DeviceMoves, ReadMeta, Pull, Restart, vars, serverVars
<1>12. ASSUME NEW x \in Record, Filing(x)
       PROVE  Tally(rec', known') # 0
  BY <1>1, <1>5, <1>12, FilingInserts DEF Filing
<1>13. ASSUME ApplyMembership
       PROVE  Tally(rec', known') # 0
  <2>1. PICK x \in Record : x.by = Admin /\ Inserted(x)
    BY <1>1, <1>13, ApplyInserts
  <2> QED BY <1>5, <1>13, <2>1 DEF ApplyMembership
<1>14. ASSUME KeepMembership
       PROVE  Tally(rec', known') # 0
  <2>1. step[a] = "completes" /\ UNCHANGED <<rec, open>>
    BY <1>2, <1>14 DEF KeepMembership
  <2>2. known' = known
    BY <2>1 DEF known, Mine, Committed, Seqs
  <2> QED BY <1>4, <2>1, <2>2
<1>15. Tally(rec', known') # 0
  BY <1>1, <1>6, <1>7, <1>8, <1>9, <1>10, <1>11, <1>12, <1>13, <1>14, Moves
<1> QED BY <1>15 DEF known

LEMMA RevokedStandsKept ==
    ASSUME RevocationInv, OwnLatest, HasRecord, AdminFiles, OwnersStand, CompletesStand, RevokedStands,
           ThresholdsNeverFall, [Next]_vars
    PROVE  RevokedStands'
<1>1. LogShape /\ Extends
  BY StepExtends DEF RevocationInv
<1>2. ByOwner(rec, Committed) \subseteq ByOwner(rec', Committed')
  BY <1>1 DEF Extends, ByOwner, Revocations
<1>3. Tally(rec, Committed) # 0 => Tally(rec', Committed') # 0
  BY TallyStep
<1>4. CASE revoked
  BY <1>2, <1>3, <1>4 DEF RevokedStands
<1>5. CASE ~revoked /\ revoked'
  <2>1. PICK a \in Author : Commit(a) /\ step[a] = "completes"
    <3>1. revoked' # revoked
      BY <1>5
    <3>2. PICK a \in Author : Commit(a)
      BY <1>1, <3>1, SameLogMoves, Moves DEF Filing, ApplyMembership, Stamping
    <3> QED BY <1>5, <3>2 DEF Commit
  <2>2. rec' = rec /\ Committed' = Committed \cup Mine(a) /\ Mine(a) \subseteq open /\ Mine(a) # {}
    BY <1>1, <2>1, CommitMoves DEF HasRecord
  <2>3. a # Admin
    BY <2>1 DEF AdminFiles
  <2>4. CASE a = Owner
    <3>1. Mine(a) \subseteq ByOwner(rec, Committed')
      BY <2>2, <2>3, <2>4, OthersFileNoEntry DEF ByOwner, Revocations
    <3> QED BY <2>2, <3>1 DEF RevokedStands
  <2>5. CASE a # Owner
    BY <2>1, <2>2, <2>3, <2>5 DEF CompletesStand, RevokedStands
  <2> QED BY <2>4, <2>5
<1>6. CASE ~revoked'
  BY <1>6 DEF RevokedStands
<1> QED BY <1>4, <1>5, <1>6

LEMMA ServerInvKept ==
    ASSUME ThresholdsNeverFall
    PROVE  /\ Init => ServerInv
           /\ TallyInv /\ ServerInv /\ [Next]_vars => ServerInv'
<1>1. ASSUME Init
      PROVE  ServerInv
  <2>1. LogShape /\ open = {} /\ revoked = FALSE /\ sets = 0 /\ (\A a \in Author : step[a] = "idle")
    BY <1>1, InitCounts DEF RevocationInv, Init
  <2>2. Owner \in Author /\ Admin \in Author
    BY DEF Author
  <2>3. \A s \in Seqs : rec[s].kind = "fact" /\ rec[s].status = "active" /\ rec[s].version = 0
    <3>1. PICK order : rec = [i \in DOMAIN order |->
                        [kind |-> "fact", by |-> Admin, tenant |-> order[i],
                         version |-> 0, status |-> "active"]]
      BY <1>1 DEF Init
    <3> QED BY <3>1 DEF Seqs
  <2>4. HasRecord /\ EntriesFirst /\ AdminFiles /\ CompletesStand /\ RevokedStands /\ EntriesTell
    BY <2>1, <2>2, <2>3 DEF HasRecord, EntriesFirst, AdminFiles, CompletesStand, RevokedStands,
                            EntriesTell, Cites
  <2>5. Revocations(rec, Seqs) = {} /\ Revocations(rec, Committed) = {}
    BY <2>3 DEF Revocations, Committed
  <2>6. OwnersStand /\ PublishedWhereJoined
    BY <2>1, <2>2, <2>5 DEF OwnersStand, ByOwner, PublishedWhereJoined
  <2> QED BY <2>4, <2>6 DEF ServerInv
<1>2. TallyInv /\ ServerInv /\ [Next]_vars => ServerInv'
  BY HasRecordKept, EntriesFirstKept, AdminFilesKept, EntriesTellKept, OwnersStandKept, PublishedKept,
     CompletesStandKept, RevokedStandsKept DEF ServerInv, TallyInv
<1> QED BY <1>1, <1>2

-----------------------------------------------------------------------------
(* Where the records tell what the rows went through *)

\* The status before the next seq: what the entry there tells, or what was told.
LEMMA NextStatus ==
    ASSUME NEW r \in Seq(Record), NEW e \in DOMAIN r, NEW kind, NEW t
    PROVE  StatusBefore(r, DOMAIN r, kind, t, e + 1) =
               IF r[e].kind = kind /\ r[e].tenant = t THEN r[e].status
               ELSE StatusBefore(r, DOMAIN r, kind, t, e)
<1>1. e \in Nat /\ \A s \in DOMAIN r : s \in Nat /\ (s < e + 1 <=> s < e \/ s = e)
  OBVIOUS
<1>2. CASE r[e].kind = kind /\ r[e].tenant = t
  <2>1. e \in Told(r, DOMAIN r, kind, t, e + 1) /\ \A s \in Told(r, DOMAIN r, kind, t, e + 1) : s <= e
    BY <1>1, <1>2 DEF Told
  <2>2. StatusBefore(r, DOMAIN r, kind, t, e + 1) = r[e].status
    BY <2>1, LastIsStatus
  <2> QED BY <1>2, <2>2
<1>3. CASE ~(r[e].kind = kind /\ r[e].tenant = t)
  <2>1. Told(r, DOMAIN r, kind, t, e + 1) = Told(r, DOMAIN r, kind, t, e)
    BY <1>1, <1>3 DEF Told
  <2>2. StatusBefore(r, DOMAIN r, kind, t, e + 1) = StatusBefore(r, DOMAIN r, kind, t, e)
    BY <2>1, SameStatus
  <2> QED BY <1>3, <2>2
<1> QED BY <1>2, <1>3

\* Before seq n the rows' log and the records tell alike whether the subject is
\* removed from t.
RemovedAlike(t, n) ==
    StatusBefore(rec, Seqs, "fact", t, n) = "removed"
        <=> StatusBefore(rec, Seqs, "membership", t, n) = "removed"

\* No record of t from before n is applied at n or later.
Settled(t, n) ==
    \A f \in Seqs, m \in Seqs : Applies(rec, f, m) /\ rec[m].tenant = t /\ m < n => f < n

\* From one seq to the next the two stay alike.
LEMMA AlikeStep ==
    ASSUME LogShape, EntriesTell, Committed = Seqs, RecordsTell,
           NEW t \in Tenant, NEW e \in Seqs, Settled(t, e + 1), Settled(t, e) => RemovedAlike(t, e)
    PROVE  RemovedAlike(t, e + 1)
<1>1. rec \in Seq(Record) /\ Seqs = DOMAIN rec /\ \A s \in Seqs : s \in Nat /\ s >= 1
  BY SeqsAreNat DEF LogShape, Seqs
<1>2. /\ StatusBefore(rec, Seqs, "fact", t, e + 1) =
             IF rec[e].kind = "fact" /\ rec[e].tenant = t THEN rec[e].status
             ELSE StatusBefore(rec, Seqs, "fact", t, e)
      /\ StatusBefore(rec, Seqs, "membership", t, e + 1) =
             IF rec[e].kind = "membership" /\ rec[e].tenant = t THEN rec[e].status
             ELSE StatusBefore(rec, Seqs, "membership", t, e)
  BY <1>1, NextStatus
<1>3. Removed(e) <=> StatusBefore(rec, Seqs, "fact", rec[e].tenant, e) = "removed"
  BY DEF Removed
<1>4. ASSUME ~\E m \in Seqs : Applies(rec, e, m) /\ rec[m].tenant = t
      PROVE  RemovedAlike(t, e)
  <2>1. \A f \in Seqs : f < e + 1 /\ f # e => f < e
    BY <1>1
  <2>2. \A m \in Seqs : m < e => m < e + 1
    BY <1>1
  <2>3. Settled(t, e)
    BY <1>4, <2>1, <2>2 DEF Settled
  <2> QED BY <2>3
\* Something else, or another tenant's: nothing is told of t.
<1>5. CASE ~(rec[e].kind \in {"fact", "membership"} /\ rec[e].tenant = t)
  <2>1. ~\E m \in Seqs : Applies(rec, e, m) /\ rec[m].tenant = t
    BY <1>1, <1>5 DEF Applies, EntriesTell, Cites
  <2> QED BY <1>2, <1>4, <1>5, <2>1 DEF RemovedAlike
\* A change without a record is no removal and no return.
<1>6. CASE rec[e].kind = "fact" /\ rec[e].tenant = t /\ rec[e].version = 0
  <2>1. ~\E m \in Seqs : Applies(rec, e, m) /\ rec[m].tenant = t
    BY <1>1, <1>6 DEF Applies
  <2>2. rec[e].status = "removed" <=> Removed(e)
    BY <1>6 DEF RecordsTell, Unrecorded, Tells, Removed
  <2> QED BY <1>2, <1>3, <1>4, <1>6, <2>1, <2>2 DEF RemovedAlike
\* A change by a record: that record is the last before it.
<1>7. CASE rec[e].kind = "fact" /\ rec[e].tenant = t /\ rec[e].version # 0
  <2> DEFINE m == rec[e].version
  <2>1. /\ m \in Seqs /\ m < e /\ rec[m].kind = "membership" /\ rec[m].tenant = t
        /\ rec[m].status = rec[e].status /\ Applies(rec, e, m)
    BY <1>7 DEF EntriesTell, Cites, Applies
  <2> HIDE DEF m
  <2>2. ~AppliedLate(m)
    BY <2>1 DEF RecordsTell
  <2>3. \A q \in Seqs : rec[q].tenant = t /\ rec[q].kind = "membership" /\ q < e => ~(m < q)
    BY <2>1, <2>2 DEF AppliedLate
  <2>4. m \in Told(rec, Seqs, "membership", t, e)
    BY <2>1 DEF Told
  <2>5. \A s \in Told(rec, Seqs, "membership", t, e) : s <= m
    BY <1>1, <2>1, <2>3 DEF Told
  <2>6. StatusBefore(rec, Seqs, "membership", t, e) = rec[m].status
    BY <1>1, <2>4, <2>5, LastIsStatus
  <2> QED BY <1>2, <1>7, <2>1, <2>6 DEF RemovedAlike
\* A record that changed nothing tells what the row was.
<1>8. CASE rec[e].kind = "membership" /\ rec[e].tenant = t
  <2>1. ASSUME NEW f \in Seqs, Applies(rec, f, e)
        PROVE  FALSE
    <3>1. e < f
      BY <1>1, <2>1 DEF Applies, EntriesTell, Cites
    <3>2. e < e + 1 /\ ~(f < e + 1)
      BY <1>1, <3>1
    <3> QED BY <1>8, <2>1, <3>2 DEF Settled
  <2>2. ~Contradicts(e)
    BY DEF RecordsTell
  <2>3. rec[e].status = "removed" <=> Removed(e)
    BY <1>8, <2>1, <2>2 DEF Contradicts, Tells, Removed
  <2> QED BY <1>2, <1>3, <1>8, <2>3 DEF RemovedAlike
<1>9. rec[e].version \in Nat
  <2>1. rec[e] \in Record
    BY <1>1
  <2> QED BY <2>1 DEF Record
<1> QED BY <1>5, <1>6, <1>7, <1>8

\* At every settled seq the two are alike.
LEMMA SettledAlike ==
    ASSUME LogShape, EntriesTell, Committed = Seqs, RecordsTell,
           NEW t \in Tenant, NEW n \in Seqs, Settled(t, n)
    PROVE  RemovedAlike(t, n)
<1> DEFINE Parted == {i \in Seqs : Settled(t, i) /\ ~RemovedAlike(t, i)}
<1>1. \A s \in Seqs : s \in Nat /\ s >= 1
  BY SeqsAreNat
<1> SUFFICES ASSUME Parted # {} PROVE FALSE
  OBVIOUS
<1>2. PICK i \in Parted : \A j \in Parted : i <= j
  <2>1. Parted \in SUBSET Nat
    BY <1>1
  <2> HIDE DEF Parted
  <2> QED BY <2>1, LeastMember
<1>3. i \in Nat /\ i >= 1 /\ i \in Seqs
  BY <1>1
<1>4. CASE i = 1
  <2>1. \A s \in Seqs : ~(s < i)
    BY <1>1, <1>4
  <2>2. RemovedAlike(t, i)
    BY <2>1 DEF RemovedAlike, StatusBefore
  <2> QED BY <2>2
<1>5. CASE i # 1
  <2> DEFINE e == i - 1
  <2>1. e \in Seqs /\ e + 1 = i /\ ~(i <= e)
    BY <1>3, <1>5 DEF Seqs, LogShape
  <2> HIDE DEF e
  <2>2. Settled(t, e) => RemovedAlike(t, e)
    BY <1>2, <2>1
  <2>3. RemovedAlike(t, e + 1)
    BY <1>2, <2>1, <2>2, AlikeStep
  <2> QED BY <1>2, <2>1, <2>3
<1> QED BY <1>4, <1>5

\* Before a revocation record they are alike: no record is applied across it.
LEMMA RevocationAlike ==
    ASSUME LogShape, EntriesTell, Committed = Seqs, RecordsTell, NEW s \in Revocations(rec, Seqs)
    PROVE  RemovedAlike(rec[s].tenant, s)
<1>1. s \in Seqs /\ rec[s].kind = "revocation" /\ rec[s] \in Record
  BY DEF Revocations, LogShape, Seqs
<1>2. Settled(rec[s].tenant, s)
  <2> SUFFICES ASSUME NEW f \in Seqs, NEW m \in Seqs, Applies(rec, f, m),
                      rec[m].tenant = rec[s].tenant, m < s, ~(f < s)
               PROVE  FALSE
    BY DEF Settled
  <2>1. f # s
    BY <1>1 DEF Applies
  <2>2. s < f
    BY <1>1, <2>1, SeqsAreNat
  <2>3. AppliedLate(m)
    BY <1>1, <2>2 DEF AppliedLate
  <2> QED BY <2>3 DEF RecordsTell
<1> QED BY <1>1, <1>2, SettledAlike DEF Record

-----------------------------------------------------------------------------
(* The theorem *)

\* A record is valid to a device that knows every record exactly when it is an
\* approval to the server.
LEMMA ValidIsApproval ==
    ASSUME LogShape, EntriesTell, PublishedWhereJoined, Committed = Seqs, RecordsTell,
           NEW known \in SUBSET Seqs, \A s \in Seqs : IsRecord(s) => s \in known
    PROVE  Valid(rec, Revocations(rec, Seqs), known) = Approvals(rec, Seqs)
<1>1. Seqs = DOMAIN rec /\ rec \in Seq(Record)
  BY DEF Seqs, LogShape
<1>2. ASSUME NEW s \in ByGuardian(rec, Seqs), NamesItsSet(rec[s])
      PROVE  ~RemovedAt(rec, known, rec[s].tenant, s) <=> HeldAt(rec, Seqs, rec[s].tenant, s)
  <2> DEFINE t == rec[s].tenant
  <2>1. s \in Revocations(rec, Seqs)
    BY DEF ByGuardian
  <2>2. Told(rec, known, "membership", t, s) = Told(rec, Seqs, "membership", t, s)
    BY DEF Told, IsRecord
  <2>3. StatusBefore(rec, known, "membership", t, s) = StatusBefore(rec, Seqs, "membership", t, s)
    BY <2>2 DEF Told, StatusBefore
  <2>4. RemovedAlike(t, s)
    BY <2>1, RevocationAlike
  <2>5. StatusBefore(rec, Seqs, "fact", t, s) # "none"
    <3> DEFINE S == Told(rec, Seqs, "fact", t, s)
    <3>1. S # {}
      BY <1>2, <2>1 DEF PublishedWhereJoined
    <3>2. S \in SUBSET (0..Len(rec)) /\ Len(rec) \in Nat
      BY <1>1 DEF Told
    <3>3. StatusBefore(rec, Seqs, "fact", t, s) = rec[Max(S)].status
      BY <3>1 DEF StatusBefore, Told
    <3>4. \A e \in S : e \in Seqs /\ rec[e].kind = "fact"
      BY DEF Told
    <3> HIDE DEF S
    <3>5. Max(S) \in S
      BY <3>1, <3>2, MaxIsMember
    <3>6. rec[Max(S)].status # "none"
      BY <3>4, <3>5 DEF EntriesTell
    <3> QED BY <3>3, <3>6
  <2> QED BY <2>3, <2>4, <2>5 DEF RemovedAt, HeldAt, RemovedAlike
<1> QED BY <1>2 DEF Valid, Approvals, ByGuardian, Revocations

\* The first approvals ask for as many guardians as all of them.
LEMMA SameCutOff ==
    ASSUME ThresholdsNeverFall, VersionsInOrder, LogShape
    PROVE  Tally(rec, Committed) = GuardianSeq(rec, Approvals(rec, Committed))
<1> DEFINE A == Approvals(rec, Committed)
           P == FirstOfEach(rec, A)
<1>1. A \in SUBSET Committed /\ Versions(rec, A) \in SUBSET DOMAIN Splits
  BY ApprovalsKnown DEF Versions
<1>2. A \in SUBSET (1..Len(rec)) /\ Len(rec) \in Nat
  <2>1. Committed \subseteq 1..Len(rec) /\ Len(rec) \in Nat
    BY DEF LogShape, Committed, Seqs
  <2> HIDE DEF A
  <2> QED BY <1>1, <2>1
<1>3. P \subseteq A /\ (A # {} => P # {})
  <2>1. P \subseteq A
    BY DEF FirstOfEach
  <2> HIDE DEF A
  <2> QED BY <1>2, <2>1, FirstExists
<1>4. Tally(rec, Committed) = IF P = {} THEN 0 ELSE KthApproval(P, K(Min(Versions(rec, P))))
  BY DEF Tally, EarliestVersion, Versions
<1> SUFFICES Tally(rec, Committed) = GuardianSeq(rec, A)
  OBVIOUS
<1>5. GuardianSeq(rec, A) = IF A = {} THEN 0 ELSE KthApproval(P, K(Min(Versions(rec, A))))
  BY DEF GuardianSeq
<1>6. A \subseteq ByGuardian(rec, Committed) /\ \A s \in A : NamesItsSet(rec[s])
  BY DEF Approvals
<1>7. \A a \in A : \E p \in P : rec[p].by = rec[a].by /\ p <= a
  <2> HIDE DEF A
  <2> TAKE a \in A
  <2> DEFINE own == {q \in A : rec[q].by = rec[a].by}
  <2>1. own \in SUBSET Nat /\ own # {}
    <3>1. \A q \in A : q \in Nat
      BY <1>2
    <3>2. a \in own
      OBVIOUS
    <3> QED BY <3>1, <3>2
  <2>2. Min(own) \in own /\ \A q \in own : Min(own) <= q
    <3> HIDE DEF own
    <3> QED BY <2>1, MinIsMember
  <2> QED BY <2>2 DEF FirstOfEach
<1> HIDE DEF A, P
<1>8. CASE A = {}
  BY <1>3, <1>4, <1>5, <1>8
<1>9. CASE A # {}
  <2>1. DOMAIN Splits \subseteq Nat
    BY SplitsAreSets
  <2>2. /\ Versions(rec, A) \in SUBSET Nat /\ Versions(rec, A) # {}
        /\ Versions(rec, P) \in SUBSET Versions(rec, A) /\ Versions(rec, P) # {}
    BY <1>1, <1>3, <1>9, <2>1 DEF Versions
  <2> DEFINE v == Min(Versions(rec, A))
             w == Min(Versions(rec, P))
  <2>3. v \in Versions(rec, A) /\ w \in Versions(rec, P) /\ \A u \in Versions(rec, P) : w <= u
    BY <2>2, MinIsMember
  <2>4. v <= w
    BY <2>2, MinNoLater
  <2> HIDE DEF v, w
  <2>5. v \in DOMAIN Splits /\ w \in DOMAIN Splits /\ v \in Nat /\ w \in Nat
    BY <1>1, <2>2, <2>3
  <2>6. PICK a \in A : rec[a].version = v
    BY <2>3 DEF Versions
  <2>7. PICK p \in P : rec[p].by = rec[a].by /\ p <= a
    BY <1>7
  <2>8. /\ p \in A /\ p \in Nat /\ a \in Nat
        /\ rec[p].version \in Versions(rec, P) /\ rec[p].version \in DOMAIN Splits
    BY <1>1, <1>2, <1>3, <2>2 DEF Versions
  <2>9. w <= rec[p].version /\ rec[p].version \in Nat
    BY <2>1, <2>3, <2>8
  <2>10. rec[p].version <= v \/ K(rec[p].version) = K(v)
    <3>1. CASE p = a
      BY <2>6, <3>1
    <3>2. CASE p # a
      <4>1. p < a
        BY <2>7, <2>8, <3>2
      <4> QED BY <1>6, <2>6, <2>7, <2>8, <4>1 DEF VersionsInOrder
    <3> QED BY <3>1, <3>2
  <2>11. K(v) = K(w)
    <3>1. CASE rec[p].version <= v
      <4>1. v = w
        BY <2>4, <2>5, <2>9, <3>1
      <4> QED BY <4>1
    <3>2. CASE K(rec[p].version) = K(v)
      <4>1. K(v) <= K(w) /\ K(w) <= K(rec[p].version)
        BY <2>4, <2>5, <2>8, <2>9 DEF ThresholdsNeverFall
      <4>2. K(v) \in Nat /\ K(w) \in Nat
        BY <2>5, ThresholdRange
      <4> QED BY <3>2, <4>1, <4>2
    <3> QED BY <2>10, <3>1, <3>2
  <2> QED BY <1>3, <1>4, <1>5, <1>9, <2>11 DEF v, w
<1> QED BY <1>8, <1>9

\* A device that has every record counts as the server does.
LEMMA DeviceCounts ==
    ASSUME ThresholdsNeverFall, TallyInv, ServerInv, DeviceTypes, QuarantineInv,
           NEW d \in Device \ {Lost}, open = {}, restarts = 0, Informed(d), RecordsTell, VersionsInOrder
    PROVE  Cut(d) = ServerCut /\ (Cut(d) # 0 <=> revoked)
<1>1. /\ LogShape /\ rec \in Seq(Record) /\ Committed = Seqs /\ Committed \in SUBSET (1..Len(rec))
      /\ Len(rec) \in Nat
  BY DEF TallyInv, RevocationInv, LogShape, Committed, Seqs
<1>2. seen[d] \in SUBSET Seqs
  BY DEF DeviceTypes
<1>3. \A s \in Seqs : IsRecord(s) => s \in seen[d]
  BY <1>1 DEF Informed
<1>4. trust[d] = Revocations(rec, Committed)
  <2>1. trust[d] = Revocations(rec, seen[d])
    BY DEF QuarantineInv, DeviceFollows
  <2> QED BY <1>1, <1>2, <1>3, <2>1 DEF Revocations, IsRecord
<1>5. Valid(rec, trust[d], seen[d]) = Approvals(rec, Committed)
  BY <1>1, <1>2, <1>3, <1>4, ValidIsApproval DEF ServerInv
<1>6. GuardianSeq(rec, Valid(rec, trust[d], seen[d])) = Tally(rec, Committed)
  BY <1>1, <1>5, SameCutOff
<1> DEFINE O == ByOwner(rec, Committed)
<1>7. ByOwner(rec, trust[d]) = O
  BY <1>4 DEF ByOwner, Revocations
<1>8. {s \in O : HeldAt(rec, Committed, rec[s].tenant, s)} = O
  BY <1>1 DEF ServerInv, OwnersStand
<1>9. Cut(d) = Earlier(Earliest(O), Tally(rec, Committed))
  BY <1>6, <1>7, CountIs DEF Cut
<1>10. ServerCut = Earlier(Earliest(O), Tally(rec, Committed))
  BY <1>8 DEF ServerCut
<1>11. O # {} \/ Tally(rec, Committed) # 0 <=> revoked
  BY DEF TallyInv, RevocationInv, TallyApplied, ServerInv, OwnersStand, RevokedStands
<1>12. O \in SUBSET (1..Len(rec))
  BY <1>1 DEF ByOwner, Revocations
<1> HIDE DEF O
<1>13. Earliest(O) \in Nat /\ (O # {} <=> Earliest(O) # 0)
  <2>1. O \in SUBSET Nat
    BY <1>12
  <2>2. Earliest(O) \in Nat /\ (O # {} => Earliest(O) \in 1..Len(rec))
    BY <1>12, <2>1, EarliestIs
  <2>3. O = {} => Earliest(O) = 0
    BY DEF Earliest
  <2> QED BY <1>1, <2>2, <2>3
<1>14. Tally(rec, Committed) \in Nat
  <2>1. Tally(rec, Committed) # 0 => Tally(rec, Committed) \in 1..Len(rec)
    BY <1>1, TallyInLog
  <2> QED BY <1>1, <2>1
<1>15. Earlier(Earliest(O), Tally(rec, Committed)) # 0
           <=> Earliest(O) # 0 \/ Tally(rec, Committed) # 0
  <2> DEFINE m == Earliest(O)
             n == Tally(rec, Committed)
  <2>1. m \in Nat /\ n \in Nat
    BY <1>13, <1>14
  <2> HIDE DEF m, n
  <2>2. {m, n} \in SUBSET Nat /\ {m, n} # {}
    BY <2>1
  <2>3. Min({m, n}) \in {m, n}
    BY <2>2, MinIsMember
  <2>4. Earlier(m, n) # 0 <=> m # 0 \/ n # 0
    BY <2>1, <2>3 DEF Earlier
  <2> QED BY <2>4 DEF m, n
<1> QED BY <1>9, <1>10, <1>11, <1>13, <1>15

\* A device of the subject that has every record counts the same cut-off as the
\* server, and counts one exactly when the server has revoked, wherever the
\* records tell what the rows went through (countRevocation against
\* rf.revocation_tally and rf.project_device_status; ADR 2026-10-03b section 2):
\* as long as no later set asks for fewer guardians than an earlier one, and the
\* admin's membership changes do not overlap approvals.
THEOREM DevicesCountAsServerHolds ==
    ThresholdsNeverFall /\ Admin \notin Together => (Spec => []DevicesCountAsServer)
<1> SUFFICES ASSUME ThresholdsNeverFall, Admin \notin Together
             PROVE  Spec => []DevicesCountAsServer
  OBVIOUS
<1> DEFINE Inv == TallyInv /\ ServerInv /\ ServerTypes /\ DeviceTypes /\ QuarantineInv
<1>1. Init => Inv
  BY TallyInvKept, ServerInvKept, TypesHold, QuarantineAtStart
<1>2. Inv /\ [Next]_vars => Inv'
  BY TallyInvKept, ServerInvKept, TypesHold, QuarantineKept
<1>3. Inv => DevicesCountAsServer
  BY DeviceCounts DEF DevicesCountAsServer
<1> HIDE DEF Inv
<1> QED BY <1>1, <1>2, <1>3, PTL DEF Spec
=============================================================================
