---------------------------- MODULE MCRevocation ----------------------------
(* Small instances of Revocation for TLC. *)
EXTENDS Revocation, TLC

CONSTANTS g1, g2, g3, g4, t1

\* A set of two guardians, split again to four: two approvals, then three.
ResplitWider == <<[tenant |-> t1, guardians |-> {g1, g2}],
                  [tenant |-> t1, guardians |-> {g1, g2, g3, g4}]>>

OneSet == <<[tenant |-> t1, guardians |-> {g1, g2}]>>

\* How many entries of each kind.
FewOf(revocations, memberships, facts, envelopes) ==
    [revocation |-> revocations, membership |-> memberships, fact |-> facts, envelope |-> envelopes]
RacesOf == FewOf(4, 0, 1, 1)
HistoryOf == FewOf(3, 2, 4, 0)

\* Guardians who are in the same sets may change places.
Swapped == Permutations({g1, g2}) \cup Permutations({g3, g4})

=============================================================================
