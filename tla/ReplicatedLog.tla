--------------------------- MODULE ReplicatedLog ---------------------------
(***************************************************************************)
(* What sync promises the ledger above it, while no store is restored from *)
(* a backup: one append-only log of the entries the members saved, and a   *)
(* replica of it on every device.  An entry is on its author's device as   *)
(* soon as it is saved.  It enters the log at most once, under a number no *)
(* other entry has, and keeps that number; what a replica holds besides    *)
(* its own device's entries came from the log, and nothing ever leaves.    *)
(***************************************************************************)
EXTENDS Naturals

CONSTANTS Device, Env, Author

VARIABLES
    written,        \* the entries saved so far
    log,            \* [Env -> its number in the log, 0 while it has none]
    replica         \* [Device -> the entries it holds]
logVars == <<written, log, replica>>

Logged == {e \in Env : log[e] # 0}

Init ==
    /\ written = {}
    /\ log = [e \in Env |-> 0]
    /\ replica = [d \in Device |-> {}]

Write(e) ==
    /\ e \notin written
    /\ written' = written \cup {e}
    /\ replica' = [replica EXCEPT ![Author[e]] = @ \cup {e}]
    /\ UNCHANGED log

\* Any number of saved entries enter together, at numbers that are free.
Enter ==
    /\ log' \in [Env -> Nat]
    /\ \A e \in Env : log'[e] # log[e] => log[e] = 0 /\ e \in written
    /\ \A e, f \in Env : log'[e] = log'[f] /\ log'[e] # 0 => e = f
    /\ UNCHANGED <<written, replica>>

Deliver(d) ==
    /\ replica[d] \subseteq replica'[d]
    /\ replica'[d] \subseteq replica[d] \cup Logged
    /\ replica' = [replica EXCEPT ![d] = replica'[d]]
    /\ UNCHANGED <<written, log>>

Next ==
    \/ \E e \in Env : Write(e)
    \/ Enter
    \/ \E d \in Device : Deliver(d)

Spec == Init /\ [][Next]_logVars
=============================================================================
