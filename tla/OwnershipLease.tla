--------------------------- MODULE OwnershipLease ---------------------------
(***************************************************************************)
(* What the orchestrator promises its candidate groups: a readers-writer   *)
(* lease on files.  A holder's lease only grows, and only by files no      *)
(* other lease forbids; while it is held nobody else changes its files on  *)
(* the branch; the holder publishes one commit inside the files it may     *)
(* write, and gives the lease up in the same step.                         *)
(***************************************************************************)
EXTENDS Sequences

CONSTANTS Holder, File

VARIABLES
  lease,   \* what each holder may read and write
  branch   \* the files changed by each commit

Nothing == [read |-> {}, write |-> {}]

Held(l) == l.read \cup l.write

Compatible(l, m) ==
  /\ l.write \cap Held(m) = {}
  /\ m.write \cap Held(l) = {}

Untouched(p) == \A q \in Holder \ {p} : lease'[q] = lease[q]

\* Take a lease, or extend one that is held.
Claim(p) ==
  /\ Untouched(p)
  /\ lease[p].read \subseteq lease'[p].read
  /\ lease[p].write \subseteq lease'[p].write
  /\ \A q \in Holder \ {p} : Compatible(lease'[p], lease[q])
  /\ UNCHANGED branch

Release(p) ==
  /\ Untouched(p)
  /\ lease'[p] = Nothing
  /\ UNCHANGED branch

\* Publish the work done under a lease, which ends with it.
PublishAndRelease(p) ==
  /\ Untouched(p)
  /\ lease'[p] = Nothing
  /\ \E S \in SUBSET lease[p].write : branch' = Append(branch, S)

\* Anybody may change the files that nobody holds.
CommitOutside ==
  /\ UNCHANGED lease
  /\ \E S \in SUBSET (File \ UNION {Held(lease[p]) : p \in Holder}) :
       branch' = Append(branch, S)

LeaseInit ==
  /\ lease = [p \in Holder |-> Nothing]
  /\ branch = << >>

LeaseNext ==
  \/ \E p \in Holder : Claim(p) \/ Release(p) \/ PublishAndRelease(p)
  \/ CommitOutside

LeaseSpec == LeaseInit /\ [][LeaseNext]_<<lease, branch>>

=============================================================================
