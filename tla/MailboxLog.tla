----------------------------- MODULE MailboxLog -----------------------------
(***************************************************************************)
(* What the two mailboxes of a worker promise to their readers: each is a  *)
(* log that only grows, numbered from 1 without gaps, and a bundle is      *)
(* acknowledged at most once, after it was published.                      *)
(***************************************************************************)
EXTENDS Naturals, Sequences

CONSTANTS Direction, Message, Number

VARIABLES
  log,      \* the published bundles of each mailbox, in order
  receipts  \* how often each number was acknowledged to a caller

Init ==
  /\ log \in [Direction -> Seq(Message)]
  /\ receipts = [d \in Direction |-> [s \in Number |-> 0]]

Publish(d) ==
  /\ \E m \in Message : log' = [log EXCEPT ![d] = Append(@, m)]
  /\ UNCHANGED receipts

Acknowledge(d, s) ==
  /\ s \in DOMAIN log[d]
  /\ receipts[d][s] = 0
  /\ receipts' = [receipts EXCEPT ![d][s] = 1]
  /\ UNCHANGED log

Next ==
  \E d \in Direction : Publish(d) \/ \E s \in Number : Acknowledge(d, s)

Spec == Init /\ [][Next]_<<log, receipts>>
=============================================================================
