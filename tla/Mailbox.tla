------------------------------ MODULE Mailbox -------------------------------
(***************************************************************************)
(* The mailboxes of one worker on disk.                                    *)
(*                                                                         *)
(* A publication chooses the next number, writes the bundle in a temporary *)
(* directory beside the published ones and renames it; the worker's own    *)
(* publications then change its state.  An acknowledgement looks the       *)
(* number up, creates the acknowledgement file, and then changes the       *)
(* state.  Each mailbox has one author, who may die and start again; any   *)
(* number of callers acknowledge, and nothing is locked.                   *)
(*                                                                         *)
(* Data abstraction: a bundle is the publication its files come from, its  *)
(* envelope may be half written; the worker stays live, and storing its    *)
(* state is one step (StateStore.tla has the steps of that).               *)
(***************************************************************************)
EXTENDS Naturals, FiniteSets, FiniteSetsExt

CONSTANTS
  Acker,        \* concurrent callers of ack
  OnlyListed,   \* callers name only numbers that a listing has shown
  MaxAttempts,  \* bound: publications attempted, the task first
  MaxFaults     \* bound: crashes and failing file operations

ASSUME MailboxBoundsAssumption == MaxAttempts \in Nat \ {0} /\ MaxFaults \in Nat

ASSUME CallersAssumption == OnlyListed \in BOOLEAN

Direction == {"inbox", "outbox"}

KindsOf(d) == IF d = "inbox" THEN {"task", "hint", "resolve", "revise"} ELSE {"report", "commit"}

Kind == UNION {KindsOf(d) : d \in Direction}

Number == 1..MaxAttempts

\* The files of a bundle, each by the publication that wrote it; 0 for no file.
Bundle == [kind : Kind, seq : Number, envelope : 0..MaxAttempts, body : 0..MaxAttempts,
           artifact : 0..MaxAttempts]

VARIABLES
  published,  \* directories <seq>-<kind> of new/, by mailbox
  temporary,  \* directories .tmp-<kind>-<seq> beside them
  receipts,   \* ack/<seq>.toml: how many callers were told they created it
  state,      \* state of the worker
  author,     \* what the author of each mailbox is executing
  ack,        \* what each acknowledging caller is executing
  attempts,   \* publications started
  faults

vars == <<published, temporary, receipts, state, author, ack, attempts, faults>>

Author == [pc : {"idle", "numbered", "made", "addressed", "filled", "renamed"},
           kind : Kind, seq : Number, artifact : BOOLEAN, nr : Number]

Caller == [pc : {"idle", "checked", "created", "dead"},
           of : Direction, seq : Number, kind : Kind]

-----------------------------------------------------------------------------
(* Publication: publish_bundle and its callers. *)

NextNumber(d) == 1 + Max({0} \cup {b.seq : b \in published[d]})

\* Slip: the next number counts the bundles that were acknowledged.
NextUnacknowledged(d) == 1 + Cardinality({s \in Number : receipts[d][s] > 0})

NextSequence(d) == NextNumber(d)

\* The state the orchestrator requires before it publishes; the worker's own
\* bundles are published before its state is looked at.
Required(k) ==
  CASE k = "hint" -> {"ACTIVE"} [] k = "resolve" -> {"BLOCKED"} [] k = "revise" -> {"COMMITTED"}
    [] OTHER -> {"ACTIVE", "BLOCKED", "COMMITTED"}

Begin(d) ==
  /\ author[d].pc = "idle" /\ attempts < MaxAttempts
  /\ \E k \in KindsOf(d) \ {"task"}, art \in BOOLEAN :
       /\ state \in Required(k)
       /\ author' = [author EXCEPT ![d] = [pc |-> "numbered", kind |-> k,
                                           seq |-> NextSequence(d), artifact |-> art,
                                           nr |-> attempts + 1]]
  /\ attempts' = attempts + 1
  /\ UNCHANGED <<published, temporary, receipts, state, ack, faults>>

\* The author's own temporary directory: kind and number name it.
Own(d) == {b \in temporary[d] : b.kind = author[d].kind /\ b.seq = author[d].seq}

Advance(d, to) == author' = [author EXCEPT ![d].pc = to]

\* A process that ends leaves nothing but its files.
NoAuthor == [pc |-> "idle", kind |-> "task", seq |-> 1, artifact |-> FALSE, nr |-> 1]

Return(d) == author' = [author EXCEPT ![d] = NoAuthor]

Rewrite(d, b) == temporary' = [temporary EXCEPT ![d] = (@ \ Own(d)) \cup {b}]

Empty(d) == [kind |-> author[d].kind, seq |-> author[d].seq, envelope |-> 0, body |-> 0,
             artifact |-> 0]

\* Slip: what an earlier publication left is built upon.
KeepLeftover(d) ==
  /\ author[d].pc = "numbered"
  /\ temporary' = [temporary EXCEPT ![d] = IF Own(d) = {} THEN {Empty(d)} \cup @ ELSE @]
  /\ Advance(d, "made")
  /\ UNCHANGED <<published, receipts, state, ack, attempts, faults>>

\* Slip: the author waits for the other publication to finish.
AwaitLeftover(d) ==
  /\ author[d].pc = "numbered" /\ Own(d) = {}
  /\ Rewrite(d, Empty(d))
  /\ Advance(d, "made")
  /\ UNCHANGED <<published, receipts, state, ack, attempts, faults>>

\* What an earlier publication left under the name is deleted with its payload.
MakeTemporary(d) ==
  /\ author[d].pc = "numbered"
  /\ Rewrite(d, Empty(d))
  /\ Advance(d, "made")
  /\ UNCHANGED <<published, receipts, state, ack, attempts, faults>>

\* Until it is written in full the envelope is missing or cannot be read.
WriteEnvelope(d) ==
  /\ author[d].pc = "made"
  /\ \E b \in Own(d) : Rewrite(d, [b EXCEPT !.envelope = author[d].nr])
  /\ Advance(d, "addressed")
  /\ UNCHANGED <<published, receipts, state, ack, attempts, faults>>

\* BundleWriter: the body, or an empty one, then the artifacts.
WritePayload(d) ==
  /\ author[d].pc = "addressed"
  /\ \E b \in Own(d) :
       Rewrite(d, [b EXCEPT !.body = author[d].nr,
                            !.artifact = IF author[d].artifact THEN author[d].nr ELSE @])
  /\ Advance(d, "filled")
  /\ UNCHANGED <<published, receipts, state, ack, attempts, faults>>

\* One artifact twice, or a file that cannot be moved: the publication is
\* refused, and the body it has moved stays in the temporary directory.
PayloadRefused(d) ==
  /\ author[d].pc = "addressed" /\ author[d].artifact
  /\ \E b \in Own(d), written \in {0, author[d].nr} :
       Rewrite(d, [b EXCEPT !.body = author[d].nr, !.artifact = written])
  /\ Return(d)
  /\ UNCHANGED <<published, receipts, state, ack, attempts, faults>>

Submission(d) == d = "outbox"

Publish(d) ==
  /\ author[d].pc = "filled"
  /\ published' = [published EXCEPT ![d] = @ \cup Own(d)]
  /\ temporary' = [temporary EXCEPT ![d] = @ \ Own(d)]
  /\ IF Submission(d) THEN Advance(d, "renamed") ELSE Return(d)
  /\ UNCHANGED <<receipts, state, ack, attempts, faults>>

\* Slip: a commit finalizes the worker.
FinalizingSubmission(k) == IF k = "report" THEN "BLOCKED" ELSE "MERGED"

SubmittedState(k) == IF k = "report" THEN "BLOCKED" ELSE "COMMITTED"

\* Slip: a submission changes the state before it is published.
SubmitEarly ==
  /\ author["outbox"].pc \in {"addressed", "renamed"}
  /\ state' = IF state = "ACTIVE" THEN SubmittedState(author["outbox"].kind) ELSE state
  /\ IF author["outbox"].pc = "renamed" THEN Return("outbox") ELSE Advance("outbox", "addressed")
  /\ UNCHANGED <<published, temporary, receipts, ack, attempts, faults>>

\* update_submission_state: refused unless the worker is ACTIVE by now, but the
\* bundle is published.
UpdateSubmissionState ==
  /\ author["outbox"].pc = "renamed"
  /\ state' = IF state = "ACTIVE" THEN SubmittedState(author["outbox"].kind) ELSE state
  /\ Return("outbox")
  /\ UNCHANGED <<published, temporary, receipts, ack, attempts, faults>>

-----------------------------------------------------------------------------
(* Acknowledgement: acknowledge_message, ack_inbox and ack_outbox. *)

Goto(a, pc) == ack' = [ack EXCEPT ![a].pc = pc]

NoCall == [pc |-> "idle", of |-> "inbox", seq |-> 1, kind |-> "task"]

Answer(a) == ack' = [ack EXCEPT ![a] = NoCall]

\* The numbers list_mailbox_messages shows: it skips temporary directories.
Numbers(d) == {b.seq : b \in published[d]}

\* Every directory of new/ with a readable envelope is looked at, the
\* temporary ones too; the first in directory order answers for the number.
\* A number nobody answers for, a torn envelope on the way, or a number whose
\* acknowledgement file exists, is refused.
FindBundle(a) ==
  /\ ack[a].pc = "idle"
  /\ \E d \in Direction : \E b \in published[d] \cup temporary[d] :
       /\ OnlyListed => b.seq \in Numbers(d)
       /\ b.envelope > 0
       /\ receipts[d][b.seq] = 0
       /\ ack' = [ack EXCEPT ![a] = [pc |-> "checked", of |-> d, seq |-> b.seq, kind |-> b.kind]]
  /\ UNCHANGED <<published, temporary, receipts, state, author, attempts, faults>>

Acknowledged(a) == receipts[ack[a].of][ack[a].seq] > 0

\* Slip: a revision does not reactivate.
ActivatingButRevise == {"task", "resolve"}

\* worker_state_after_inbox_ack
Activating == {"task", "resolve", "revise"}

Created(a) ==
  /\ receipts' = [receipts EXCEPT ![ack[a].of][ack[a].seq] = @ + 1]
  /\ IF ack[a].of = "inbox" /\ ack[a].kind # "hint" THEN Goto(a, "created") ELSE Answer(a)

\* Slip: the file is created whether or not it exists by now.
CreateOrTruncate(a) ==
  /\ ack[a].pc = "checked"
  /\ Created(a)
  /\ UNCHANGED <<published, temporary, state, author, attempts, faults>>

\* create_new: the file system lets one of two callers create the file.
CreateAck(a) ==
  /\ ack[a].pc = "checked"
  /\ IF Acknowledged(a) THEN Answer(a) /\ UNCHANGED receipts ELSE Created(a)
  /\ UNCHANGED <<published, temporary, state, author, attempts, faults>>

\* update_state_after_ack: whatever the state is by now.
UpdateStateAfterAck(a) ==
  /\ ack[a].pc = "created"
  /\ state' = IF ack[a].kind \in Activating THEN "ACTIVE" ELSE state
  /\ Answer(a)
  /\ UNCHANGED <<published, temporary, receipts, author, attempts, faults>>

-----------------------------------------------------------------------------
(* Failures and restarts. *)

AuthorDies(d) ==
  /\ author[d].pc # "idle"
  /\ faults < MaxFaults /\ faults' = faults + 1
  /\ Return(d)
  /\ UNCHANGED <<published, temporary, receipts, state, ack, attempts>>

CallerDies(a) ==
  /\ ack[a].pc \notin {"idle", "dead"}
  /\ faults < MaxFaults /\ faults' = faults + 1
  /\ ack' = [ack EXCEPT ![a] = [NoCall EXCEPT !.pc = "dead"]]
  /\ UNCHANGED <<published, temporary, receipts, state, author, attempts>>

\* The next call is a new process; it knows nothing of the last one.
Restart(a) ==
  /\ ack[a].pc = "dead"
  /\ Answer(a)
  /\ UNCHANGED <<published, temporary, receipts, state, author, attempts, faults>>

Task == [kind |-> "task", seq |-> 1, envelope |-> 1, body |-> 1, artifact |-> 0]

\* A worker that was just created: ACTIVE, its task in the inbox.
Init ==
  /\ published = [d \in Direction |-> IF d = "inbox" THEN {Task} ELSE {}]
  /\ temporary = [d \in Direction |-> {}]
  /\ receipts = [d \in Direction |-> [s \in Number |-> 0]]
  /\ state = "ACTIVE"
  /\ author = [d \in Direction |-> NoAuthor]
  /\ ack = [a \in Acker |-> NoCall]
  /\ attempts = 1
  /\ faults = 0

Publication(d) ==
  \/ MakeTemporary(d) \/ WriteEnvelope(d) \/ WritePayload(d)
  \/ PayloadRefused(d) \/ Publish(d) \/ (d = "outbox" /\ UpdateSubmissionState)

Acknowledgement(a) == CreateAck(a) \/ UpdateStateAfterAck(a)

Next ==
  \/ \E d \in Direction : Begin(d) \/ Publication(d) \/ AuthorDies(d)
  \/ \E a \in Acker : FindBundle(a) \/ Acknowledgement(a) \/ CallerDies(a) \/ Restart(a)

\* A call runs to its end unless its process dies; nobody has to call.
Fairness ==
  /\ \A d \in Direction : WF_vars(Publication(d))
  /\ \A a \in Acker : WF_vars(Acknowledgement(a))

Spec == Init /\ [][Next]_vars /\ Fairness

-----------------------------------------------------------------------------
(* Properties. *)

TypeOK ==
  /\ published \in [Direction -> SUBSET Bundle]
  /\ temporary \in [Direction -> SUBSET Bundle]
  /\ receipts \in [Direction -> [Number -> Nat]]
  /\ state \in {"ACTIVE", "BLOCKED", "COMMITTED"}
  /\ author \in [Direction -> Author]
  /\ ack \in [Acker -> Caller]
  /\ attempts \in 1..MaxAttempts
  /\ faults \in 0..MaxFaults

\* A published bundle is whole and made of one publication: nothing of an
\* attempt that died or was refused under the same name is in it (storage.rs,
\* 1013), so listing the mailbox never meets an unreadable envelope.
PublishedIsWhole ==
  \A d \in Direction : \A b \in published[d] :
    /\ b.envelope > 0
    /\ b.body = b.envelope /\ b.artifact \in {0, b.envelope}

\* Two callers that acknowledge one number are not both told they did it.
AckedOnce == \A d \in Direction, s \in Number : receipts[d][s] <= 1

\* A worker waits as BLOCKED or COMMITTED only when the report or the commit
\* that says why can be read in its outbox, wherever a process died.
StateIsBacked ==
  /\ state = "BLOCKED" => \E b \in published["outbox"] : b.kind = "report"
  /\ state = "COMMITTED" => \E b \in published["outbox"] : b.kind = "commit"

\* The caller has looked up a published task, resolve or revise, and no
\* unfinished bundle of the same number was there to be read in its place.
ReadsReactivation(a) ==
  /\ ack[a].pc = "checked" /\ ack[a].of = "inbox" /\ ~Acknowledged(a)
  /\ \E b \in published["inbox"] : b.seq = ack[a].seq /\ b.kind \in {"task", "resolve", "revise"}
  /\ ~ \E b \in temporary["inbox"] : b.seq = ack[a].seq

\* Then the worker becomes ACTIVE, by this caller or by one that was faster,
\* unless a process dies between the file and the state.
AckTakesEffect ==
  \A a \in Acker :
    ReadsReactivation(a) ~> (state = "ACTIVE" \/ \E c \in Acker : ack[c].pc = "dead")

\* A publication ends whatever earlier ones left behind.
PublicationsEnd ==
  \A d \in Direction : (author[d].pc = "numbered") ~> (author[d].pc = "idle")

Message == [kind : Kind, artifact : BOOLEAN]

Content(b) == [kind |-> b.kind, artifact |-> b.artifact > 0]

\* The mailbox as its readers see it: what lies under each number.
LogOf(d) == [s \in Numbers(d) |-> {Content(b) : b \in {c \in published[d] : c.seq = s}}]

Logs == [d \in Direction |-> LogOf(d)]

\* Each mailbox, read from disk, is a log that only grows, without gaps or
\* repeated numbers, of which numbers are acknowledged once and not before they
\* are there: neither crashes nor leftovers nor concurrent acknowledgements
\* break that, as long as callers name numbers they have seen.
Log == INSTANCE MailboxLog WITH
  Message <- {{m} : m \in Message},
  log <- Logs

ImplementsLog == Log!Spec
=============================================================================
