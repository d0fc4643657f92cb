--------------------------- MODULE MailboxProofs ----------------------------
(***************************************************************************)
(* The mailboxes on disk implement two logs, for any number of             *)
(* publications, acknowledging callers and failures.                       *)
(*                                                                         *)
(* The invariant is about the author between two of its steps: the number  *)
(* it chose is still the next one, its temporary directory holds what it   *)
(* has written and nothing else, and a submission that is about to change  *)
(* the state is published.                                                 *)
(***************************************************************************)
EXTENDS Mailbox, SequenceTheorems, TLAPS

Writing == {"numbered", "made", "addressed", "filled"}

\* The numbers are 1..n, and an author that writes holds the number n + 1.
Numbered(d) ==
  /\ \E n \in 0..attempts : Numbers(d) = 1..n
  /\ author[d].pc \in Writing =>
       /\ Numbers(d) = 1..(author[d].seq - 1)
       /\ author[d].seq <= attempts

Unique(d) == \A b, c \in published[d] : b.seq = c.seq => b = c

Authored(d) == author[d].pc # "idle" => author[d].kind \in KindsOf(d)

\* The temporary directory of the author, and how far it is filled.
Holds(d, b) ==
  /\ author[d].pc \in {"addressed", "filled"} => b.envelope = author[d].nr
  /\ author[d].pc \in {"made", "addressed"} => b.body = 0 /\ b.artifact = 0
  /\ author[d].pc = "filled" => b.body = b.envelope /\ b.artifact \in {0, b.envelope}

Written(d) ==
  author[d].pc \in {"made", "addressed", "filled"} =>
    \E b \in temporary[d] : Own(d) = {b} /\ Holds(d, b)

Whole(d) ==
  \A b \in published[d] :
    b.envelope > 0 /\ b.body = b.envelope /\ b.artifact \in {0, b.envelope}

Sound(d) == Numbered(d) /\ Unique(d) /\ Authored(d) /\ Written(d) /\ Whole(d)

\* The submission whose state change is due is published.
Submitted ==
  author["outbox"].pc = "renamed" => \E b \in published["outbox"] : b.kind = author["outbox"].kind

MailboxInv ==
  TypeOK /\ (\A d \in Direction : Sound(d)) /\ Submitted /\ AckedOnce /\ StateIsBacked

-----------------------------------------------------------------------------

\* The two mailboxes; "outbox" is one of them.
LEMMA Directions == "inbox" \in Direction /\ "outbox" \in Direction
BY DEF Direction

\* Each mailbox carries kinds of message.
LEMMA KindsOfType == \A d \in Direction : KindsOf(d) \subseteq Kind
BY DEF Kind

\* The next number follows the published ones.
LEMMA NextNumberFacts ==
  ASSUME NEW d \in Direction, NEW n \in Nat, Numbers(d) = 1..n
  PROVE  NextSequence(d) = n + 1
<1>1. {0} \cup {b.seq : b \in published[d]} = 0..n
  BY DEF Numbers
<1>2. Max(0..n) = n
  <2>1. \A x \in 0..n : (\A y \in 0..n : x >= y) <=> x = n
    OBVIOUS
  <2> QED
    BY <2>1 DEF Max
<1>3. Max({0} \cup {b.seq : b \in published[d]}) = n
  BY <1>1, <1>2
<1> QED
  BY <1>3 DEF NextSequence, NextNumber

\* A mailbox nobody touches stays sound.
LEMMA Untouched ==
  ASSUME MailboxInv, NEW d \in Direction,
         author'[d] = author[d], published'[d] = published[d], temporary'[d] = temporary[d],
         attempts' \in Nat, attempts' >= attempts
  PROVE  Sound(d)'
<1>1. Own(d)' = Own(d) /\ Numbers(d)' = Numbers(d)
  BY DEF Own, Numbers
<1>2. attempts \in Nat /\ author[d].seq \in Nat
  BY DEF MailboxInv, TypeOK, Author, Number
<1>3. Numbered(d)'
  BY <1>1, <1>2 DEF MailboxInv, Sound, Numbered
<1>4. Unique(d)' /\ Authored(d)' /\ Whole(d)'
  BY DEF MailboxInv, Sound, Unique, Authored, Whole
<1>5. Written(d)'
  BY <1>1 DEF MailboxInv, Sound, Written, Holds
<1> QED
  BY <1>3, <1>4, <1>5 DEF Sound

\* A new worker: its task is published, nothing else is there.
LEMMA MailboxInvInit == Init => MailboxInv
<1> SUFFICES ASSUME Init PROVE MailboxInv
  OBVIOUS
<1>1. Task \in Bundle
  BY MailboxBoundsAssumption DEF Task, Bundle, Kind, KindsOf, Direction, Number
<1>2. NoAuthor \in Author /\ NoCall \in Caller
  BY MailboxBoundsAssumption DEF NoAuthor, NoCall, Author, Caller, Kind, KindsOf, Direction, Number
<1>3. TypeOK
  BY <1>1, <1>2, MailboxBoundsAssumption DEF Init, TypeOK
<1>4. ASSUME NEW d \in Direction PROVE Sound(d)
  <2>1. author[d].pc = "idle"
    BY DEF Init, NoAuthor
  <2>2. Numbered(d)
    <3>1. CASE d = "inbox"
      <4>1. Numbers(d) = 1..1
        BY <3>1 DEF Init, Numbers, Task
      <4> QED
        BY <2>1, <4>1 DEF Init, Numbered, Writing
    <3>2. CASE d # "inbox"
      <4>1. Numbers(d) = 1..0
        BY <3>2 DEF Init, Numbers
      <4> QED
        BY <2>1, <4>1 DEF Init, Numbered, Writing
    <3> QED
      BY <3>1, <3>2
  <2>3. Unique(d) /\ Whole(d)
    BY DEF Init, Unique, Whole, Task
  <2> QED
    BY <2>1, <2>2, <2>3 DEF Sound, Authored, Written
<1>5. Submitted
  BY Directions DEF Init, Submitted, NoAuthor
<1>6. AckedOnce /\ StateIsBacked
  BY DEF Init, AckedOnce, StateIsBacked
<1> QED
  BY <1>3, <1>4, <1>5, <1>6 DEF MailboxInv

-----------------------------------------------------------------------------
(* Publication. *)

\* The author takes the number that follows the published ones.
LEMMA BeginStep == ASSUME MailboxInv, NEW d \in Direction, Begin(d) PROVE MailboxInv'
<1>1. PICK k \in KindsOf(d), art \in BOOLEAN :
        author' = [author EXCEPT ![d] = [pc |-> "numbered", kind |-> k, seq |-> NextSequence(d),
                                         artifact |-> art, nr |-> attempts + 1]]
  BY DEF Begin
<1>2. PICK n \in 0..attempts : Numbers(d) = 1..n
  BY DEF MailboxInv, Sound, Numbered
<1>3. attempts \in 1..MaxAttempts /\ attempts < MaxAttempts /\ attempts' = attempts + 1
  BY DEF Begin, MailboxInv, TypeOK
<1>4. NextSequence(d) = n + 1 /\ n \in Nat
  BY <1>2, <1>3, NextNumberFacts
<1>5. NextSequence(d) \in Number /\ attempts + 1 \in Number
  BY <1>3, <1>4, MailboxBoundsAssumption DEF Number
<1>6. author'[d] = [pc |-> "numbered", kind |-> k, seq |-> n + 1, artifact |-> art,
                    nr |-> attempts + 1]
  BY <1>1, <1>4 DEF MailboxInv, TypeOK
<1>7. \A e \in Direction \ {d} : author'[e] = author[e]
  BY <1>1 DEF MailboxInv, TypeOK
<1>8. UNCHANGED <<published, temporary, receipts, state, ack, faults>>
  BY DEF Begin
<1>9. TypeOK'
  <2>1. author'[d] \in Author
    BY <1>4, <1>5, <1>6, KindsOfType DEF Author
  <2>2. author' \in [Direction -> Author]
    BY <1>1, <1>7, <2>1 DEF MailboxInv, TypeOK
  <2>3. attempts' \in 1..MaxAttempts
    BY <1>3, MailboxBoundsAssumption
  <2> QED
    BY <1>8, <2>2, <2>3 DEF MailboxInv, TypeOK
<1>10. Sound(d)'
  <2>1. Numbers(d)' = 1..n
    BY <1>2, <1>8 DEF Numbers
  <2>2. Numbered(d)'
    BY <1>2, <1>3, <1>6, <2>1 DEF Numbered, Writing
  <2>3. Authored(d)' /\ Written(d)'
    BY <1>6 DEF Authored, Written
  <2>4. Unique(d)' /\ Whole(d)'
    BY <1>8 DEF MailboxInv, Sound, Unique, Whole
  <2> QED
    BY <2>2, <2>3, <2>4 DEF Sound
<1>11. \A e \in Direction \ {d} : Sound(e)'
  BY <1>3, <1>7, <1>8, Untouched
<1>12. Submitted' /\ AckedOnce' /\ StateIsBacked'
  BY <1>6, <1>7, <1>8, Directions DEF MailboxInv, Submitted, AckedOnce, StateIsBacked
<1> QED
  BY <1>9, <1>10, <1>11, <1>12 DEF MailboxInv

\* The step of an author that stays in its call: its record keeps all but pc.
LEMMA AdvanceFacts ==
  ASSUME TypeOK, NEW d \in Direction, NEW to, Advance(d, to)
  PROVE  /\ author'[d] = [author[d] EXCEPT !.pc = to]
         /\ author'[d].pc = to /\ author'[d].kind = author[d].kind
         /\ author'[d].seq = author[d].seq /\ author'[d].nr = author[d].nr
         /\ \A e \in Direction \ {d} : author'[e] = author[e]
         /\ to \in {"numbered", "made", "addressed", "filled", "renamed"}
              => author' \in [Direction -> Author]
<1>1. author'[d] = [author[d] EXCEPT !.pc = to] /\ \A e \in Direction \ {d} : author'[e] = author[e]
  BY DEF Advance, TypeOK
<1>2. author[d] \in Author
  BY DEF TypeOK
<1>3. /\ author'[d].pc = to /\ author'[d].kind = author[d].kind
      /\ author'[d].seq = author[d].seq /\ author'[d].nr = author[d].nr
  BY <1>1, <1>2 DEF Author
<1>4. ASSUME to \in {"numbered", "made", "addressed", "filled", "renamed"}
      PROVE  author' \in [Direction -> Author]
  <2>1. [author[d] EXCEPT !.pc = to] \in Author
    BY <1>2, <1>4 DEF Author
  <2> QED
    BY <2>1 DEF Advance, TypeOK
<1> QED
  BY <1>1, <1>3, <1>4

\* The step with which an author's process ends its call.
LEMMA ReturnFacts ==
  ASSUME TypeOK, NEW d \in Direction, Return(d)
  PROVE  /\ author'[d].pc = "idle"
         /\ \A e \in Direction \ {d} : author'[e] = author[e]
         /\ author' \in [Direction -> Author]
<1>1. NoAuthor \in Author
  BY MailboxBoundsAssumption DEF NoAuthor, Author, Kind, KindsOf, Direction, Number
<1> QED
  BY <1>1 DEF Return, TypeOK, NoAuthor

\* The author's temporary directory is what it has just written.
LEMMA RewriteFacts ==
  ASSUME TypeOK, NEW d \in Direction, NEW b \in Bundle, Rewrite(d, b),
         b.kind = author[d].kind, b.seq = author[d].seq,
         author'[d].kind = author[d].kind, author'[d].seq = author[d].seq
  PROVE  /\ Own(d)' = {b} /\ b \in temporary'[d]
         /\ \A e \in Direction \ {d} : temporary'[e] = temporary[e]
         /\ temporary' \in [Direction -> SUBSET Bundle]
<1>1. /\ temporary'[d] = (temporary[d] \ Own(d)) \cup {b}
      /\ \A e \in Direction \ {d} : temporary'[e] = temporary[e]
  BY DEF Rewrite, TypeOK
<1>2. Own(d)' = {b}
  BY <1>1 DEF Own
<1>3. temporary' \in [Direction -> SUBSET Bundle]
  BY <1>1 DEF Rewrite, TypeOK
<1> QED
  BY <1>1, <1>2, <1>3

\* What the writing steps have in common: one author goes on or returns, its
\* directory is rewritten, and nothing is published.
LEMMA WritingStep ==
  ASSUME MailboxInv, NEW d \in Direction,
         UNCHANGED <<published, receipts, state, ack, attempts, faults>>,
         author' \in [Direction -> Author], temporary' \in [Direction -> SUBSET Bundle],
         \A e \in Direction \ {d} : author'[e] = author[e] /\ temporary'[e] = temporary[e],
         author'[d].pc \in Writing \cup {"idle"},
         author'[d].pc # "idle" =>
           /\ author[d].pc \in Writing
           /\ author'[d].kind = author[d].kind /\ author'[d].seq = author[d].seq,
         Written(d)'
  PROVE  MailboxInv'
<1>1. TypeOK'
  BY DEF MailboxInv, TypeOK
<1>2. Sound(d)'
  <2>1. Numbers(d)' = Numbers(d)
    BY DEF Numbers
  <2>2. Numbered(d)'
    BY <2>1 DEF MailboxInv, Sound, Numbered, Writing
  <2>3. Authored(d)'
    BY DEF MailboxInv, Sound, Authored, Writing
  <2>4. Unique(d)' /\ Whole(d)'
    BY DEF MailboxInv, Sound, Unique, Whole
  <2> QED
    BY <2>2, <2>3, <2>4 DEF Sound
<1>3. \A e \in Direction \ {d} : Sound(e)'
  <2>1. attempts' \in Nat /\ attempts' >= attempts
    BY DEF MailboxInv, TypeOK
  <2> QED
    BY <2>1, Untouched
<1>4. Submitted'
  BY Directions DEF MailboxInv, Submitted, Writing
<1>5. AckedOnce' /\ StateIsBacked'
  BY DEF MailboxInv, AckedOnce, StateIsBacked
<1> QED
  BY <1>1, <1>2, <1>3, <1>4, <1>5 DEF MailboxInv

\* An empty temporary directory replaces what was left there.
LEMMA MakeTemporaryStep ==
  ASSUME MailboxInv, NEW d \in Direction, MakeTemporary(d) PROVE MailboxInv'
<1>1. TypeOK /\ author[d].pc = "numbered" /\ author[d] \in Author
  BY DEF MailboxInv, MakeTemporary, TypeOK
<1>2. PICK b \in Bundle : b = Empty(d)
  <2>1. author[d].kind \in Kind /\ author[d].seq \in Number /\ 0 \in 0..MaxAttempts
    BY <1>1, MailboxBoundsAssumption DEF Author
  <2>2. Empty(d) \in Bundle
    BY <2>1 DEF Empty, Bundle
  <2> QED
    BY <2>2
<1>3. b.kind = author[d].kind /\ b.seq = author[d].seq /\ b.body = 0 /\ b.artifact = 0
  BY <1>2 DEF Empty
<1>4. /\ author'[d].pc = "made" /\ author'[d].kind = author[d].kind
      /\ author'[d].seq = author[d].seq /\ author' \in [Direction -> Author]
      /\ \A e \in Direction \ {d} : author'[e] = author[e]
  BY <1>1, AdvanceFacts DEF MakeTemporary
<1>5. /\ Own(d)' = {b} /\ b \in temporary'[d]
      /\ \A e \in Direction \ {d} : temporary'[e] = temporary[e]
      /\ temporary' \in [Direction -> SUBSET Bundle]
  BY <1>1, <1>2, <1>3, <1>4, RewriteFacts DEF MakeTemporary
<1>6. Written(d)'
  BY <1>3, <1>4, <1>5 DEF Written, Holds
<1> QED
  BY <1>1, <1>4, <1>5, <1>6, WritingStep DEF MakeTemporary, Writing

\* The envelope is the author's.
LEMMA WriteEnvelopeStep ==
  ASSUME MailboxInv, NEW d \in Direction, WriteEnvelope(d) PROVE MailboxInv'
<1>1. TypeOK /\ author[d].pc = "made" /\ author[d] \in Author /\ Written(d)
  BY DEF MailboxInv, WriteEnvelope, TypeOK, Sound
<1>2. PICK a \in Own(d) : Rewrite(d, [a EXCEPT !.envelope = author[d].nr])
  BY DEF WriteEnvelope
<1>3. a \in Bundle /\ a.kind = author[d].kind /\ a.seq = author[d].seq /\ a.body = 0 /\ a.artifact = 0
  BY <1>1, <1>2 DEF Written, Holds, Own, TypeOK
<1>4. PICK b \in Bundle : b = [a EXCEPT !.envelope = author[d].nr]
  <2>1. author[d].nr \in 0..MaxAttempts /\ 0 \in 0..MaxAttempts
    BY <1>1, MailboxBoundsAssumption DEF Author, Number
  <2> QED
    BY <2>1, <1>3 DEF Bundle
<1>5. /\ b.kind = author[d].kind /\ b.seq = author[d].seq /\ b.body = 0 /\ b.artifact = 0
      /\ b.envelope = author[d].nr
  BY <1>3, <1>4 DEF Bundle
<1>6. /\ author'[d].pc = "addressed" /\ author'[d].kind = author[d].kind
      /\ author'[d].seq = author[d].seq /\ author'[d].nr = author[d].nr
      /\ author' \in [Direction -> Author]
      /\ \A e \in Direction \ {d} : author'[e] = author[e]
  BY <1>1, AdvanceFacts DEF WriteEnvelope
<1>7. /\ Own(d)' = {b} /\ b \in temporary'[d]
      /\ \A e \in Direction \ {d} : temporary'[e] = temporary[e]
      /\ temporary' \in [Direction -> SUBSET Bundle]
  BY <1>1, <1>2, <1>4, <1>5, <1>6, RewriteFacts
<1>8. Written(d)'
  BY <1>5, <1>6, <1>7 DEF Written, Holds
<1> QED
  BY <1>1, <1>6, <1>7, <1>8, WritingStep DEF WriteEnvelope, Writing

\* So are the body and the artifact.
LEMMA WritePayloadStep ==
  ASSUME MailboxInv, NEW d \in Direction, WritePayload(d) PROVE MailboxInv'
<1>1. TypeOK /\ author[d].pc = "addressed" /\ author[d] \in Author /\ Written(d)
  BY DEF MailboxInv, WritePayload, TypeOK, Sound
<1>2. PICK a \in Own(d) :
        Rewrite(d, [a EXCEPT !.body = author[d].nr,
                             !.artifact = IF author[d].artifact THEN author[d].nr ELSE @])
  BY DEF WritePayload
<1>3. /\ a \in Bundle /\ a.kind = author[d].kind /\ a.seq = author[d].seq
      /\ a.envelope = author[d].nr /\ a.artifact = 0
  BY <1>1, <1>2 DEF Written, Holds, Own, TypeOK
<1>4. PICK b \in Bundle :
        b = [a EXCEPT !.body = author[d].nr,
                      !.artifact = IF author[d].artifact THEN author[d].nr ELSE @]
  BY <1>1, <1>3 DEF Bundle, Author, Number
<1>5. /\ b.kind = author[d].kind /\ b.seq = author[d].seq /\ b.envelope = author[d].nr
      /\ b.body = b.envelope /\ b.artifact \in {0, b.envelope}
  BY <1>3, <1>4 DEF Bundle
<1>6. /\ author'[d].pc = "filled" /\ author'[d].kind = author[d].kind
      /\ author'[d].seq = author[d].seq /\ author'[d].nr = author[d].nr
      /\ author' \in [Direction -> Author]
      /\ \A e \in Direction \ {d} : author'[e] = author[e]
  BY <1>1, AdvanceFacts DEF WritePayload
<1>7. /\ Own(d)' = {b} /\ b \in temporary'[d]
      /\ \A e \in Direction \ {d} : temporary'[e] = temporary[e]
      /\ temporary' \in [Direction -> SUBSET Bundle]
  BY <1>1, <1>2, <1>4, <1>5, <1>6, RewriteFacts
<1>8. Written(d)'
  BY <1>5, <1>6, <1>7 DEF Written, Holds
<1> QED
  BY <1>1, <1>6, <1>7, <1>8, WritingStep DEF WritePayload, Writing

\* A refused publication leaves its directory, and nobody answers for it.
LEMMA PayloadRefusedStep ==
  ASSUME MailboxInv, NEW d \in Direction, PayloadRefused(d) PROVE MailboxInv'
<1>1. TypeOK /\ author[d] \in Author
  BY DEF MailboxInv, TypeOK
<1>2. PICK a \in Own(d), written \in {0, author[d].nr} :
        Rewrite(d, [a EXCEPT !.body = author[d].nr, !.artifact = written])
  BY DEF PayloadRefused
<1>3. a \in Bundle
  BY <1>1, <1>2 DEF Own, TypeOK
<1>4. [a EXCEPT !.body = author[d].nr, !.artifact = written] \in Bundle
  <2>1. author[d].nr \in 0..MaxAttempts /\ 0 \in 0..MaxAttempts
    BY <1>1, MailboxBoundsAssumption DEF Author, Number
  <2> QED
    BY <2>1, <1>2, <1>3 DEF Bundle
<1>5. /\ author'[d].pc = "idle" /\ author' \in [Direction -> Author]
      /\ \A e \in Direction \ {d} : author'[e] = author[e]
  BY <1>1, ReturnFacts DEF PayloadRefused
<1>6. /\ \A e \in Direction \ {d} : temporary'[e] = temporary[e]
      /\ temporary' \in [Direction -> SUBSET Bundle]
  BY <1>1, <1>2, <1>4 DEF Rewrite, TypeOK
<1>7. Written(d)'
  BY <1>5 DEF Written
<1> QED
  BY <1>5, <1>6, <1>7, WritingStep DEF PayloadRefused

\* An author that dies leaves its directory too.
LEMMA AuthorDiesStep ==
  ASSUME MailboxInv, NEW d \in Direction, AuthorDies(d) PROVE MailboxInv'
<1>1. /\ author'[d].pc = "idle" /\ author' \in [Direction -> Author]
      /\ \A e \in Direction \ {d} : author'[e] = author[e]
  BY ReturnFacts DEF AuthorDies, MailboxInv
<1>2. TypeOK'
  BY <1>1, MailboxBoundsAssumption DEF AuthorDies, MailboxInv, TypeOK
<1>3. Sound(d)'
  <2>1. Numbered(d)'
    BY <1>1 DEF AuthorDies, MailboxInv, Sound, Numbered, Numbers, Writing
  <2>2. Unique(d)' /\ Whole(d)'
    BY DEF AuthorDies, MailboxInv, Sound, Unique, Whole
  <2>3. Authored(d)' /\ Written(d)'
    BY <1>1 DEF Authored, Written
  <2> QED
    BY <2>1, <2>2, <2>3 DEF Sound
<1>4. \A e \in Direction \ {d} : Sound(e)'
  <2>1. UNCHANGED <<published, temporary, attempts>> /\ attempts' \in Nat /\ attempts' >= attempts
    BY DEF AuthorDies, MailboxInv, TypeOK
  <2> QED
    BY <1>1, <2>1, Untouched
<1>5. Submitted' /\ AckedOnce' /\ StateIsBacked'
  <2>1. Submitted'
    BY <1>1, Directions DEF AuthorDies, MailboxInv, Submitted
  <2>2. AckedOnce' /\ StateIsBacked'
    BY DEF AuthorDies, MailboxInv, AckedOnce, StateIsBacked
  <2> QED
    BY <2>1, <2>2
<1> QED
  BY <1>2, <1>3, <1>4, <1>5 DEF MailboxInv

\* What is published is one whole bundle under the next number.
LEMMA PublishFacts ==
  ASSUME MailboxInv, NEW d \in Direction, Publish(d)
  PROVE  \E b \in Bundle :
           /\ published' = [published EXCEPT ![d] = @ \cup {b}]
           /\ Own(d) = {b} /\ b.kind = author[d].kind /\ b.seq = author[d].seq
           /\ Numbers(d) = 1..(b.seq - 1) /\ b.seq <= attempts
           /\ b.envelope > 0 /\ b.body = b.envelope /\ b.artifact \in {0, b.envelope}
<1>1. TypeOK /\ author[d].pc = "filled" /\ author[d] \in Author /\ Sound(d)
  BY DEF MailboxInv, Publish, TypeOK
<1>2. PICK b \in temporary[d] : Own(d) = {b} /\ Holds(d, b)
  BY <1>1 DEF Sound, Written
<1>3. b \in Bundle /\ b.kind = author[d].kind /\ b.seq = author[d].seq
  BY <1>1, <1>2 DEF TypeOK, Own
<1>4. b.envelope > 0 /\ b.body = b.envelope /\ b.artifact \in {0, b.envelope}
  BY <1>1, <1>2 DEF Holds, Author, Number
<1>5. Numbers(d) = 1..(b.seq - 1) /\ b.seq <= attempts
  BY <1>1, <1>3 DEF Sound, Numbered, Writing
<1> QED
  BY <1>2, <1>3, <1>4, <1>5 DEF Publish

\* The rename makes the directory the next bundle.
LEMMA PublishStep == ASSUME MailboxInv, NEW d \in Direction, Publish(d) PROVE MailboxInv'
<1>1. PICK b \in Bundle :
           /\ published' = [published EXCEPT ![d] = @ \cup {b}]
           /\ Own(d) = {b} /\ b.kind = author[d].kind /\ b.seq = author[d].seq
           /\ Numbers(d) = 1..(b.seq - 1) /\ b.seq <= attempts
           /\ b.envelope > 0 /\ b.body = b.envelope /\ b.artifact \in {0, b.envelope}
  BY PublishFacts
<1>2. TypeOK /\ Sound(d) /\ b.seq \in Nat \ {0} /\ attempts \in Nat
  BY <1>1 DEF MailboxInv, TypeOK, Bundle, Number
<1>3. /\ published'[d] = published[d] \cup {b}
      /\ \A e \in Direction \ {d} : published'[e] = published[e]
  BY <1>1, <1>2 DEF TypeOK
<1>4. \A e \in Direction \ {d} : temporary'[e] = temporary[e]
  BY <1>2 DEF Publish, TypeOK
<1>5. UNCHANGED <<receipts, state, ack, attempts, faults>>
  BY DEF Publish
<1>6. /\ author'[d].pc \in {"idle", "renamed"} /\ author' \in [Direction -> Author]
      /\ author'[d].pc = "renamed" => author'[d].kind = author[d].kind
      /\ \A e \in Direction \ {d} : author'[e] = author[e]
  BY <1>2, AdvanceFacts, ReturnFacts DEF Publish
<1>7. TypeOK'
  <2>1. published' \in [Direction -> SUBSET Bundle]
    BY <1>1, <1>2 DEF TypeOK
  <2>2. temporary' \in [Direction -> SUBSET Bundle]
    BY <1>2 DEF Publish, TypeOK
  <2> QED
    BY <1>2, <1>5, <1>6, <2>1, <2>2 DEF TypeOK
<1>8. Sound(d)'
  <2>1. Numbers(d)' = 1..b.seq
    <3>1. Numbers(d)' = Numbers(d) \cup {b.seq}
      BY <1>3 DEF Numbers
    <3> QED
      BY <1>1, <1>2, <3>1
  <2>2. Numbered(d)'
    BY <1>1, <1>2, <1>5, <1>6, <2>1 DEF Numbered, Writing
  <2>3. Unique(d)'
    <3>1. \A c \in published[d] : c.seq # b.seq
      BY <1>1, <1>2 DEF Numbers
    <3> QED
      BY <1>2, <1>3, <3>1 DEF Sound, Unique
  <2>4. Authored(d)'
    BY <1>2, <1>6 DEF Sound, Authored, Publish
  <2>5. Written(d)' /\ Whole(d)'
    BY <1>1, <1>2, <1>3, <1>6 DEF Sound, Written, Whole
  <2> QED
    BY <2>2, <2>3, <2>4, <2>5 DEF Sound
<1>9. \A e \in Direction \ {d} : Sound(e)'
  BY <1>2, <1>3, <1>4, <1>5, <1>6, Untouched
<1>10. Submitted'
  BY <1>1, <1>3, <1>6, Directions DEF MailboxInv, Submitted
<1>11. AckedOnce' /\ StateIsBacked'
  <2>1. \A e \in Direction : published[e] \subseteq published'[e]
    BY <1>3
  <2> QED
    BY <1>5, <2>1, Directions DEF MailboxInv, AckedOnce, StateIsBacked
<1> QED
  BY <1>7, <1>8, <1>9, <1>10, <1>11 DEF MailboxInv

\* The state follows a submission that is published.
LEMMA UpdateSubmissionStateStep ==
  ASSUME MailboxInv, UpdateSubmissionState PROVE MailboxInv'
<1>1. TypeOK /\ "outbox" \in Direction /\ author["outbox"].pc = "renamed" /\ Return("outbox")
  BY Directions DEF UpdateSubmissionState, MailboxInv
<1>2. /\ author'["outbox"].pc = "idle" /\ author' \in [Direction -> Author]
      /\ \A e \in Direction \ {"outbox"} : author'[e] = author[e]
  BY <1>1, ReturnFacts
<1>3. UNCHANGED <<published, temporary, receipts, ack, attempts, faults>>
  BY DEF UpdateSubmissionState
<1>4. author["outbox"].kind \in {"report", "commit"}
  BY <1>1 DEF MailboxInv, Sound, Authored, KindsOf
<1>5. state' \in {state, SubmittedState(author["outbox"].kind)}
  BY DEF UpdateSubmissionState
<1>6. TypeOK'
  BY <1>1, <1>2, <1>3, <1>5 DEF TypeOK, SubmittedState
<1>7. Sound("outbox")'
  BY <1>1, <1>2, <1>3 DEF MailboxInv, Sound, Numbered, Numbers, Writing, Unique, Authored, Written, Whole
<1>8. \A e \in Direction \ {"outbox"} : Sound(e)'
  <2>1. attempts' \in Nat /\ attempts' >= attempts
    BY <1>1, <1>3 DEF TypeOK
  <2> QED
    BY <1>2, <1>3, <2>1, Untouched
<1>9. Submitted' /\ AckedOnce'
  BY <1>2, <1>3 DEF MailboxInv, Submitted, AckedOnce
<1>10. StateIsBacked'
  BY <1>1, <1>3, <1>4, <1>5 DEF MailboxInv, Submitted, StateIsBacked, SubmittedState
<1> QED
  BY <1>6, <1>7, <1>8, <1>9, <1>10 DEF MailboxInv

-----------------------------------------------------------------------------
(* Acknowledgement. *)

\* A caller changes no mailbox, so the invariant is left to the parts it may
\* disturb.
LEMMA CallerStep ==
  ASSUME MailboxInv, UNCHANGED <<published, temporary, author, attempts>>,
         TypeOK', AckedOnce', StateIsBacked'
  PROVE  MailboxInv'
<1>1. \A d \in Direction : Sound(d)'
  <2>1. attempts' \in Nat /\ attempts' >= attempts
    BY DEF MailboxInv, TypeOK
  <2> QED
    BY <2>1, Untouched
<1>2. Submitted'
  BY DEF MailboxInv, Submitted
<1> QED
  BY <1>1, <1>2 DEF MailboxInv

\* A caller without a call, or a dead one, is a caller.
LEMMA NoCallType == NoCall \in Caller /\ [NoCall EXCEPT !.pc = "dead"] \in Caller
BY MailboxBoundsAssumption DEF NoCall, Caller, Direction, Number, Kind, KindsOf

\* Looking a number up only starts a call.
LEMMA FindBundleStep == ASSUME MailboxInv, NEW a \in Acker, FindBundle(a) PROVE MailboxInv'
<1>1. PICK d \in Direction : \E b \in published[d] \cup temporary[d] :
        ack' = [ack EXCEPT ![a] = [pc |-> "checked", of |-> d, seq |-> b.seq, kind |-> b.kind]]
  BY DEF FindBundle
<1>2. PICK b \in published[d] \cup temporary[d] :
        ack' = [ack EXCEPT ![a] = [pc |-> "checked", of |-> d, seq |-> b.seq, kind |-> b.kind]]
  BY <1>1
<1>3. b.seq \in Number /\ b.kind \in Kind
  BY DEF MailboxInv, TypeOK, Bundle
<1>4. TypeOK'
  <2>1. [pc |-> "checked", of |-> d, seq |-> b.seq, kind |-> b.kind] \in Caller
    BY <1>3 DEF Caller
  <2> QED
    BY <1>2, <2>1 DEF FindBundle, MailboxInv, TypeOK
<1>5. AckedOnce' /\ StateIsBacked'
  BY DEF FindBundle, MailboxInv, AckedOnce, StateIsBacked
<1> QED
  BY <1>4, <1>5, CallerStep DEF FindBundle

\* A caller whose call goes on or ends.
LEMMA CallType ==
  ASSUME TypeOK, NEW a \in Acker,
         Answer(a) \/ Goto(a, "created") \/ ack' = [ack EXCEPT ![a] = [NoCall EXCEPT !.pc = "dead"]]
  PROVE  ack' \in [Acker -> Caller]
<1>1. [ack[a] EXCEPT !.pc = "created"] \in Caller
  BY DEF TypeOK, Caller
<1> QED
  BY <1>1, NoCallType DEF TypeOK, Answer, Goto

\* Only a number without an acknowledgement file gets one.
LEMMA CreateAckStep == ASSUME MailboxInv, NEW a \in Acker, CreateAck(a) PROVE MailboxInv'
<1>1. TypeOK /\ ack[a] \in Caller
  BY DEF MailboxInv, TypeOK
<1>2. ack' \in [Acker -> Caller]
  BY <1>1, CallType DEF CreateAck, Created
<1>3. CASE Acknowledged(a)
  <2>1. UNCHANGED receipts
    BY <1>3 DEF CreateAck
  <2>2. TypeOK' /\ AckedOnce' /\ StateIsBacked'
    BY <1>1, <1>2, <2>1 DEF CreateAck, MailboxInv, TypeOK, AckedOnce, StateIsBacked
  <2> QED
    BY <2>2, CallerStep DEF CreateAck
<1>4. CASE ~Acknowledged(a)
  <2>1. /\ ack[a].of \in Direction /\ ack[a].seq \in Number
        /\ receipts[ack[a].of][ack[a].seq] = 0
    BY <1>1, <1>4 DEF Acknowledged, Caller, TypeOK
  <2>2. receipts' = [receipts EXCEPT ![ack[a].of][ack[a].seq] = 1]
    BY <1>4, <2>1 DEF CreateAck, Created
  <2>3. receipts' \in [Direction -> [Number -> Nat]] /\ AckedOnce'
    BY <1>1, <2>1, <2>2 DEF MailboxInv, TypeOK, AckedOnce
  <2>4. TypeOK' /\ StateIsBacked'
    BY <1>1, <1>2, <2>3 DEF CreateAck, MailboxInv, TypeOK, StateIsBacked
  <2> QED
    BY <2>3, <2>4, CallerStep DEF CreateAck
<1> QED
  BY <1>3, <1>4

\* ACTIVE needs no bundle behind it.
LEMMA UpdateStateAfterAckStep ==
  ASSUME MailboxInv, NEW a \in Acker, UpdateStateAfterAck(a) PROVE MailboxInv'
<1>1. ack' \in [Acker -> Caller]
  BY CallType DEF UpdateStateAfterAck, MailboxInv
<1>2. state' \in {state, "ACTIVE"}
  BY DEF UpdateStateAfterAck
<1>3. TypeOK' /\ AckedOnce' /\ StateIsBacked'
  BY <1>1, <1>2 DEF UpdateStateAfterAck, MailboxInv, TypeOK, AckedOnce, StateIsBacked
<1> QED
  BY <1>3, CallerStep DEF UpdateStateAfterAck

\* A caller that dies or starts again changes no file.
LEMMA CallerDiesStep ==
  ASSUME MailboxInv, NEW a \in Acker, CallerDies(a) \/ Restart(a) PROVE MailboxInv'
<1>1. ack' \in [Acker -> Caller]
  BY CallType DEF CallerDies, Restart, MailboxInv
<1>2. faults' \in 0..MaxFaults
  BY MailboxBoundsAssumption DEF CallerDies, Restart, MailboxInv, TypeOK
<1>3. TypeOK' /\ AckedOnce' /\ StateIsBacked'
  BY <1>1, <1>2 DEF CallerDies, Restart, MailboxInv, TypeOK, AckedOnce, StateIsBacked
<1> QED
  BY <1>3, CallerStep DEF CallerDies, Restart

-----------------------------------------------------------------------------
(* The invariant, and what follows from it. *)

\* Every step of a publication keeps the invariant.
LEMMA PublicationStep ==
  ASSUME MailboxInv, NEW d \in Direction, Publication(d) PROVE MailboxInv'
BY MakeTemporaryStep, WriteEnvelopeStep, WritePayloadStep, PayloadRefusedStep, PublishStep,
   UpdateSubmissionStateStep DEF Publication

\* The invariant is inductive.
LEMMA MailboxInvNext == MailboxInv /\ [Next]_vars => MailboxInv'
<1> SUFFICES ASSUME MailboxInv, [Next]_vars PROVE MailboxInv'
  OBVIOUS
<1>1. CASE \E d \in Direction : Begin(d) \/ Publication(d) \/ AuthorDies(d)
  BY <1>1, BeginStep, PublicationStep, AuthorDiesStep
<1>2. CASE \E a \in Acker : FindBundle(a) \/ Acknowledgement(a) \/ CallerDies(a) \/ Restart(a)
  BY <1>2, FindBundleStep, CreateAckStep, UpdateStateAfterAckStep, CallerDiesStep DEF Acknowledgement
<1>3. CASE UNCHANGED vars
  BY <1>3, CallerStep DEF vars, MailboxInv, TypeOK, AckedOnce, StateIsBacked
<1> QED
  BY <1>1, <1>2, <1>3 DEF Next

\* It holds in every state, for any number of attempts, callers and failures.
LEMMA MailboxInvariance == Spec => []MailboxInv
BY MailboxInvInit, MailboxInvNext, PTL DEF Spec

\* Every variable of the mailboxes keeps its type; the numbers stay within the
\* attempts that were made.
THEOREM MailboxTypeCorrect == Spec => []TypeOK
BY MailboxInvariance, PTL DEF MailboxInv

\* No attempt that died or was refused leaves a trace in a published bundle.
THEOREM BundlesWhole == Spec => []PublishedIsWhole
<1>1. MailboxInv => PublishedIsWhole
  BY DEF MailboxInv, Sound, Whole, PublishedIsWhole
<1> QED
  BY <1>1, MailboxInvariance, PTL

\* However many callers acknowledge, one of them is told it did.
THEOREM OneAcknowledger == Spec => []AckedOnce
BY MailboxInvariance, PTL DEF MailboxInv

\* BLOCKED and COMMITTED have their bundle in the outbox, wherever a process
\* died.
THEOREM SubmissionBacked == Spec => []StateIsBacked
BY MailboxInvariance, PTL DEF MailboxInv

-----------------------------------------------------------------------------
(* The refinement. *)

Entry == {{m} : m \in Message}

Listed(P) == [s \in {b.seq : b \in P} |-> {Content(b) : b \in {c \in P : c.seq = s}}]

\* Bundles numbered 1..n, each number once, read as a sequence of messages.
LEMMA ListedFacts ==
  ASSUME NEW P \in SUBSET Bundle, NEW n \in Nat, {b.seq : b \in P} = 1..n,
         \A b, c \in P : b.seq = c.seq => b = c
  PROVE  Listed(P) \in Seq(Entry) /\ Len(Listed(P)) = n
<1>1. ASSUME NEW s \in 1..n PROVE {Content(b) : b \in {c \in P : c.seq = s}} \in Entry
  <2>1. PICK b \in P : b.seq = s
    OBVIOUS
  <2>2. {c \in P : c.seq = s} = {b}
    BY <2>1
  <2>3. Content(b) \in Message
    BY DEF Content, Message, Bundle
  <2> QED
    BY <2>2, <2>3 DEF Entry
<1>2. Listed(P) \in [1..n -> Entry]
  BY <1>1 DEF Listed
<1> QED
  BY <1>2, SeqDef

\* A bundle under the next number appends its message.
LEMMA ListedAppend ==
  ASSUME NEW P \in SUBSET Bundle, NEW b \in Bundle, b.seq \in Nat \ {0},
         {c.seq : c \in P} = 1..(b.seq - 1), \A c, e \in P : c.seq = e.seq => c = e
  PROVE  Listed(P \cup {b}) = Append(Listed(P), {Content(b)})
<1> DEFINE Q == P \cup {b}
           m == {Content(b)}
<1>1. {c.seq : c \in Q} = 1..b.seq /\ \A c, e \in Q : c.seq = e.seq => c = e
  OBVIOUS
<1>2. Listed(P) \in Seq(Entry) /\ Len(Listed(P)) = b.seq - 1
  BY ListedFacts
<1>3. Listed(Q) \in Seq(Entry) /\ Len(Listed(Q)) = b.seq
  BY <1>1, ListedFacts
<1>4. m \in Entry
  <2>1. Content(b) \in Message
    BY DEF Content, Message, Bundle
  <2> QED
    BY <2>1 DEF Entry
<1>5. /\ Append(Listed(P), m) \in Seq(Entry) /\ Len(Append(Listed(P), m)) = b.seq
      /\ \A i \in 1..(b.seq - 1) : Append(Listed(P), m)[i] = Listed(P)[i]
      /\ Append(Listed(P), m)[b.seq] = m
  BY <1>2, <1>4, AppendProperties
<1>6. ASSUME NEW i \in 1..b.seq PROVE Listed(Q)[i] = Append(Listed(P), m)[i]
  <2>1. Listed(Q)[i] = {Content(e) : e \in {c \in Q : c.seq = i}}
    BY <1>1 DEF Listed
  <2>2. CASE i = b.seq
    <3>1. {c \in Q : c.seq = i} = {b}
      BY <2>2
    <3>2. Listed(Q)[i] = m
      BY <2>1, <3>1
    <3> QED
      BY <1>5, <2>2, <3>2
  <2>3. CASE i # b.seq
    <3>1. i \in 1..(b.seq - 1)
      BY <2>3
    <3>2. Listed(P)[i] = {Content(e) : e \in {c \in P : c.seq = i}}
      BY <3>1 DEF Listed
    <3>3. {c \in Q : c.seq = i} = {c \in P : c.seq = i}
      BY <2>3
    <3>4. Listed(Q)[i] = Listed(P)[i]
      BY <2>1, <3>2, <3>3
    <3> QED
      BY <1>5, <3>1, <3>4
  <2> QED
    BY <2>2, <2>3
<1> QED
  BY <1>3, <1>5, <1>6, SeqEqual

\* The log of a mailbox is its bundles read as a sequence.
LEMMA LogIsListed == \A d \in Direction : LogOf(d) = Listed(published[d])
BY DEF LogOf, Listed, Numbers

\* A new worker's mailboxes are two logs, with the task in one.
LEMMA LogInit == Init => Log!Init
<1> SUFFICES ASSUME Init PROVE Log!Init
  OBVIOUS
<1>1. ASSUME NEW d \in Direction PROVE LogOf(d) \in Seq(Entry)
  <2>1. PICK n \in 0..attempts : Numbers(d) = 1..n
    BY MailboxInvInit DEF MailboxInv, Sound, Numbered
  <2>2. n \in Nat /\ published[d] \in SUBSET Bundle /\ Unique(d)
    BY MailboxInvInit DEF MailboxInv, TypeOK, Sound
  <2> QED
    BY <2>1, <2>2, ListedFacts, LogIsListed DEF Numbers, Unique
<1>2. receipts = [d \in Direction |-> [s \in Number |-> 0]]
  BY DEF Init
<1> QED
  BY <1>1, <1>2 DEF Log!Init, Entry, Logs

\* A publication appends to one log.
LEMMA LogPublish ==
  ASSUME MailboxInv, NEW d \in Direction, Publish(d) PROVE Log!Publish(d)
<1>1. PICK b \in Bundle :
        published' = [published EXCEPT ![d] = @ \cup {b}] /\ Numbers(d) = 1..(b.seq - 1)
  BY PublishFacts
<1>2. /\ published \in [Direction -> SUBSET Bundle] /\ Unique(d) /\ b.seq \in Nat \ {0}
      /\ published[d] \in SUBSET Bundle
  BY DEF MailboxInv, TypeOK, Sound, Bundle, Number
<1>3. LogOf(d)' = Append(LogOf(d), {Content(b)})
  <2>1. LogOf(d) = Listed(published[d]) /\ LogOf(d)' = Listed(published[d] \cup {b})
    BY <1>1, <1>2 DEF LogOf, Listed, Numbers
  <2>2. Listed(published[d] \cup {b}) = Append(Listed(published[d]), {Content(b)})
    BY <1>1, <1>2, ListedAppend DEF Unique, Numbers
  <2> QED
    BY <2>1, <2>2
<1>4. \A e \in Direction \ {d} : LogOf(e)' = LogOf(e)
  BY <1>1, <1>2 DEF LogOf, Numbers
<1>5. Logs' = [Logs EXCEPT ![d] = Append(@, {Content(b)})]
  BY <1>3, <1>4 DEF Logs
<1>6. {Content(b)} \in {{m} : m \in Message}
  <2>1. Content(b) \in Message
    BY DEF Content, Message, Bundle
  <2> QED
    BY <2>1
<1>7. receipts' = receipts
  BY DEF Publish
<1> QED
  BY <1>5, <1>6, <1>7 DEF Log!Publish

\* A caller that has found a number found one of a published bundle.
Found == \A a \in Acker : ack[a].pc = "checked" => ack[a].seq \in Numbers(ack[a].of)

LogInv == MailboxInv /\ Found

\* Callers that name listed numbers find them, and no bundle disappears.
LEMMA FoundStep ==
  ASSUME OnlyListed, LogInv, [Next]_vars
  PROVE  Found'
<1> SUFFICES ASSUME NEW a \in Acker, ack'[a].pc = "checked"
             PROVE  ack'[a].seq \in {b.seq : b \in published'[ack'[a].of]}
  BY DEF Found, Numbers
<1>1. \A d \in Direction : Numbers(d) \subseteq Numbers(d)'
  <2>1. \A d \in Direction : published[d] \subseteq published'[d]
    BY DEF LogInv, MailboxInv, TypeOK, Next, vars, Begin, Publication, AuthorDies,
       MakeTemporary, WriteEnvelope, WritePayload, PayloadRefused, Publish,
       UpdateSubmissionState, FindBundle, Acknowledgement, CreateAck, UpdateStateAfterAck,
       CallerDies, Restart
  <2> QED
    BY <2>1 DEF Numbers
<1>2. CASE ack'[a] = ack[a]
  BY <1>1, <1>2 DEF LogInv, Found, MailboxInv, TypeOK, Caller, Numbers
<1>3. ASSUME NEW c \in Acker, FindBundle(c), ack'[a] # ack[a]
      PROVE  ack'[a].seq \in {b.seq : b \in published'[ack'[a].of]}
  <2>1. PICK d \in Direction : \E b \in published[d] \cup temporary[d] :
               /\ b.seq \in Numbers(d)
               /\ ack' = [ack EXCEPT ![c] = [pc |-> "checked", of |-> d, seq |-> b.seq,
                                             kind |-> b.kind]]
    BY <1>3 DEF FindBundle
  <2>2. ack'[a].of = d /\ ack'[a].seq \in Numbers(d)
    BY <1>3, <2>1 DEF LogInv, MailboxInv, TypeOK
  <2> QED
    BY <1>1, <2>1, <2>2 DEF Numbers
<1>4. ASSUME NEW c \in Acker, CreateAck(c) \/ UpdateStateAfterAck(c) \/ CallerDies(c) \/ Restart(c),
             ack'[a] # ack[a]
      PROVE  FALSE
  <2>1. ack \in [Acker -> Caller] /\ \A r \in Caller : [r EXCEPT !.pc = "created"].pc = "created"
    BY DEF LogInv, MailboxInv, TypeOK, Caller
  <2>2. NoCall.pc = "idle" /\ [NoCall EXCEPT !.pc = "dead"].pc = "dead"
    BY DEF NoCall
  <2>3. \/ ack' = [ack EXCEPT ![c] = NoCall]
        \/ ack' = [ack EXCEPT ![c].pc = "created"]
        \/ ack' = [ack EXCEPT ![c] = [NoCall EXCEPT !.pc = "dead"]]
    BY <1>4 DEF CreateAck, Created, UpdateStateAfterAck, CallerDies, Restart, Answer, Goto
  <2>4. a = c
    BY <1>4, <2>1, <2>3
  <2> QED
    BY <2>1, <2>2, <2>3, <2>4
<1>5. \/ ack' = ack
      \/ \E c \in Acker : \/ FindBundle(c) \/ CreateAck(c) \/ UpdateStateAfterAck(c)
                           \/ CallerDies(c) \/ Restart(c)
  BY DEF Next, vars, Begin, Publication, AuthorDies, MakeTemporary, WriteEnvelope, WritePayload,
     PayloadRefused, Publish, UpdateSubmissionState, Acknowledgement
<1> QED
  BY <1>2, <1>3, <1>4, <1>5

\* Nobody has called yet when a worker is created.
LEMMA LogInvariance == ASSUME OnlyListed PROVE Spec => []LogInv
<1>1. Init => LogInv
  BY MailboxInvInit DEF LogInv, Found, Init, NoCall
<1>2. LogInv /\ [Next]_vars => LogInv'
  BY FoundStep, MailboxInvNext DEF LogInv
<1> QED
  BY <1>1, <1>2, PTL DEF Spec

\* The acknowledgement file is created where none was, for a published bundle.
LEMMA LogAcknowledge ==
  ASSUME LogInv, NEW a \in Acker, CreateAck(a)
  PROVE  \/ \E d \in Direction, s \in Number : Log!Acknowledge(d, s)
         \/ UNCHANGED <<Logs, receipts>>
<1>1. Logs' = Logs
  BY DEF CreateAck, Logs, LogOf, Numbers
<1>2. CASE Acknowledged(a)
  BY <1>1, <1>2 DEF CreateAck
<1>3. CASE ~Acknowledged(a)
  <2>1. ack[a].of \in Direction /\ ack[a].seq \in Number /\ receipts[ack[a].of][ack[a].seq] = 0
    BY <1>3 DEF LogInv, MailboxInv, TypeOK, Acknowledged, Caller
  <2>2. receipts' = [receipts EXCEPT ![ack[a].of][ack[a].seq] = 1]
    BY <1>3, <2>1 DEF CreateAck, Created
  <2>3. ack[a].seq \in DOMAIN Logs[ack[a].of]
    BY <2>1 DEF CreateAck, LogInv, Found, Logs, LogOf
  <2>4. Log!Acknowledge(ack[a].of, ack[a].seq)
    BY <1>1, <2>1, <2>2, <2>3 DEF Log!Acknowledge
  <2> QED
    BY <2>1, <2>4
<1> QED
  BY <1>2, <1>3

\* The rename is the only step that changes a log; the creation of an
\* acknowledgement file is the only one that acknowledges.
LEMMA LogStep == LogInv /\ [Next]_vars => [Log!Next]_<<Logs, receipts>>
<1> SUFFICES ASSUME LogInv, MailboxInv, [Next]_vars PROVE [Log!Next]_<<Logs, receipts>>
  BY DEF LogInv
<1>1. ASSUME UNCHANGED <<published, receipts>> PROVE UNCHANGED <<Logs, receipts>>
  BY <1>1 DEF Logs, LogOf, Numbers
<1>2. CASE \E d \in Direction : Begin(d) \/ Publication(d) \/ AuthorDies(d)
  <2>1. PICK d \in Direction : Begin(d) \/ Publication(d) \/ AuthorDies(d)
    BY <1>2
  <2>2. CASE Publish(d)
    BY <2>2, LogPublish DEF Log!Next
  <2>3. CASE Begin(d) \/ (Publication(d) /\ ~Publish(d)) \/ AuthorDies(d)
    <3>1. UNCHANGED <<published, receipts>>
      BY <2>3 DEF Begin, Publication, AuthorDies, MakeTemporary, WriteEnvelope, WritePayload,
         PayloadRefused, UpdateSubmissionState
    <3> QED
      BY <1>1, <3>1
  <2> QED
    BY <2>1, <2>2, <2>3
<1>3. CASE \E a \in Acker : FindBundle(a) \/ Acknowledgement(a) \/ CallerDies(a) \/ Restart(a)
  <2>1. PICK a \in Acker : FindBundle(a) \/ Acknowledgement(a) \/ CallerDies(a) \/ Restart(a)
    BY <1>3
  <2>2. CASE CreateAck(a)
    BY <2>2, LogAcknowledge DEF Log!Next
  <2>3. CASE FindBundle(a) \/ UpdateStateAfterAck(a) \/ CallerDies(a) \/ Restart(a)
    <3>1. UNCHANGED <<published, receipts>>
      BY <2>3 DEF FindBundle, UpdateStateAfterAck, CallerDies, Restart
    <3> QED
      BY <1>1, <3>1
  <2> QED
    BY <2>1, <2>2, <2>3 DEF Acknowledgement
<1>4. CASE UNCHANGED vars
  BY <1>1, <1>4 DEF vars
<1> QED
  BY <1>2, <1>3, <1>4 DEF Next

\* As long as callers name numbers they have seen, the mailboxes on disk are two
\* logs: numbered from 1 without gaps, only ever appended to, every bundle
\* acknowledged at most once and only after it was published.
THEOREM MailboxImplementsLog ==
  ASSUME OnlyListed
  PROVE  Spec => ImplementsLog
BY LogInit, LogStep, LogInvariance, PTL DEF Spec, ImplementsLog, Log!Spec
=============================================================================
