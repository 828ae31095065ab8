----------------------------- MODULE WaOutbox ------------------------------
(***************************************************************************)
(* The WhatsApp outbox of one provider: rows of wa_messages                *)
(* (models/WaMessage.js), the passes of services/waOutboxWorker.js that    *)
(* claim and send them, the echoes and receipts the messaging server sends *)
(* back (services/waInboundService.js), and the operator who puts a failed *)
(* row back. Node runs one callback at a time: what a handler does between *)
(* two awaits is one action. "delivered" stands for delivered and read.     *)
(***************************************************************************)
EXTENDS Integers, FiniteSets

CONSTANTS
  Messages,      \* ids of outgoing rows: the order they were written in
  Reply,         \* parts of one reply: same conversation, source and moment
  Texts,         \* what a message may say
  Bulk,          \* the automatic ones (source 'campaign')
  Passes,        \* runs of tickForTenant; they may overlap
  Hooks,         \* deliveries of the server's webhook being handled
  MaxAttempts,   \* MAX_ATTEMPTS of the code
  MaxRare,       \* bound of the model: crashes, requeues and writes that fail, together
  MaxSends       \* bound of the model: copies of one message

ASSUME OutboxAssumption ==
  /\ Messages \subseteq Nat /\ IsFiniteSet(Messages)
  /\ Bulk \subseteq Messages
  /\ \A m, n \in Messages : Reply[m] = Reply[n] => (m \in Bulk <=> n \in Bulk)
  /\ MaxAttempts \in Nat \ {0} /\ MaxSends \in Nat \ {0}
  /\ MaxRare \in Nat

VARIABLES
  row,           \* wa_messages, the outgoing rows
  body,          \* what each row says, written once
  pass, hook,    \* what each pass and each webhook delivery has read so far
  sends,         \* how many times the server accepted each message
  twins,         \* rows an echo inserted, by their external_id
  lost,          \* ghost: sends whose outcome nobody could write down
  unwritten,     \* ghost: those whose answer came, and whose write failed
  died,          \* ghost: claims of each row that ended unwritten, since it was put back
  rare           \* crashes, requeues and failed writes so far

vars == <<row, body, pass, hook, sends, twins, lost, unwritten, died, rare>>

\* The id the server gives to the k-th copy of a message it accepts.
Ids == Messages \X (1..MaxSends)
NoId == <<0, 0>>
NoMessage == -1

\* waits: next_attempt_at has not come.
Row == [st : {"queued", "sending", "sent", "delivered", "failed", "gone"},
        ext : Ids \cup {NoId}, attempts : Nat, waits : BOOLEAN]
Pass == [pc : {"idle", "next", "claimed", "answered", "clash", "failed"},
         half : {"quick", "bulk"}, todo : SUBSET Messages, m : Messages \cup {NoMessage},
         ext : Ids \cup {NoId}, attempts : Nat, terminal : BOOLEAN]
Hook == [pc : {"idle", "pick", "adopt", "insert"}, x : Ids \cup {NoId},
         cand : Messages \cup {NoMessage}]

\* What rows, passes and webhook deliveries may hold. A pass knows of a message just
\* while it delivers it, and only a queued row waits for a retry.
TypeOK ==
  /\ row \in [Messages -> Row] /\ body \in [Messages -> Texts]
  /\ pass \in [Passes -> Pass]
  /\ hook \in [Hooks -> Hook]
  /\ sends \in [Messages -> 0..MaxSends]
  /\ twins \subseteq Ids /\ lost \subseteq Ids /\ unwritten \subseteq lost
  /\ died \in [Messages -> Nat]
  /\ rare \in 0..MaxRare
  /\ \A p \in Passes : pass[p].m = NoMessage <=> pass[p].pc \in {"idle", "next"}
  /\ \A p \in Passes : pass[p].ext = NoId <=> pass[p].pc \notin {"answered", "clash"}
  /\ \A h \in Hooks : hook[h].x = NoId <=> hook[h].pc = "idle"
  /\ \A h \in Hooks : hook[h].cand = NoMessage <=> hook[h].pc # "adopt"
  /\ \A m \in Messages : row[m].waits => row[m].st = "queued"

Resting == [pc |-> "idle", half |-> "quick", todo |-> {}, m |-> NoMessage, ext |-> NoId,
            attempts |-> 0, terminal |-> FALSE]
Kept(p) == [pass[p] EXCEPT !.pc = "next"]             \* mutant: the message is not let go
\* The message is done with: the next of the list, or the end after an automatic one.
Done(p) == IF pass[p].half = "bulk" THEN Resting
           ELSE [Resting EXCEPT !.pc = "next", !.todo = pass[p].todo]
Listening == [pc |-> "idle", x |-> NoId, cand |-> NoMessage]

Init ==
  /\ row = [m \in Messages |-> [st |-> "queued", ext |-> NoId, attempts |-> 0,
                                waits |-> FALSE]]
  /\ body \in [Messages -> Texts]
  /\ pass = [p \in Passes |-> Resting]
  /\ hook = [h \in Hooks |-> Listening]
  /\ sends = [m \in Messages |-> 0]
  /\ twins = {} /\ lost = {} /\ unwritten = {}
  /\ died = [m \in Messages |-> 0]
  /\ rare = 0

-----------------------------------------------------------------------------
(* What the queue may take, and in which order.                            *)

\* A claim older than RECLAIM_MS: a request to the server ends in 15 s, so only a claim
\* whose pass died, or could not write its end, can be. How long ago is left out.
Stale(m) == row[m].st = "sending" /\ \A p \in Passes : pass[p].m # m

\* sendable, with the null external_id every reader adds to it.
Sendable(m) ==
  /\ row[m].ext = NoId
  /\ \/ row[m].st = "queued" /\ ~row[m].waits
     \/ Stale(m)

Waits(m) == row[m].ext = NoId /\ row[m].st = "queued" /\ row[m].waits

\* m would overtake an earlier part of its reply that waits for its retry.
Overtakes(m) == \E early \in Messages : early < m /\ Reply[early] = Reply[m] /\ Waits(early)

Oldest(S) == {m \in S : \A n \in S : m <= n}

\* listSendable: what may go now, less what would overtake. Its second query only
\* takes messages away, and the claim asks again: the two are one reading here.
Listed(S) == {m \in S : Sendable(m) /\ ~Overtakes(m)}

\* A tick lists what somebody waits for, all of it.
Tick(p) ==
  /\ pass[p].pc = "idle"
  /\ \E m \in Messages : Sendable(m)
  /\ pass' = [pass EXCEPT ![p].pc = "next", ![p].todo = Listed(Messages \ Bulk)]
  /\ UNCHANGED <<row, body, hook, sends, twins, lost, unwritten, died, rare>>

\* After those, one automatic message at most: the limit is applied to what is
\* due, before withoutOvertakers.
ListBulk(p) ==
  LET one == Oldest({m \in Bulk : Sendable(m)}) \cap Listed(Bulk) IN
  /\ pass[p].pc = "next" /\ pass[p].todo = {} /\ pass[p].half = "quick"
  /\ pass' = [pass EXCEPT ![p] = IF one = {} THEN Resting
                                 ELSE [@ EXCEPT !.half = "bulk", !.todo = one]]
  /\ UNCHANGED <<row, body, hook, sends, twins, lost, unwritten, died, rare>>

\* The minute is spent, the pace of automatic messages holds the pass, the notice is no
\* longer due, or a query failed and tickForTenant caught it.
EndPass(p) ==
  /\ pass[p].pc = "next"
  /\ pass' = [pass EXCEPT ![p] = Resting]
  /\ UNCHANGED <<row, body, hook, sends, twins, lost, unwritten, died, rare>>

-----------------------------------------------------------------------------
(* deliver: claim, dispatch, write the outcome.                            *)

\* claim: one conditional UPDATE, then the row is read back.
Claim(p, m) ==
  /\ pass[p].pc = "next" /\ m \in Oldest(pass[p].todo)
  /\ Sendable(m)
  /\ row' = [row EXCEPT ![m].st = "sending", ![m].attempts = @ + 1]
  /\ pass' = [pass EXCEPT ![p].pc = "claimed", ![p].m = m, ![p].todo = @ \ {m},
                          ![p].attempts = row[m].attempts + 1]
  /\ UNCHANGED <<body, hook, sends, twins, lost, unwritten, died, rare>>

\* The UPDATE matched no row: another pass has it, or it left the queue.
ClaimedElsewhere(p, m) ==
  /\ pass[p].pc = "next" /\ m \in Oldest(pass[p].todo)
  /\ ~Sendable(m)
  /\ pass' = [pass EXCEPT ![p].todo = @ \ {m}]
  /\ UNCHANGED <<row, body, hook, sends, twins, lost, unwritten, died, rare>>

Rarely == rare < MaxRare /\ rare' = rare + 1
Dies(m) == died' = [died EXCEPT ![m] = @ + 1]

\* The UPDATE took the row and the read after it failed: the pass ends, the row stays.
ClaimBreaks(p, m) ==
  /\ pass[p].pc = "next" /\ m \in Oldest(pass[p].todo)
  /\ Sendable(m)
  /\ row' = [row EXCEPT ![m].st = "sending", ![m].attempts = @ + 1]
  /\ pass' = [pass EXCEPT ![p] = Resting]
  /\ Rarely /\ Dies(m)
  /\ UNCHANGED <<body, hook, sends, twins, lost, unwritten>>

NextId(m) == <<m, sends[m] + 1>>

\* The server takes one more copy. Bound of the model: of one message, not of several.
Accepts(m) ==
  /\ sends[m] < MaxSends
  /\ sends[m] > 0 => \A n \in Messages \ {m} : sends[n] <= 1
  /\ sends' = [sends EXCEPT ![m] = @ + 1]

\* The server takes the message and its answer comes back.
Answered(p) ==
  /\ pass[p].pc = "claimed" /\ Accepts(pass[p].m)
  /\ pass' = [pass EXCEPT ![p].pc = "answered", ![p].ext = NextId(pass[p].m)]
  /\ UNCHANGED <<row, body, hook, twins, lost, unwritten, died, rare>>

OneTooMany(p, permanent) ==                    \* mutant: the cap is passed before it is met
  [pass EXCEPT ![p].pc = "failed", ![p].ext = NoId,
               ![p].terminal = permanent \/ pass[p].attempts > MaxAttempts]

\* The attempt failed; the cap of attempts, or a refusal for good, makes it the last.
Failed(p, permanent) ==
  [pass EXCEPT ![p].pc = "failed", ![p].ext = NoId,
               ![p].terminal = permanent \/ pass[p].attempts >= MaxAttempts]

\* The server takes it and the answer is lost: to the pass, a failure to retry.
AnswerLost(p) ==
  /\ pass[p].pc = "claimed" /\ Accepts(pass[p].m)
  /\ lost' = lost \cup {NextId(pass[p].m)}
  /\ pass' = Failed(p, FALSE)
  /\ UNCHANGED <<row, body, hook, twins, unwritten, died, rare>>

\* Nothing goes out: the server is down, or refuses for good.
Refused(p) ==
  /\ pass[p].pc = "claimed"
  /\ \E permanent \in BOOLEAN : pass' = Failed(p, permanent)
  /\ UNCHANGED <<row, body, hook, sends, twins, lost, unwritten, died, rare>>

\* The unique index (tenant_id, external_id), for a write to row m.
Taken(x, m) == x \in twins \/ \E n \in Messages \ {m} : row[n].ext = x

\* A write by id: a row that was deleted takes none.
Written(m, new) == IF row[m].st = "gone" THEN row ELSE [row EXCEPT ![m] = new]

AsAFailure(p) == Failed(p, FALSE)               \* mutant: a clash read as a send that failed
OnClash(p) == [pass EXCEPT ![p].pc = "clash"]

SentRow(p) == [row[pass[p].m] EXCEPT !.st = "sent", !.ext = pass[p].ext]
SentWithoutId(p) == [row[pass[p].m] EXCEPT !.st = "sent"]
Clashes(p) == row[pass[p].m].st # "gone" /\ Taken(pass[p].ext, pass[p].m)

\* The outcome is written by id, whatever the row has become.
MarkSent(p) ==
  LET m == pass[p].m IN
  /\ pass[p].pc = "answered"
  /\ IF Clashes(p)
       THEN /\ pass' = OnClash(p)
            /\ UNCHANGED row
       ELSE /\ row' = Written(m, SentRow(p))
            /\ pass' = [pass EXCEPT ![p] = Done(p)]
  /\ UNCHANGED <<body, hook, sends, twins, lost, unwritten, died, rare>>

\* The id belongs to another row: this one leaves the queue by its status.
MarkWithoutId(p) ==
  LET m == pass[p].m IN
  /\ pass[p].pc = "clash"
  /\ row' = Written(m, SentWithoutId(p))
  /\ pass' = [pass EXCEPT ![p] = Done(p)]
  /\ UNCHANGED <<body, hook, sends, twins, lost, unwritten, died, rare>>

\* A write of the outcome fails otherwise than by a clash, or was made and the read after
\* it fails: the catch around both takes it for a send that failed.
MarkBreaks(p) ==
  LET m == pass[p].m
      new == IF pass[p].pc = "answered" THEN SentRow(p) ELSE SentWithoutId(p) IN
  /\ pass[p].pc \in {"answered", "clash"}
  /\ \/ row' = row
     \/ ~(pass[p].pc = "answered" /\ Clashes(p)) /\ row' = Written(m, new)
  /\ pass' = Failed(p, FALSE)
  /\ lost' = lost \cup {pass[p].ext} /\ unwritten' = unwritten \cup {pass[p].ext}
  /\ Rarely
  /\ UNCHANGED <<body, hook, sends, twins, died>>

\* recordFailure: back to the queue with a backoff, or given up.
RecordFailure(p) ==
  LET m == pass[p].m IN
  /\ pass[p].pc = "failed"
  /\ row' = Written(m, [row[m] EXCEPT !.st = IF pass[p].terminal THEN "failed" ELSE "queued",
                                      !.waits = ~pass[p].terminal])
  /\ pass' = [pass EXCEPT ![p] = Done(p)]
  /\ UNCHANGED <<body, hook, sends, twins, lost, unwritten, died, rare>>

\* That write fails: the pass ends, and the row stays as if its pass had died.
RecordBreaks(p) ==
  /\ pass[p].pc = "failed"
  /\ pass' = [pass EXCEPT ![p] = Resting]
  /\ Rarely /\ Dies(pass[p].m)
  /\ UNCHANGED <<row, body, hook, sends, twins, lost, unwritten>>

-----------------------------------------------------------------------------
(* The echo of a message that went out, delivered once or many times.      *)

Known(x) == x \in twins \/ \E n \in Messages : row[n].ext = x

\* An event of an id already stored is a redelivery; the first read of the handler.
Echo(h) ==
  /\ hook[h].pc = "idle"
  /\ \E m \in Messages : \E k \in 1..sends[m] :
       /\ ~Known(<<m, k>>)
       /\ hook' = [hook EXCEPT ![h].pc = "pick", ![h].x = <<m, k>>]
  /\ UNCHANGED <<row, body, pass, sends, twins, lost, unwritten, died, rare>>

OnceSent(m, x) ==                              \* mutant: a row whose outcome is not written yet
  row[m].ext = NoId /\ row[m].st = "sent" /\ body[m] = body[x[1]]
AnyText(m, x) ==                               \* mutant: the text is not compared
  row[m].ext = NoId /\ row[m].st \in {"sending", "sent"}
\* A row the echo may be of: dispatched, without an id, the same text.
Echoable(m, x) ==
  /\ row[m].ext = NoId
  /\ row[m].st \in {"sending", "sent"}
  /\ body[m] = body[x[1]]

\* adoptEcho reads its candidate, the oldest.
Pick(h) ==
  LET found == Oldest({m \in Messages : Echoable(m, hook[h].x)}) IN
  /\ hook[h].pc = "pick"
  /\ \/ found = {} /\ hook' = [hook EXCEPT ![h].pc = "insert"]
     \/ \E m \in found : hook' = [hook EXCEPT ![h].pc = "adopt", ![h].cand = m]
  /\ UNCHANGED <<row, body, pass, sends, twins, lost, unwritten, died, rare>>

\* Its conditional write: the id is still null, and the status is not asked again.
\* A clash is an error of the handler, which the server answers by redelivering.
Adopt(h) ==
  LET m == hook[h].cand  x == hook[h].x IN
  /\ hook[h].pc = "adopt"
  /\ IF row[m].ext # NoId \/ row[m].st = "gone"
       THEN /\ hook' = [hook EXCEPT ![h].pc = "insert", ![h].cand = NoMessage]
            /\ UNCHANGED row
       ELSE /\ hook' = [hook EXCEPT ![h] = Listening]
            /\ row' = IF Taken(x, m) THEN row ELSE [row EXCEPT ![m].ext = x]
  /\ UNCHANGED <<body, pass, sends, twins, lost, unwritten, died, rare>>

Inserted(h) == IF Known(hook[h].x) THEN twins ELSE twins \cup {hook[h].x}

\* Nothing to adopt: a row of its own, unless the unique index has the id.
Insert(h) ==
  /\ hook[h].pc = "insert"
  /\ twins' = Inserted(h)
  /\ hook' = [hook EXCEPT ![h] = Listening]
  /\ UNCHANGED <<row, body, pass, sends, lost, unwritten, died, rare>>

-----------------------------------------------------------------------------
(* Receipts, the operator, a payment, time and crashes.                    *)

\* applyReceipt: only forward, and only to a row that holds the id.
Receipt(m) ==
  /\ row[m].ext # NoId /\ row[m].st \in {"sending", "sent"}
  /\ row' = [row EXCEPT ![m].st = "delivered"]
  /\ UNCHANGED <<body, pass, hook, sends, twins, lost, unwritten, died, rare>>

\* markFailedByExternalId: refused after it was accepted.
RefusedLater(m) ==
  /\ row[m].ext # NoId /\ row[m].st \in {"sending", "sent"}
  /\ row' = [row EXCEPT ![m].st = "failed"]
  /\ UNCHANGED <<body, pass, hook, sends, twins, lost, unwritten, died, rare>>

Requeueable(m) == row[m].st = "failed"

\* The operator puts a failed row back; its id, if it has one, stays.
Requeue(m) ==
  /\ Requeueable(m)
  /\ row' = [row EXCEPT ![m].st = "queued", ![m].attempts = 0, ![m].waits = FALSE]
  /\ died' = [died EXCEPT ![m] = 0]
  /\ Rarely
  /\ UNCHANGED <<body, pass, hook, sends, twins, lost, unwritten>>

WithdrawAny(m) == row[m].st \in {"queued", "sending"} \* mutant: one on its way is deleted too
Withdrawable(m) == row[m].st = "queued"

\* The invoice was paid: the notice that has not gone out is deleted.
Withdraw(m) ==
  /\ m \in Bulk /\ Withdrawable(m)
  /\ row' = [row EXCEPT ![m].st = "gone", ![m].ext = NoId, ![m].waits = FALSE]
  /\ UNCHANGED <<body, pass, hook, sends, twins, lost, unwritten, died, rare>>

BackoffEnds(m) ==
  /\ row[m].waits
  /\ row' = [row EXCEPT ![m].waits = FALSE]
  /\ UNCHANGED <<body, pass, hook, sends, twins, lost, unwritten, died, rare>>

\* The process dies. An answer nobody had written down yet is lost with it.
Crash ==
  /\ Rarely
  /\ died' = [m \in Messages |-> IF \E p \in Passes : pass[p].m = m THEN died[m] + 1
                                                               ELSE died[m]]
  /\ lost' = lost \cup {pass[p].ext : p \in {q \in Passes : pass[q].pc \in {"answered", "clash"}}}
  /\ pass' = [p \in Passes |-> Resting]
  /\ hook' = [h \in Hooks |-> Listening]
  /\ UNCHANGED <<row, body, sends, twins, unwritten>>

-----------------------------------------------------------------------------
Deliver(p) ==
  \/ \E m \in Messages : Claim(p, m) \/ ClaimBreaks(p, m) \/ ClaimedElsewhere(p, m)
  \/ Answered(p) \/ AnswerLost(p) \/ Refused(p)
  \/ MarkSent(p) \/ MarkWithoutId(p) \/ MarkBreaks(p)
  \/ RecordFailure(p) \/ RecordBreaks(p)

Inbound(h) == Echo(h) \/ Pick(h) \/ Adopt(h) \/ Insert(h)

Around(m) ==
  \/ Receipt(m) \/ RefusedLater(m) \/ Requeue(m) \/ Withdraw(m)
  \/ BackoffEnds(m)

Next ==
  \/ \E p \in Passes : Tick(p) \/ ListBulk(p) \/ EndPass(p) \/ Deliver(p)
  \/ \E h \in Hooks : Inbound(h)
  \/ \E m \in Messages : Around(m)
  \/ Crash

Spec == Init /\ [][Next]_vars

-----------------------------------------------------------------------------
(* Properties.                                                             *)

Accepted == {x \in Ids : x[2] <= sends[x[1]]}

\* A customer gets a message twice only when the outcome of the first copy could not be
\* written down: its answer was lost, the process died with it, or the database refused
\* the write. Not because two passes overlap, an echo comes first, its id is already on
\* another row, or an operator presses "resend".
SentOnce ==
  \A x, y \in Accepted \ lost : x[1] = y[1] => x = y

\* What the comment after the dispatch says: once the answer is there, no failure puts
\* the message back in the queue. The code does, when the write of the outcome fails.
AnsweredOnce ==
  \A x, y \in Accepted \ (lost \ unwritten) : x[1] = y[1] => x = y

\* A message is tried MAX_ATTEMPTS times from when it was written or put back, and once
\* more for each claim of it that died since: such a claim is taken up whatever it had
\* used, and what the row counts and what the pass remembers of it never allow another.
AttemptsCapped == \A m \in Messages : row[m].attempts <= MaxAttempts + died[m]

\* Texts nobody else is sending: adoptEcho knows a message by its text only.
OwnText(m) == \A n \in Messages : body[n] = body[m] => n = m

\* The echo of a message gets a bubble beside the message's own only when the outcome of
\* a copy could not be written: before, during or after that write it finds its row.
OneBubble ==
  \A x \in twins : OwnText(x[1]) /\ row[x[1]].st # "gone" => \E y \in lost : y[1] = x[1]

\* A row the panel shows as sent was sent, and the id it holds is of its own copy,
\* whichever of echo, answer and receipt came first.
ShownIsSent ==
  \A m \in Messages : OwnText(m) =>
    /\ row[m].st \in {"sent", "delivered"} => sends[m] > 0
    /\ row[m].ext # NoId => row[m].ext[1] = m

\* A notice that was withdrawn is not on its way to the customer, unless it is a second
\* copy of one whose outcome could not be written.
WithdrawnStays ==
  \A m \in Messages, p \in Passes :
    OwnText(m) /\ row[m].st = "gone" /\ pass[p].m = m /\ pass[p].pc = "claimed"
      => \E y \in lost : y[1] = m
=============================================================================
