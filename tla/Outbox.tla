------------------------------- MODULE Outbox -------------------------------
(***************************************************************************)
(* The Telegram outbox: rows put there with the event they report, the     *)
(* workers that deliver them under a lease, the creators and users who     *)
(* turn notices on and off, and Telegram, which may refuse a message or    *)
(* take it without its answer arriving.                                    *)
(*                                                                         *)
(* Time is left out: a back-off may end and a lease may pass its five      *)
(* minutes between any two steps.  A lease (id, PROCESSING, lockedAt) is   *)
(* known by the worker that holds it: a worker has one row at a time, and  *)
(* cannot lock a row anew before it has let go of it.                      *)
(***************************************************************************)
EXTENDS Integers, FiniteSets

CONSTANTS
  Rows,           \* outbox rows, a smaller number for an earlier createdAt
  KindOf,         \* "payment", "claimable" or "result"
  ChatOf,         \* the connection or the subscription of a row
  Connections,    \* creators' Telegram connections
  Subscriptions,  \* result reminders, one for each user and giveaway
  Users, UserOf,  \* Telegram users, and the user of a subscription
  Rules, Matches, \* notification rules, and those a payment row matches
  OneShot,        \* rules with completeOnInvoicePayment
  Workers,        \* worker processes
  Handlers,       \* webhook calls that can be in progress at the same time
  MaxAttempts,    \* MAX_OUTBOX_ATTEMPTS
  BatchSize,      \* rows taken at a time
  WatchLimit,     \* pending reminders a user may have
  MaxFaults,      \* bound on crashes, stalls, lost answers and failed statements
  NULL

Errors == {"temporary", "permanent", "unavailable"}

\* A TelegramOutbox row.  waiting: availableAt is ahead.  holder and lapsed
\* stand for lockedAt.  linked: connectionId is not null.
Row ==
  [status : {"PENDING", "PROCESSING", "SENT", "DEAD"}, attempts : 0 .. MaxAttempts,
   waiting : BOOLEAN, holder : Workers \cup {NULL}, lapsed : BOOLEAN,
   error : Errors \cup {"none", "unauthorized"}, linked : BOOLEAN, rules : SUBSET Rules]

\* A worker in deliverOutbox: the candidates it has yet to look at with the
\* attempts it read, the row it has locked, the rules and the error it is about
\* to write.
Worker ==
  [pc : {"ready", "fetch", "locked", "suppress", "send", "accepted", "failed"},
   batch : SUBSET Rows, seen : [Rows -> 0 .. MaxAttempts],
   cur : Rows \cup {NULL}, rules : SUBSET Rules, error : Errors \cup {"none"}]

ASSUME OutboxAssumption ==
  /\ Rows \subseteq Nat
  /\ KindOf \in [Rows -> {"payment", "claimable", "result"}]
  /\ ChatOf \in [Rows -> Connections \cup Subscriptions]
  /\ Connections \cap Subscriptions = {}
  /\ \A r \in Rows : KindOf[r] = "result" <=> ChatOf[r] \in Subscriptions
  /\ \A r, q \in Rows : KindOf[r] = "result" /\ ChatOf[r] = ChatOf[q] => r = q
  /\ UserOf \in [Subscriptions -> Users] /\ IsFiniteSet(Subscriptions)
  /\ Matches \in [Rows -> SUBSET Rules]
  /\ OneShot \subseteq Rules
  /\ MaxAttempts \in Nat \ {0} /\ BatchSize \in Nat \ {0}
  /\ WatchLimit \in Nat /\ MaxFaults \in Nat
  /\ NULL \notin Rows \cup Workers \cup Row
  /\ NULL \notin [blocked : BOOLEAN, enabled : BOOLEAN]
  /\ NULL \notin [sub : Subscriptions, retry : BOOLEAN]

VARIABLES
  out,      \* the rows, NULL when not enqueued yet
  conn,     \* the connections, NULL when disconnected
  rule,     \* status of the rules
  sub,      \* reminders: none, active or revoked
  queued,   \* subscriptions whose resultQueuedAt is set
  drawn,    \* subscriptions whose giveaway has a result
  watching, \* opt-in transactions in progress
  worker,   \* the workers
  reached,  \* rows of which Telegram has taken a message
  late,     \* history: who has got a message through to which chat since it was shut
  faults    \* crashes, stalls, lost answers and failed statements so far

vars == <<out, conn, rule, sub, queued, drawn, watching, worker, reached, faults, late>>

TypeOK ==
  /\ out \in [Rows -> Row \cup {NULL}]
  /\ conn \in [Connections -> [blocked : BOOLEAN, enabled : BOOLEAN] \cup {NULL}]
  /\ rule \in [Rules -> {"ACTIVE", "PAUSED", "COMPLETED", "DELETED"}]
  /\ sub \in [Subscriptions -> {"none", "active", "revoked"}]
  /\ queued \subseteq Subscriptions
  /\ drawn \subseteq Subscriptions
  /\ watching \in [Handlers -> [sub : Subscriptions, retry : BOOLEAN] \cup {NULL}]
  /\ worker \in [Workers -> Worker]
  /\ reached \subseteq Rows
  /\ late \subseteq Workers \X (Connections \cup Subscriptions)
  /\ faults \in 0 .. MaxFaults

Idle == [pc |-> "ready", batch |-> {}, seen |-> [r \in Rows |-> 0],
         cur |-> NULL, rules |-> {}, error |-> "none"]

NewRow(rules) ==
  [status |-> "PENDING", attempts |-> 0, waiting |-> FALSE, holder |-> NULL,
   lapsed |-> FALSE, error |-> "none", linked |-> TRUE, rules |-> rules]

Init ==
  /\ out = [r \in Rows |-> NULL]
  /\ conn = [c \in Connections |-> [blocked |-> FALSE, enabled |-> FALSE]]
  /\ rule = [x \in Rules |-> "ACTIVE"]
  /\ sub = [s \in Subscriptions |-> "none"]
  /\ queued = {}
  /\ drawn = {}
  /\ watching = [h \in Handlers |-> NULL]
  /\ worker = [w \in Workers |-> Idle]
  /\ reached = {}
  /\ late = {}
  /\ faults = 0

Queued == {r \in Rows : out[r] # NULL}

(***************************************************************************)
(* Rows are written in the transaction of what they report.                *)
(***************************************************************************)
ActiveOf(rules) == {x \in rules : rule[x] = "ACTIVE"}

Reachable(c) == conn[c] # NULL /\ ~conn[c].blocked

\* The chat is connected and not blocked, or the reminder is on.
Open(c) == IF c \in Subscriptions THEN sub[c] = "active" ELSE Reachable(c)

\* A payment is confirmed, or a claim link is claimed or returned.
Enqueue(r) ==
  /\ out[r] = NULL
  /\ KindOf[r] # "result"
  /\ Reachable(ChatOf[r])
  /\ LET rules == IF KindOf[r] = "payment" THEN ActiveOf(Matches[r]) ELSE {} IN
       /\ KindOf[r] = "payment" => conn[ChatOf[r]].enabled \/ rules # {}
       /\ out' = [out EXCEPT ![r] = NewRow(rules)]
  /\ UNCHANGED <<conn, rule, sub, queued, drawn, watching, worker, reached, faults, late>>

\* queueGiveawayResults: the subscription is marked and its row is written.
QueueResult(r) ==
  /\ KindOf[r] = "result"
  /\ LET s == ChatOf[r] IN
       /\ sub[s] = "active"
       /\ s \in drawn \ queued
       /\ queued' = queued \cup {s}
       /\ out' = IF out[r] = NULL THEN [out EXCEPT ![r] = NewRow({})] ELSE out
  /\ UNCHANGED <<conn, rule, sub, drawn, watching, worker, reached, faults, late>>

(***************************************************************************)
(* deliverOutbox.                                                          *)
(***************************************************************************)

\* Mistake: nothing takes back the rows of a dead worker.
ResetNothing(w) ==
  /\ worker[w].pc = "ready" /\ worker[w].batch = {}
  /\ worker' = [worker EXCEPT ![w] = [@ EXCEPT !.pc = "fetch"]]
  /\ UNCHANGED <<out, conn, rule, sub, queued, drawn, watching, reached, faults, late>>

\* Locks older than five minutes are taken back.
Reset(w) ==
  /\ worker[w].pc = "ready" /\ worker[w].batch = {}
  /\ out' = [r \in Rows |->
       IF r \in Queued /\ out[r].status = "PROCESSING" /\ out[r].lapsed
       THEN [out[r] EXCEPT !.status = "PENDING", !.holder = NULL, !.lapsed = FALSE]
       ELSE out[r]]
  /\ worker' = [worker EXCEPT ![w] = [@ EXCEPT !.pc = "fetch"]]
  /\ UNCHANGED <<conn, rule, sub, queued, drawn, watching, reached, faults, late>>

Due == {r \in Queued : out[r].status = "PENDING" /\ ~out[r].waiting}

\* The oldest due rows, and the attempts they have now.
Fetch(w) ==
  /\ worker[w].pc = "fetch"
  /\ worker' = [worker EXCEPT ![w] = [@ EXCEPT
       !.pc = "ready",
       !.batch = {r \in Due : Cardinality({q \in Due : q < r}) < BatchSize},
       !.seen = [r \in Rows |-> IF r \in Due THEN out[r].attempts ELSE 0]]]
  /\ UNCHANGED <<out, conn, rule, sub, queued, drawn, watching, reached, faults, late>>

\* Mistake: the lock is taken whatever the status is.
LockableAlways(r) == TRUE

Lockable(r) == out[r].status = "PENDING"

\* The next candidate, locked or, when it is not pending any more, skipped.
Lock(w) ==
  /\ worker[w].pc = "ready"
  /\ \E r \in worker[w].batch :
       /\ \A q \in worker[w].batch : r <= q
       /\ IF Lockable(r)
          THEN /\ out' = [out EXCEPT ![r] =
                    [@ EXCEPT !.status = "PROCESSING", !.holder = w, !.lapsed = FALSE]]
               /\ worker' = [worker EXCEPT ![w] =
                    [@ EXCEPT !.pc = "locked", !.batch = worker[w].batch \ {r}, !.cur = r]]
          ELSE /\ worker' = [worker EXCEPT ![w] = [@ EXCEPT !.batch = worker[w].batch \ {r}]]
               /\ UNCHANGED out
  /\ UNCHANGED <<conn, rule, sub, queued, drawn, watching, reached, faults, late>>

\* Mistake: what was authorized when the row was written stays authorized.
AuthorizedAlways(r) == TRUE

\* The chat takes this row's message by its settings of now.
Authorized(r) ==
  CASE KindOf[r] = "result"    -> sub[ChatOf[r]] = "active"
    [] KindOf[r] = "claimable" -> out[r].linked /\ Reachable(ChatOf[r])
    [] OTHER                   -> /\ out[r].linked /\ Reachable(ChatOf[r])
                                  /\ \/ conn[ChatOf[r]].enabled
                                     \/ ActiveOf(out[r].rules) # {}

Authorize(w) ==
  /\ worker[w].pc = "locked"
  /\ LET r == worker[w].cur IN
       worker' = [worker EXCEPT ![w] = [@ EXCEPT
         !.pc = IF Authorized(r) THEN "send" ELSE "suppress",
         !.rules = IF Authorized(r) THEN ActiveOf(out[r].rules) ELSE {}]]
  /\ UNCHANGED <<out, conn, rule, sub, queued, drawn, watching, reached, faults, late>>

\* The worker goes on to its next candidate.
Done(p) == [p EXCEPT !.pc = "ready", !.cur = NULL, !.rules = {}, !.error = "none"]

\* Mistake: the lease is the row's id.
HoldsAlways(w) == TRUE

\* The lease of the row the worker has in hand is still its own.
Holds(w) ==
  LET row == out[worker[w].cur] IN row.status = "PROCESSING" /\ row.holder = w

Suppress(w) ==
  /\ worker[w].pc = "suppress"
  /\ out' = IF Holds(w)
            THEN [out EXCEPT ![worker[w].cur] =
                   [@ EXCEPT !.status = "DEAD", !.holder = NULL, !.lapsed = FALSE,
                             !.error = "unauthorized"]]
            ELSE out
  /\ worker' = [worker EXCEPT ![w] = Done(@)]
  /\ UNCHANGED <<conn, rule, sub, queued, drawn, watching, reached, faults, late>>

\* Telegram takes the worker's message, which the history notes of a shut chat.
Reach(w) ==
  LET c == ChatOf[worker[w].cur] IN
    /\ worker[w].pc = "send"
    /\ reached' = reached \cup {worker[w].cur}
    /\ late' = IF Open(c) THEN late ELSE late \cup {<<w, c>>}

\* Telegram takes the message and says so.
Accept(w) ==
  /\ Reach(w)
  /\ worker' = [worker EXCEPT ![w] = [@ EXCEPT !.pc = "accepted"]]
  /\ UNCHANGED <<out, conn, rule, sub, queued, drawn, watching, faults>>

\* Telegram takes the message and the answer is lost.
AcceptUnheard(w) ==
  /\ Reach(w)
  /\ faults < MaxFaults
  /\ faults' = faults + 1
  /\ worker' = [worker EXCEPT ![w] = [@ EXCEPT !.pc = "failed", !.error = "temporary"]]
  /\ UNCHANGED <<out, conn, rule, sub, queued, drawn, watching>>

\* Telegram refuses the message, or is not there.
Refuse(w, error) ==
  /\ worker[w].pc = "send"
  /\ worker' = [worker EXCEPT ![w] = [@ EXCEPT !.pc = "failed", !.error = error]]
  /\ UNCHANGED <<out, conn, rule, sub, queued, drawn, watching, reached, faults, late>>

\* Mistake: a rule that changed while the message was sent is completed too.
MarkSentStaleRules(w) ==
  /\ worker[w].pc = "accepted"
  /\ IF Holds(w)
     THEN /\ out' = [out EXCEPT ![worker[w].cur] =
                 [@ EXCEPT !.status = "SENT", !.holder = NULL, !.lapsed = FALSE]]
          /\ rule' = [x \in Rules |->
               IF x \in worker[w].rules \cap OneShot THEN "COMPLETED" ELSE rule[x]]
     ELSE UNCHANGED <<out, rule>>
  /\ worker' = [worker EXCEPT ![w] = Done(@)]
  /\ UNCHANGED <<conn, sub, queued, drawn, watching, reached, faults, late>>

\* One transaction marks the row and completes the rules of its invoice.
MarkSent(w) ==
  /\ worker[w].pc = "accepted"
  /\ IF Holds(w)
     THEN /\ out' = [out EXCEPT ![worker[w].cur] =
                 [@ EXCEPT !.status = "SENT", !.holder = NULL, !.lapsed = FALSE]]
          /\ rule' = [x \in Rules |->
               IF x \in ActiveOf(worker[w].rules \cap OneShot) THEN "COMPLETED" ELSE rule[x]]
     ELSE UNCHANGED <<out, rule>>
  /\ worker' = [worker EXCEPT ![w] = Done(@)]
  /\ UNCHANGED <<conn, sub, queued, drawn, watching, reached, faults, late>>

\* A statement of the try block fails: a read of the settings, the write that
\* suppresses the row, or the transaction that marks it.
StatementFails(w) ==
  /\ worker[w].pc \in {"locked", "suppress", "accepted"}
  /\ faults < MaxFaults
  /\ faults' = faults + 1
  /\ worker' = [worker EXCEPT ![w] = [@ EXCEPT !.pc = "failed", !.error = "temporary"]]
  /\ UNCHANGED <<out, conn, rule, sub, queued, drawn, watching, reached, late>>

\* Mistake: one attempt too many.
DeadAtLate(attempts, error) == error # "temporary" \/ attempts > MaxAttempts

\* shouldDeadLetterOutbox.
DeadAt(attempts, error) == error # "temporary" \/ attempts >= MaxAttempts

\* The attempt is counted from the number read with the batch.  A chat that
\* cannot be reached is blocked, or all reminders of its user are revoked.
RecordFailure(w) ==
  /\ worker[w].pc = "failed"
  /\ LET p == worker[w]  r == p.cur  attempts == p.seen[r] + 1
         unavailable == Holds(w) /\ p.error = "unavailable" IN
       /\ out' = IF Holds(w)
                 THEN [out EXCEPT ![r] =
                        [@ EXCEPT !.attempts = attempts, !.waiting = TRUE, !.error = p.error,
                                  !.holder = NULL, !.lapsed = FALSE,
                                  !.status = IF DeadAt(attempts, p.error) THEN "DEAD"
                                             ELSE "PENDING"]]
                 ELSE out
       /\ conn' = [c \in Connections |->
            IF unavailable /\ c = ChatOf[r] /\ out[r].linked /\ conn[c] # NULL
            THEN [blocked |-> TRUE, enabled |-> FALSE] ELSE conn[c]]
       /\ sub' = [s \in Subscriptions |->
            IF /\ unavailable /\ KindOf[r] = "result"
               /\ UserOf[s] = UserOf[ChatOf[r]] /\ sub[s] # "none"
            THEN "revoked" ELSE sub[s]]
  /\ worker' = [worker EXCEPT ![w] = Done(@)]
  /\ UNCHANGED <<rule, queued, drawn, watching, reached, faults, late>>

\* The worker dies, or a write outside the try block fails and ends the tick.
Crash(w) ==
  /\ worker[w] # Idle
  /\ faults < MaxFaults
  /\ faults' = faults + 1
  /\ worker' = [worker EXCEPT ![w] = Idle]
  /\ UNCHANGED <<out, conn, rule, sub, queued, drawn, watching, reached, late>>

(***************************************************************************)
(* Time.                                                                   *)
(***************************************************************************)
BackoffOver(r) ==
  /\ r \in Queued /\ out[r].waiting
  /\ out' = [out EXCEPT ![r].waiting = FALSE]
  /\ UNCHANGED <<conn, rule, sub, queued, drawn, watching, worker, reached, faults, late>>

Orphaned(r) == \A w \in Workers : worker[w].cur # r

\* Five minutes pass on a lock whose worker is gone.
LeaseLapses(r) ==
  /\ r \in Queued /\ out[r].status = "PROCESSING" /\ ~out[r].lapsed
  /\ Orphaned(r)
  /\ out' = [out EXCEPT ![r].lapsed = TRUE]
  /\ UNCHANGED <<conn, rule, sub, queued, drawn, watching, worker, reached, faults, late>>

\* Five minutes pass on a lock whose worker is still at it.
WorkerStalls(r) ==
  /\ r \in Queued /\ out[r].status = "PROCESSING" /\ ~out[r].lapsed
  /\ ~Orphaned(r)
  /\ faults < MaxFaults
  /\ faults' = faults + 1
  /\ out' = [out EXCEPT ![r].lapsed = TRUE]
  /\ UNCHANGED <<conn, rule, sub, queued, drawn, watching, worker, reached, late>>

(***************************************************************************)
(* Creators' settings and rules.                                           *)
(***************************************************************************)

\* The history of a chat begins anew when it is opened.
Forget(c) == {x \in late : x[2] # c}

\* A blocked connection cannot be enabled.
SetNotifications(c, enabled) ==
  /\ conn[c] # NULL
  /\ enabled => ~conn[c].blocked
  /\ conn' = [conn EXCEPT ![c].enabled = enabled]
  /\ UNCHANGED <<out, rule, sub, queued, drawn, watching, worker, reached, faults, late>>

\* The row is deleted; outbox rows that referred to it refer to nothing.
Disconnect(c) ==
  /\ conn[c] # NULL
  /\ conn' = [conn EXCEPT ![c] = NULL]
  /\ out' = [r \in Rows |-> IF r \in Queued /\ ChatOf[r] = c
                            THEN [out[r] EXCEPT !.linked = FALSE] ELSE out[r]]
  /\ UNCHANGED <<rule, sub, queued, drawn, watching, worker, reached, faults, late>>

\* A connection code is used: a new row, or the old one unblocked.
Connect(c) ==
  /\ conn' = [conn EXCEPT ![c] = [blocked |-> FALSE, enabled |-> FALSE]]
  /\ late' = Forget(c)
  /\ UNCHANGED <<out, rule, sub, queued, drawn, watching, worker, reached, faults>>

\* A deleted rule does not come back.
SetRule(x, status) ==
  /\ rule[x] # "DELETED"
  /\ rule' = [rule EXCEPT ![x] = status]
  /\ UNCHANGED <<out, conn, sub, queued, drawn, watching, worker, reached, faults, late>>

(***************************************************************************)
(* Result reminders.                                                       *)
(***************************************************************************)
Pending(u) == {s \in Subscriptions : UserOf[s] = u /\ sub[s] = "active" /\ s \notin queued}

\* Mistake: the opt-in transactions of one user run side by side.
WatchFreeAlways(u) == TRUE

\* Nobody holds the advisory lock of the user.
WatchFree(u) == \A h \in Handlers : watching[h] # NULL => UserOf[watching[h].sub] # u

\* Opting in: the reads, under the lock.
BeginWatch(h, s) ==
  /\ watching[h] = NULL
  /\ WatchFree(UserOf[s])
  /\ sub[s] # "active" => Cardinality(Pending(UserOf[s])) < WatchLimit
  /\ watching' = [watching EXCEPT
       ![h] = [sub |-> s, retry |-> sub[s] = "revoked" /\ s \in queued]]
  /\ UNCHANGED <<out, conn, rule, sub, queued, drawn, worker, reached, faults, late>>

\* Mistake: the row goes out again whatever became of it.
RetriedAlways(r, s) == out[r] # NULL /\ ChatOf[r] = s

\* The unsent result of a reminder that is turned on again.
Retried(r, s) == out[r] # NULL /\ ChatOf[r] = s /\ out[r].status = "DEAD"

\* Opting in: the writes.
CommitWatch(h) ==
  /\ watching[h] # NULL
  /\ LET s == watching[h].sub IN
       /\ sub' = [sub EXCEPT ![s] = "active"]
       /\ out' = [r \in Rows |->
            IF watching[h].retry /\ Retried(r, s) THEN NewRow({}) ELSE out[r]]
       /\ late' = Forget(s)
  /\ watching' = [watching EXCEPT ![h] = NULL]
  /\ UNCHANGED <<conn, rule, queued, drawn, worker, reached, faults>>

AbandonWatch(h) ==
  /\ watching[h] # NULL
  /\ watching' = [watching EXCEPT ![h] = NULL]
  /\ UNCHANGED <<out, conn, rule, sub, queued, drawn, worker, reached, faults, late>>

\* The off button of one reminder takes the lock, /stop does not.
Unwatch(s) ==
  /\ sub[s] = "active"
  /\ WatchFree(UserOf[s])
  /\ sub' = [sub EXCEPT ![s] = "revoked"]
  /\ UNCHANGED <<out, conn, rule, queued, drawn, watching, worker, reached, faults, late>>

StopAll(u) ==
  /\ sub' = [s \in Subscriptions |->
       IF UserOf[s] = u /\ sub[s] = "active" THEN "revoked" ELSE sub[s]]
  /\ UNCHANGED <<out, conn, rule, queued, drawn, watching, worker, reached, faults, late>>

\* A giveaway gets its result.
Draw(s) ==
  /\ drawn' = drawn \cup {s}
  /\ UNCHANGED <<out, conn, rule, sub, queued, watching, worker, reached, faults, late>>

(***************************************************************************)
(* The specification.                                                      *)
(***************************************************************************)

\* One step of the worker's loop.
Work(w) ==
  \/ Reset(w) \/ Fetch(w) \/ Lock(w) \/ Authorize(w) \/ Suppress(w)
  \/ Accept(w) \/ AcceptUnheard(w) \/ \E error \in Errors : Refuse(w, error)
  \/ MarkSent(w) \/ StatementFails(w) \/ RecordFailure(w)

Settings ==
  \/ \E c \in Connections :
       \/ \E enabled \in BOOLEAN : SetNotifications(c, enabled)
       \/ Disconnect(c)
       \/ Connect(c)
  \/ \E x \in Rules : \E status \in {"ACTIVE", "PAUSED", "DELETED"} : SetRule(x, status)

Reminders ==
  \/ \E h \in Handlers :
       \/ \E s \in Subscriptions : BeginWatch(h, s)
       \/ CommitWatch(h)
       \/ AbandonWatch(h)
  \/ \E s \in Subscriptions : Unwatch(s) \/ Draw(s)
  \/ \E u \in Users : StopAll(u)

Next ==
  \/ \E w \in Workers : Work(w) \/ Crash(w)
  \/ \E r \in Rows : \/ Enqueue(r) \/ QueueResult(r)
                     \/ BackoffOver(r) \/ LeaseLapses(r) \/ WorkerStalls(r)
  \/ Settings
  \/ Reminders

\* The loop of every worker goes on, and time passes.
Fairness ==
  /\ \A w \in Workers : WF_vars(Work(w))
  /\ \A r \in Rows : WF_vars(BackoffOver(r)) /\ WF_vars(LeaseLapses(r))

Spec == Init /\ [][Next]_vars

FairSpec == Spec /\ Fairness

(***************************************************************************)
(* Properties.                                                             *)
(***************************************************************************)

\* Two workers have the same row in hand only after a fault: the lock keeps a
\* row from being delivered by two of them.
OneDeliverer ==
  faults = 0 => \A w, v \in Workers : worker[w].cur = worker[v].cur /\ w # v =>
                  worker[w].cur = NULL

\* Without a crash, a stall, a lost answer or a failed write, Telegram is never
\* given a message twice, whatever the retries, the opt-outs and the opt-ins.
OneMessageWithoutFaults ==
  [][\A w \in Workers : Accept(w) /\ worker[w].cur \in reached => faults > 0]_vars

\* A row marked as sent stays so: no late failure of a worker that lost its
\* lease, and no reminder that is turned on again, brings it back.
SentIsFinal ==
  [][\A r \in Queued : out[r].status = "SENT" => out'[r].status = "SENT"]_vars

\* A rule completes only with the row whose delivery completes it, and a rule
\* that was paused or deleted in the meantime does not.
RuleCompletesOnDelivery ==
  [][\A x \in Rules : rule[x] # "COMPLETED" /\ rule'[x] = "COMPLETED" =>
       /\ rule[x] = "ACTIVE"
       /\ \E r \in Queued : /\ x \in out[r].rules
                            /\ out[r].status # "SENT" /\ out'[r].status = "SENT"]_vars

\* A temporary error kills a row only at the last attempt, and a row that has
\* used its attempts is not tried again.
RetriesAreCounted ==
  \A r \in Queued :
    /\ out[r].status = "PENDING" => out[r].attempts < MaxAttempts
    /\ out[r].status = "DEAD" /\ out[r].error = "temporary" => out[r].attempts = MaxAttempts

\* Once a chat is disconnected or found blocked, or a reminder is turned off,
\* a worker gets one message more through to it at the most, the one that was on
\* its way, however many rows it read while the chat was open and whatever it
\* retries, until the user opens the chat again.
ShutChatGetsOneMore ==
  [][\A w \in Workers :
       Accept(w) \/ AcceptUnheard(w) =>
         LET c == ChatOf[worker[w].cur] IN ~Open(c) => <<w, c>> \notin late]_vars

\* A user follows at most WatchLimit giveaways that wait for their result.
WatchLimitKept == \A u \in Users : Cardinality(Pending(u)) <= WatchLimit

\* Every row is delivered or given up: none is left behind by a worker that
\* died with it, and none is retried for ever.
EveryRowIsSettled ==
  \A r \in Rows : out[r] # NULL ~> out[r] # NULL /\ out[r].status \in {"SENT", "DEAD"}

\* Turning a reminder on again lets its suppressed result retry.
ReenabledRetries ==
  \A r \in Queued : KindOf[r] = "result" /\ out[r].error = "unauthorized" =>
    sub[ChatOf[r]] # "active"
=============================================================================
