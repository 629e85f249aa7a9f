--------------------------- MODULE TelegramAgent ---------------------------
(***************************************************************************)
(* The Telegram webhook of one private chat and what it does for the user: *)
(* the link command, the AI request that drafts a link or a rule, and the  *)
(* button that confirms a draft.  Telegram delivers an update until it is  *)
(* answered with 200; handlers of several requests run side by side, each  *)
(* with a lease of two minutes on the row of its update.                   *)
(*                                                                         *)
(* A handler's step is one statement or transaction of the database, or    *)
(* one call outside; between two of them anything else may happen.  A      *)
(* statement may fail, take effect although its answer is lost, or never   *)
(* be reached because the process ends (MaxFaults bounds these).           *)
(***************************************************************************)
EXTENDS Integers, FiniteSets, Sequences

CONSTANTS
  Updates,     \* what the user sends, in order
  Drafts,      \* identifiers of drafts, numbers
  Creators,    \* accounts the chat may be connected to with a code
  Workspace,   \* the account the bot opens for a chat that has none
  Handlers,    \* webhook requests being processed at the same time
  Budget,      \* AI_GLOBAL_COST_LIMIT_MICROS
  Reserve,     \* the cost reserved for one interpretation
  Costs,       \* what an interpretation may cost in the end
  MaxMonth,    \* bound on the months
  MaxFaults,   \* bound on failures, lost answers, crashes and hang-ups
  NULL

Owners == Creators \cup {Workspace}
Makes == {"link", "rule"}

ASSUME TelegramAssumption ==
  /\ Updates \subseteq Nat /\ Drafts \subseteq Nat /\ 0 \notin Drafts \cup Updates
  /\ Updates \cap Drafts = {}
  /\ NULL \notin Owners /\ Handlers \cap {"unsent", "due", "answered"} = {}
  /\ Budget \in Nat /\ Reserve \in Nat /\ Costs \subseteq Nat
  /\ MaxMonth \in Nat \ {0} /\ MaxFaults \in Nat /\ IsFiniteSet(Handlers)

VARIABLES
  sent,        \* [Updates -> ...]: the command, request or button of an update
  post,        \* [Updates -> ...]: not sent, due, answered, or with a handler
  row,         \* [Updates -> ...]: TelegramUpdate and its lease
  handler,     \* [Handlers -> ...]: the requests being processed
  connection,  \* TelegramConnection of the user: its creator, or NULL
  draft,       \* [Drafts -> ...]: AgentIntentDraft
  made,        \* what each update or draft has made: the owners, in order
  month, usage, spent,   \* AgentQuotaBucket and AiUsageEvent, per month
  faults, broken

vars == <<sent, post, row, handler, connection, draft, made, month, usage, spent,
          faults, broken>>

store == <<connection, draft, made, month, usage, spent>>

Months == 1..MaxMonth
Idle == [pc |-> "idle", update |-> 0, owner |-> NULL, draft |-> 0, month |-> 0, ending |-> "ok"]
NoDraft == [owner |-> NULL, makes |-> "link", status |-> "none", shown |-> FALSE]

\* Steps between the claim of a draft and its last write.
Executing == {"look", "insert", "confirm", "undo"}

\* What a user may send: a link command, a request in words, or the button of
\* a draft.
Nothing == [kind |-> "none", draft |-> 0]
Messages == {[kind |-> k, draft |-> 0] : k \in {"link", "ask"}}
            \cup {[kind |-> "confirm", draft |-> d] : d \in Drafts}
Kind(h) == sent[handler[h].update].kind

Init ==
  /\ sent = [u \in Updates |-> Nothing]
  /\ post = [u \in Updates |-> "unsent"]
  /\ row = [u \in Updates |-> "none"]
  /\ handler = [h \in Handlers |-> Idle]
  /\ connection = NULL
  /\ draft = [d \in Drafts |-> NoDraft]
  /\ made = [s \in Updates \cup Drafts |-> <<>>]
  /\ month = 1
  /\ usage = [m \in Months |-> 0]
  /\ spent = [m \in Months |-> 0]
  /\ faults = 0
  /\ broken = {}

(***************************************************************************)
(* The user, Telegram and time.                                            *)
(***************************************************************************)

\* The user sends an update; a button is pressed only once it was shown.
Send(u, message) ==
  /\ post[u] = "unsent" /\ \A v \in Updates : v < u => post[v] # "unsent"
  /\ message.kind = "confirm" => draft[message.draft].shown
  /\ sent' = [sent EXCEPT ![u] = message]
  /\ post' = [post EXCEPT ![u] = "due"]
  /\ UNCHANGED <<row, handler, store, faults, broken>>

\* With a connection code, or to a workspace by a command that opens one, such
\* as /start.
Connect(c) ==
  /\ connection = NULL
  /\ connection' = c
  /\ UNCHANGED <<sent, post, row, handler, draft, made, month, usage, spent, faults, broken>>

\* A workspace of the bot cannot be disconnected.
Disconnect ==
  /\ connection \in Creators
  /\ connection' = NULL
  /\ UNCHANGED <<sent, post, row, handler, draft, made, month, usage, spent, faults, broken>>

\* Telegram no longer waits for the handler, which goes on.
HangUp(u) ==
  /\ post[u] \in Handlers
  /\ faults < MaxFaults
  /\ post' = [post EXCEPT ![u] = "due"]
  /\ faults' = faults + 1
  /\ broken' = broken \cup {u}
  /\ UNCHANGED <<sent, row, handler, store>>

\* Ten minutes after it was made an open draft is no longer confirmed, and a
\* draft that was claimed more than fifteen minutes ago is given up.  Both are
\* written by expireAgentData, the daily job of the agent's worker.
Expire(d) ==
  /\ draft[d].status = "pending"
  /\ draft' = [draft EXCEPT ![d].status = "expired"]
  /\ UNCHANGED <<sent, post, row, handler, connection, made, month, usage, spent, faults, broken>>
GiveUp(d) ==
  /\ draft[d].status = "executing"
  /\ draft' = [draft EXCEPT ![d].status = "failed"]
  /\ UNCHANGED <<sent, post, row, handler, connection, made, month, usage, spent, faults, broken>>

NextMonth ==
  /\ month < MaxMonth
  /\ month' = month + 1
  /\ UNCHANGED <<sent, post, row, handler, connection, draft, made, usage, spent, faults, broken>>

(***************************************************************************)
(* The row of the update: who may process it, and how the request ends.    *)
(***************************************************************************)

\* A request takes the row of an update that is new, was freed, or has been
\* held for two minutes (expired), by a request that may still be at work; for
\* any other row it is answered with 200 at once.
Takes(u, expired) == row[u] \in {"none", "free"} \/ (row[u] = "held" /\ expired)
Idlers == {h \in Handlers : handler[h].pc = "idle"}
Deliver(u, expired) ==
  /\ post[u] = "due"
  /\ IF Takes(u, expired)
     THEN LET h == CHOOSE g \in Handlers : handler[g].pc = "idle"
          IN /\ Idlers # {}
             /\ row' = [row EXCEPT ![u] = "held"]
             /\ post' = [post EXCEPT ![u] = h]
             /\ handler' = [handler EXCEPT ![h] = [Idle EXCEPT !.pc = "begin", !.update = u]]
     ELSE post' = [post EXCEPT ![u] = "answered"] /\ UNCHANGED <<row, handler>>
  /\ UNCHANGED <<sent, store, faults, broken>>

\* What Telegram learns when handler h ends: 200 (ok), or an error.
Answer(h, ok) ==
  post' = [u \in Updates |-> IF post[u] # h THEN post[u] ELSE IF ok THEN "answered" ELSE "due"]

At(h, pc) == handler[h].pc = pc
To(h, pc) == [handler[h] EXCEPT !.pc = pc]
Replying(h, d) == [Idle EXCEPT !.pc = "reply", !.update = handler[h].update, !.draft = d]

\* What makes the key of a link: the update of a command, or the draft.
Source(h) == IF Kind(h) = "link" THEN handler[h].update ELSE handler[h].draft

\* Handler h goes on as r, or an error ends its work: a draft being executed
\* is given up first, then the row of the update.
Go(h, r) == handler' = [handler EXCEPT ![h] = r]
Throw(h, ending) ==
  IF Kind(h) = "confirm" /\ handler[h].pc \in Executing \ {"undo"}
  THEN Go(h, [To(h, "undo") EXCEPT !.ending = ending])
  ELSE Go(h, [Idle EXCEPT !.pc = "free", !.update = handler[h].update, !.ending = ending])

\* A write of handler h took effect: its answer arrives, or it is lost.
Written(h, r) ==
  \/ Go(h, r) /\ UNCHANGED faults
  \/ Throw(h, "temporary") /\ faults < MaxFaults /\ faults' = faults + 1

\* processedAt is written after the work, and after a permanent error.
MarkProcessed(h) ==
  /\ At(h, "mark")
  /\ row' = [row EXCEPT ![handler[h].update] = "done"]
  /\ \/ /\ Answer(h, TRUE) /\ Go(h, Idle) /\ UNCHANGED faults
     \/ /\ handler[h].ending = "ok" /\ UNCHANGED post
        /\ Throw(h, "temporary") /\ faults < MaxFaults /\ faults' = faults + 1
  /\ UNCHANGED <<sent, store, broken>>

\* A wrong variant: the row is not freed.
FreeHolding(h) ==
  /\ At(h, "free")
  /\ IF handler[h].ending = "permanent"
     THEN Go(h, To(h, "mark")) /\ UNCHANGED post
     ELSE Answer(h, FALSE) /\ Go(h, Idle)
  /\ UNCHANGED <<sent, row, store, faults, broken>>

\* A wrong variant: a permanent error is answered with 503 as well.
FreeAlways(h) ==
  /\ At(h, "free")
  /\ row' = [row EXCEPT ![handler[h].update] = IF @ = "done" THEN @ ELSE "free"]
  /\ Answer(h, FALSE) /\ Go(h, Idle)
  /\ UNCHANGED <<sent, store, faults, broken>>

\* The error path frees the row, though a row that is done stays done.  After
\* a temporary error Telegram is told to deliver the update again.
Free(h) ==
  /\ At(h, "free")
  /\ row' = [row EXCEPT ![handler[h].update] = IF @ = "done" THEN @ ELSE "free"]
  /\ IF handler[h].ending = "permanent"
     THEN Go(h, To(h, "mark")) /\ UNCHANGED post
     ELSE Answer(h, FALSE) /\ Go(h, Idle)
  /\ UNCHANGED <<sent, store, faults, broken>>

(***************************************************************************)
(* The work of a handler.                                                  *)
(***************************************************************************)

\* The connection is read once; a link command opens a workspace for a chat
\* that has none.  A request without a connection is only told to connect,
\* one that AI is not enabled for only gets the help text.
Begin(h) ==
  /\ At(h, "begin")
  /\ LET owner == IF connection = NULL /\ Kind(h) = "link" THEN Workspace ELSE connection
         on == [handler[h] EXCEPT !.owner = owner]
     IN /\ connection' = owner
        /\ \/ Kind(h) = "link" /\ Go(h, [on EXCEPT !.pc = "look"])
           \/ Kind(h) = "ask" /\ owner # NULL /\ Go(h, [on EXCEPT !.pc = "reserve"])
           \/ /\ Kind(h) = "confirm" /\ owner # NULL
              /\ Go(h, [on EXCEPT !.pc = "claim", !.draft = sent[handler[h].update].draft])
           \/ /\ Kind(h) = "ask" \/ owner = NULL
              /\ Go(h, Replying(h, 0))
  /\ UNCHANGED <<sent, post, row, draft, made, month, usage, spent, faults, broken>>

\* An error of the input or of a limit: too many commands, an invalid one, no
\* wallet set, the creator's AI quota or daily number of links reached.
Refuse(h) ==
  /\ handler[h].pc \in {"begin", "look", "insert", "reserve", "respond"}
  /\ Throw(h, "permanent")
  /\ UNCHANGED <<sent, post, row, store, faults, broken>>

\* A wrong variant: the draft of whichever account the chat had.
ClaimAnyDraft(h) ==
  /\ At(h, "claim")
  /\ LET d == handler[h].draft
     IN \/ /\ draft[d].status = "pending"
           /\ draft' = [draft EXCEPT ![d].status = "executing"]
           /\ Written(h, To(h, IF draft[d].makes = "link" THEN "look" ELSE "insert"))
        \/ /\ draft[d].status = "confirmed"
           /\ Go(h, Replying(h, 0)) /\ UNCHANGED <<draft, faults>>
        \/ /\ draft[d].status \notin {"pending", "confirmed"}
           /\ Throw(h, "permanent") /\ UNCHANGED <<draft, faults>>
  /\ UNCHANGED <<sent, post, row, connection, made, month, usage, spent, broken>>

\* confirmIntentDraftTool: the draft is claimed once, by its own creator.
ClaimDraft(h) ==
  /\ At(h, "claim")
  /\ LET d == handler[h].draft
         own == draft[d].owner = handler[h].owner
     IN \/ /\ own /\ draft[d].status = "pending"
           /\ draft' = [draft EXCEPT ![d].status = "executing"]
           /\ Written(h, To(h, IF draft[d].makes = "link" THEN "look" ELSE "insert"))
        \/ /\ own /\ draft[d].status = "confirmed"
           /\ Go(h, Replying(h, 0)) /\ UNCHANGED <<draft, faults>>
        \/ /\ ~own \/ draft[d].status \notin {"pending", "confirmed"}
           /\ Throw(h, "permanent") /\ UNCHANGED <<draft, faults>>
  /\ UNCHANGED <<sent, post, row, connection, made, month, usage, spent, broken>>

\* After its link or rule: a confirmation is written, a command is replied to.
AfterMaking(h) == IF Kind(h) = "link" THEN Replying(h, 0) ELSE To(h, "confirm")

\* createActionTool looks for a link made with the same key.
Look(h) ==
  /\ At(h, "look")
  /\ \/ made[Source(h)] = <<>> /\ Go(h, To(h, "insert"))
     \/ /\ made[Source(h)] # <<>>
        /\ IF made[Source(h)][1] = handler[h].owner THEN Go(h, AfterMaking(h)) ELSE Throw(h, "permanent")
  /\ UNCHANGED <<sent, post, row, store, faults, broken>>

\* A wrong variant: a command's link has no key.
KeyedDraft(h) == Kind(h) # "link" /\ draft[handler[h].draft].makes = "link"

\* A link is inserted under a unique key, a rule has none.
Keyed(h) == Kind(h) = "link" \/ draft[handler[h].draft].makes = "link"
Insert(h) ==
  /\ At(h, "insert")
  /\ IF Keyed(h) /\ made[Source(h)] # <<>>
     THEN Throw(h, "temporary") /\ UNCHANGED <<made, faults>>
     ELSE /\ made' = [made EXCEPT ![Source(h)] = Append(@, handler[h].owner)]
          /\ Written(h, AfterMaking(h))
  /\ UNCHANGED <<sent, post, row, connection, draft, month, usage, spent, broken>>

ConfirmDraft(h) ==
  /\ At(h, "confirm")
  /\ draft' = [draft EXCEPT ![handler[h].draft].status = "confirmed"]
  /\ Written(h, Replying(h, 0))
  /\ UNCHANGED <<sent, post, row, connection, made, month, usage, spent, broken>>

\* A wrong variant: whatever the draft's status has become.
FailAnyDraft(h) ==
  /\ At(h, "undo")
  /\ draft' = [draft EXCEPT ![handler[h].draft].status = "failed"]
  /\ Go(h, [To(h, "free") EXCEPT !.draft = 0, !.owner = NULL])
  /\ UNCHANGED <<sent, post, row, connection, made, month, usage, spent, faults, broken>>

FailDraft(h) ==
  /\ At(h, "undo")
  /\ draft' = [draft EXCEPT ![handler[h].draft] =
       IF @.status = "executing" THEN [@ EXCEPT !.status = "failed"] ELSE @]
  /\ Go(h, [To(h, "free") EXCEPT !.draft = 0, !.owner = NULL])
  /\ UNCHANGED <<sent, post, row, connection, made, month, usage, spent, faults, broken>>

\* reserveAiQuota: the cost is taken from this month's budget before the call.
ReserveAiQuota(h) ==
  /\ At(h, "reserve")
  /\ IF usage[month] + Reserve > Budget
     THEN Throw(h, "temporary") /\ UNCHANGED <<usage, faults>>
     ELSE /\ usage' = [usage EXCEPT ![month] = @ + Reserve]
          /\ Written(h, [To(h, "interpret") EXCEPT !.month = month])
  /\ UNCHANGED <<sent, post, row, connection, draft, made, month, spent, broken>>

\* Wrong variants: the cost is booked on the present month; the difference is
\* taken for the cost.
BookNow(h, cost) ==
  /\ usage' = [usage EXCEPT ![month] = @ + cost - Reserve]
  /\ spent' = [spent EXCEPT ![month] = @ + cost]
BookDelta(h, cost) ==
  /\ usage' = [usage EXCEPT ![handler[h].month] = @ + cost - Reserve]
  /\ spent' = [spent EXCEPT ![handler[h].month] = @ + cost - Reserve]

\* recordAiUsage: the cost is booked on the month of the reservation.
Book(h, cost) ==
  /\ usage' = [usage EXCEPT ![handler[h].month] = @ + cost - Reserve]
  /\ spent' = [spent EXCEPT ![handler[h].month] = @ + cost]
RecordAiUsage(h) ==
  /\ At(h, "interpret")
  /\ \/ \E cost \in Costs : Book(h, cost) /\ Written(h, [To(h, "respond") EXCEPT !.month = 0])
     \/ /\ faults < MaxFaults /\ faults' = faults + 1
        /\ Book(h, Reserve) /\ Throw(h, "temporary")
  /\ UNCHANGED <<sent, post, row, connection, draft, made, month, broken>>

\* respondToAiIntent: a draft of what the user asked for, or only a message.
RespondToAiIntent(h) ==
  /\ At(h, "respond")
  /\ \/ \E d \in Drafts, kind \in Makes :
          /\ draft[d] = NoDraft /\ \A e \in Drafts : e < d => draft[e] # NoDraft
          /\ draft' = [draft EXCEPT ![d] =
               [NoDraft EXCEPT !.owner = handler[h].owner, !.makes = kind, !.status = "pending"]]
          /\ Written(h, Replying(h, d))
     \/ Go(h, Replying(h, 0)) /\ UNCHANGED <<draft, faults>>
  /\ UNCHANGED <<sent, post, row, connection, made, month, usage, spent, broken>>

\* The message to the user, with the button of a new draft.
Reply(h) ==
  /\ At(h, "reply")
  /\ draft' = [d \in Drafts |-> IF d = handler[h].draft THEN [draft[d] EXCEPT !.shown = TRUE] ELSE draft[d]]
  /\ Written(h, [To(h, "mark") EXCEPT !.draft = 0])
  /\ UNCHANGED <<sent, post, row, connection, made, month, usage, spent, broken>>

(***************************************************************************)
(* Failures.                                                               *)
(***************************************************************************)

\* A statement or a call of handler h fails before it has any effect.
Fail(h) ==
  /\ handler[h].pc \notin {"idle", "free"}
  /\ At(h, "mark") => handler[h].ending = "ok"
  /\ faults < MaxFaults /\ faults' = faults + 1
  /\ Throw(h, "temporary")
  /\ UNCHANGED <<sent, post, row, store, broken>>

\* The writes of the error path fail, or the server ends: these requests are
\* gone, and Telegram sees an error.
Exit(gone) ==
  /\ gone # {} /\ \A h \in gone : handler[h].pc # "idle"
  /\ faults < MaxFaults /\ faults' = faults + 1
  /\ handler' = [h \in Handlers |-> IF h \in gone THEN Idle ELSE handler[h]]
  /\ post' = [u \in Updates |-> IF post[u] \in gone THEN "due" ELSE post[u]]
  /\ broken' = broken \cup {handler[h].update : h \in gone}
  /\ UNCHANGED <<sent, row, store>>

Work(h) ==
  \/ Begin(h) \/ Refuse(h) \/ ClaimDraft(h) \/ Look(h) \/ Insert(h) \/ ConfirmDraft(h)
  \/ FailDraft(h) \/ ReserveAiQuota(h) \/ RecordAiUsage(h) \/ RespondToAiIntent(h)
  \/ Reply(h) \/ MarkProcessed(h) \/ Free(h)

\* All requests of the server, or one whose error path fails.
Failing(h) == At(h, "free") \/ (At(h, "mark") /\ handler[h].ending = "permanent")
Busy == {h \in Handlers : handler[h].pc # "idle"}

Next ==
  \/ \E u \in Updates, message \in Messages : Send(u, message)
  \/ \E u \in Updates : HangUp(u) \/ \E expired \in BOOLEAN : Deliver(u, expired)
  \/ \E c \in Owners : Connect(c)
  \/ \E d \in Drafts : Expire(d) \/ GiveUp(d)
  \/ Disconnect \/ NextMonth
  \/ \E h \in Handlers : Work(h) \/ Fail(h) \/ (Failing(h) /\ Exit({h}))
  \/ Exit(Busy)

Spec == Init /\ [][Next]_vars

\* Telegram delivers again what was not answered with 200, and a request goes
\* on until it ends.  Nothing is assumed of the user or of the daily job.
Fairness ==
  /\ \A u \in Updates : WF_vars(\E expired \in BOOLEAN : Deliver(u, expired))
  /\ \A h \in Handlers : WF_vars(Work(h))

FairSpec == Spec /\ Fairness

(***************************************************************************)
(* Properties.                                                             *)
(***************************************************************************)

Steps == {"idle", "begin", "claim", "reserve", "interpret", "respond", "reply", "mark", "free"} \cup Executing
Requests ==
  [pc : Steps, update : Updates \cup {0}, owner : Owners \cup {NULL}, draft : Drafts \cup {0},
   month : Months \cup {0}, ending : {"ok", "permanent", "temporary"}]
DraftRows ==
  [owner : Owners \cup {NULL}, makes : Makes, shown : BOOLEAN,
   status : {"none", "pending", "executing", "confirmed", "failed", "expired"}]

TypeOK ==
  /\ sent \in [Updates -> Messages \cup {Nothing}]
  /\ post \in [Updates -> {"unsent", "due", "answered"} \cup Handlers]
  /\ row \in [Updates -> {"none", "free", "held", "done"}]
  /\ handler \in [Handlers -> Requests]
  /\ connection \in Owners \cup {NULL}
  /\ draft \in [Drafts -> DraftRows]
  /\ made \in [Updates \cup Drafts -> Seq(Owners)]
  /\ month \in Months /\ usage \in [Months -> Int] /\ spent \in [Months -> Nat]
  /\ faults \in 0..MaxFaults /\ broken \subseteq Updates

\* A link command makes one link and a draft one link or rule, however often
\* the update is delivered, the button pressed or a request cut off
\* (createActionTool's key, confirmIntentDraftTool's claim).
MadeOnce == \A s \in Updates \cup Drafts : Len(made[s]) <= 1

\* What a draft makes belongs to the creator it was drafted for, even when the
\* chat has been connected to another account since; a confirmed draft has made
\* it, and one that is still open or has expired has made nothing.
DraftsAreHonoured ==
  \A d \in Drafts :
    /\ \A i \in 1..Len(made[d]) : made[d][i] = draft[d].owner
    /\ draft[d].status = "confirmed" => made[d] # <<>>
    /\ draft[d].status \in {"none", "pending", "expired"} => made[d] = <<>>

\* An update Telegram no longer delivers has been processed, or a request is
\* still at it, unless a request for it was cut off or not waited for (POST:
\* a duplicate is answered with 200 while the row is held).
AcknowledgedIsHandled ==
  \A u \in Updates :
    post[u] = "answered" /\ row[u] # "done" =>
      u \in broken \/ \E h \in Handlers : handler[h].update = u

\* The month's counter covers what interpretations of that month have cost and
\* what those under way may, across failures, retries and the turn of the month
\* (reserveAiQuota, recordAiUsage).
Reserved(m) == {h \in Handlers : At(h, "interpret") /\ handler[h].month = m}
SpendingIsBooked ==
  \A m \in Months : spent[m] + Reserve * Cardinality(Reserved(m)) <= usage[m]

\* A confirmed draft stays confirmed, whatever fails after the write and
\* however late the daily job runs.
ConfirmedIsFinal ==
  [][\A d \in Drafts : draft[d].status = "confirmed" => draft'[d].status = "confirmed"]_vars

\* Every update is processed in the end, unless a request for it was cut off or
\* not waited for, or the month's AI budget is used up.
EveryUpdateIsProcessed ==
  []<>(\A u \in Updates :
         \/ post[u] = "unsent" \/ row[u] = "done" \/ u \in broken
         \/ sent[u].kind = "ask" /\ usage[month] + Reserve > Budget)
=============================================================================
