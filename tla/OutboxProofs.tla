---------------------------- MODULE OutboxProofs ----------------------------
(***************************************************************************)
(* Safety of Outbox for any number of rows, workers and users, any limit   *)
(* on attempts, batches and reminders, and any number of faults.           *)
(***************************************************************************)
EXTENDS Outbox, FiniteSetTheorems, TLAPS

(***************************************************************************)
(* Types, and what rows and workers keep.                                  *)
(***************************************************************************)

\* A result row has no rules; a row that may be tried again has attempts left.
RowOK(r) ==
  /\ KindOf[r] = "result" => out[r].rules = {}
  /\ out[r].status \in {"PENDING", "PROCESSING"} => out[r].attempts < MaxAttempts
  /\ out[r].status = "DEAD" /\ out[r].error = "temporary" => out[r].attempts = MaxAttempts

RowsOK == \A r \in Queued : RowOK(r)

\* What a worker read is a row still, of which the rules it is about to
\* complete are some, and had attempts left.
WorkerOK(w) ==
  /\ worker[w].batch \subseteq Queued
  /\ \A r \in worker[w].batch : worker[w].seen[r] < MaxAttempts
  /\ worker[w].cur = NULL <=> worker[w].pc \in {"ready", "fetch"}
  /\ worker[w].cur = NULL => worker[w].rules = {}
  /\ worker[w].cur # NULL =>
       /\ worker[w].cur \in Queued
       /\ worker[w].seen[worker[w].cur] < MaxAttempts
       /\ worker[w].rules \subseteq out[worker[w].cur].rules
  /\ worker[w].pc = "failed" => worker[w].error \in Errors

WorkersOK == \A w \in Workers : WorkerOK(w)

Typed == TypeOK /\ RowsOK /\ WorkersOK

\* Rows stay, with the rules they were written with.
RowsKept == \A r \in Queued : r \in Queued' /\ out[r].rules \subseteq out'[r].rules

\* A worker that does not move keeps what it relies on.
LEMMA WorkerFrame ==
  ASSUME TypeOK, RowsKept, NEW w \in Workers, WorkerOK(w), worker'[w] = worker[w]
  PROVE  WorkerOK(w)'
<1>1. worker[w] \in Worker
  BY DEF TypeOK
<1>2. worker[w].cur # NULL => worker[w].rules \subseteq out'[worker[w].cur].rules
  BY DEF RowsKept, WorkerOK
<1> QED
  BY <1>1, <1>2 DEF WorkerOK, RowsKept

\* The workers have nothing in hand to begin with.
LEMMA TypedInit == Init => Typed
<1> SUFFICES ASSUME Init PROVE Typed
  OBVIOUS
<1>1. Idle \in Worker
  BY OutboxAssumption DEF Idle, Worker
<1>2. TypeOK
  BY <1>1, OutboxAssumption DEF Init, TypeOK
<1>3. Queued = {}
  BY DEF Init, Queued
<1>4. WorkersOK
  BY DEF Init, WorkersOK, WorkerOK, Idle
<1> QED
  BY <1>2, <1>3, <1>4 DEF Typed, RowsOK

\* Rows that are left alone or rewritten properly.
LEMMA RowsFrame ==
  ASSUME TypeOK, RowsOK, out' = [r \in Rows |-> out'[r]],
         \A r \in Rows : \/ out'[r] = out[r]
                         \/ /\ out'[r] \in Row /\ RowOK(r)'
                            /\ r \in Queued => out[r].rules \subseteq out'[r].rules
  PROVE  RowsKept /\ RowsOK' /\ out' \in [Rows -> Row \cup {NULL}]
<1>1. NULL \notin Row
  BY OutboxAssumption
<1>2. \A r \in Rows : out[r] \in Row \cup {NULL}
  BY DEF TypeOK
<1>3. \A r \in Rows : out'[r] \in Row \cup {NULL}
  BY <1>2
<1>4. \A r \in Queued : r \in Queued' /\ out[r].rules \subseteq out'[r].rules
  BY <1>1, <1>2 DEF Queued
<1>5. ASSUME NEW r \in Queued' PROVE RowOK(r)'
  BY <1>5, <1>1 DEF RowsOK, RowOK, Queued
<1> QED
  BY <1>3, <1>4, <1>5 DEF RowsKept, RowsOK

Pcs == {"ready", "fetch", "locked", "suppress", "send", "accepted", "failed"}

\* What a worker's steps write is a worker.
LEMMA WorkerTypes ==
  ASSUME NEW p \in Worker
  PROVE  /\ Done(p) \in Worker
         /\ \A pc \in Pcs : [p EXCEPT !.pc = pc] \in Worker
         /\ \A pc \in Pcs, error \in Errors : [p EXCEPT !.pc = pc, !.error = error] \in Worker
         /\ \A pc \in Pcs, rules \in SUBSET Rules :
              [p EXCEPT !.pc = pc, !.rules = rules] \in Worker
         /\ \A batch \in SUBSET Rows : [p EXCEPT !.batch = batch] \in Worker
         /\ \A pc \in Pcs, batch \in SUBSET Rows, r \in Rows :
              [p EXCEPT !.pc = pc, !.batch = batch, !.cur = r] \in Worker
         /\ \A pc \in Pcs, batch \in SUBSET Rows, seen \in [Rows -> 0 .. MaxAttempts] :
              [p EXCEPT !.pc = pc, !.batch = batch, !.seen = seen] \in Worker
<1>1. Done(p) \in Worker
  BY DEF Done, Worker
<1>2. \A pc \in Pcs : [p EXCEPT !.pc = pc] \in Worker
  BY DEF Worker, Pcs
<1>3. \A pc \in Pcs, error \in Errors : [p EXCEPT !.pc = pc, !.error = error] \in Worker
  BY DEF Worker, Pcs
<1>4. \A pc \in Pcs, rules \in SUBSET Rules : [p EXCEPT !.pc = pc, !.rules = rules] \in Worker
  BY DEF Worker, Pcs
<1>5. \A batch \in SUBSET Rows : [p EXCEPT !.batch = batch] \in Worker
  BY DEF Worker
<1>6. \A pc \in Pcs, batch \in SUBSET Rows, r \in Rows :
        [p EXCEPT !.pc = pc, !.batch = batch, !.cur = r] \in Worker
  BY DEF Worker, Pcs
<1>7. \A pc \in Pcs, batch \in SUBSET Rows, seen \in [Rows -> 0 .. MaxAttempts] :
        [p EXCEPT !.pc = pc, !.batch = batch, !.seen = seen] \in Worker
  BY DEF Worker, Pcs
<1> QED
  BY <1>1, <1>2, <1>3, <1>4, <1>5, <1>6, <1>7

\* A step of one worker that leaves the rows alone keeps what it relies on when
\* it has the same row, or none, in hand.
LEMMA WorkerStep ==
  ASSUME Typed, RowsKept, NEW w \in Workers, NEW p \in Worker,
         worker' = [worker EXCEPT ![w] = p],
         p.batch \subseteq Queued, \A r \in p.batch : p.seen[r] < MaxAttempts,
         p.cur = NULL <=> p.pc \in {"ready", "fetch"},
         p.cur = NULL => p.rules = {},
         p.cur # NULL => /\ p.cur \in Queued
                         /\ p.seen[p.cur] < MaxAttempts
                         /\ p.rules \subseteq out[p.cur].rules,
         p.pc = "failed" => p.error \in Errors
  PROVE  WorkersOK' /\ worker' \in [Workers -> Worker]
<1>1. worker \in [Workers -> Worker]
  BY DEF Typed, TypeOK
<1>2. worker' \in [Workers -> Worker] /\ worker'[w] = p
  BY <1>1
<1>3. ASSUME NEW v \in Workers \ {w} PROVE WorkerOK(v)'
  BY <1>1, WorkerFrame DEF Typed, WorkersOK
<1>4. WorkerOK(w)'
  BY <1>2 DEF WorkerOK, RowsKept
<1> QED
  BY <1>2, <1>3, <1>4 DEF WorkersOK

\* The same for a worker that is done with its row.
LEMMA WorkerDone ==
  ASSUME Typed, RowsKept, NEW w \in Workers, worker' = [worker EXCEPT ![w] = Done(@)]
  PROVE  WorkersOK' /\ worker' \in [Workers -> Worker]
<1>1. worker[w] \in Worker /\ WorkerOK(w)
  BY DEF Typed, TypeOK, WorkersOK
<1> DEFINE p == Done(worker[w])
<1>2. p \in Worker
  BY <1>1, WorkerTypes
<1>3. /\ p.batch = worker[w].batch /\ p.seen = worker[w].seen
      /\ p.cur = NULL /\ p.rules = {} /\ p.pc = "ready"
  BY <1>1 DEF Done, Worker
<1>4. worker' = [worker EXCEPT ![w] = p]
  BY DEF Typed, TypeOK
<1> HIDE DEF p
<1> QED
  BY <1>1, <1>2, <1>3, <1>4, WorkerStep DEF WorkerOK

\* Rows that a step leaves alone.
LEMMA RowsSame ==
  ASSUME Typed, out' = out
  PROVE  RowsKept /\ RowsOK' /\ out' \in [Rows -> Row \cup {NULL}]
  BY DEF Typed, TypeOK, RowsKept, RowsOK, RowOK, Queued

\* What deliverOutbox does before it sends keeps the types.
LEMMA TypedTaking ==
  ASSUME Typed, NEW w \in Workers, Reset(w) \/ Fetch(w) \/ Lock(w) \/ Authorize(w)
  PROVE  Typed' /\ RowsKept
<1>1. worker[w] \in Worker /\ WorkerOK(w)
  BY DEF Typed, TypeOK, WorkersOK
<1>2. \A r \in Queued : r \in Rows /\ out[r] \in Row /\ RowOK(r)
  BY DEF Typed, TypeOK, Queued, RowsOK
<1> DEFINE q == worker[w]
<1>3. CASE Reset(w)
  <2> DEFINE p == [q EXCEPT !.pc = "fetch"]
  <2>1. p \in Worker
    BY <1>1, WorkerTypes DEF Pcs
  <2>2. /\ p.batch = q.batch /\ p.seen = q.seen /\ p.cur = q.cur /\ p.rules = q.rules
        /\ p.pc = "fetch" /\ worker' = [worker EXCEPT ![w] = p]
    BY <1>1, <1>3 DEF Reset, Worker
  <2>3. ASSUME NEW r \in Rows, out'[r] # out[r]
        PROVE  out'[r] \in Row /\ RowOK(r)' /\ out[r].rules \subseteq out'[r].rules
    <3>1. /\ r \in Queued /\ out[r].status = "PROCESSING"
          /\ out'[r] = [out[r] EXCEPT !.status = "PENDING", !.holder = NULL, !.lapsed = FALSE]
      BY <1>3, <2>3 DEF Reset
    <3> QED
      BY <3>1, <1>2 DEF Row, RowOK
  <2>4. out' = [r \in Rows |-> out'[r]]
    BY <1>3 DEF Reset
  <2>5. RowsKept /\ RowsOK' /\ out' \in [Rows -> Row \cup {NULL}]
    BY <2>3, <2>4, RowsFrame DEF Typed
  <2>6. /\ q.batch = {} /\ q.cur = NULL /\ q.rules = {}
    BY <1>1, <1>3 DEF WorkerOK, Reset
  <2> HIDE DEF p
  <2>7. WorkersOK' /\ worker' \in [Workers -> Worker]
    BY <2>1, <2>2, <2>5, <2>6, WorkerStep
  <2> QED
    BY <2>5, <2>7, <1>3 DEF Reset, Typed, TypeOK
<1>4. CASE Fetch(w)
  <2> DEFINE batch == {r \in Due : Cardinality({s \in Due : s < r}) < BatchSize}
             seen == [r \in Rows |-> IF r \in Due THEN out[r].attempts ELSE 0]
             p == [q EXCEPT !.pc = "ready", !.batch = batch, !.seen = seen]
  <2>1. Due \subseteq Queued /\ Due \subseteq Rows
        /\ \A r \in Due : out[r].attempts \in 0 .. MaxAttempts /\ out[r].attempts < MaxAttempts
    BY <1>2 DEF Due, Row, RowOK
  <2>2. seen \in [Rows -> 0 .. MaxAttempts] /\ \A r \in Due : seen[r] < MaxAttempts
    BY <2>1, OutboxAssumption
  <2>3. batch \subseteq Due
    OBVIOUS
  <2>4. worker' = [worker EXCEPT ![w] = [@ EXCEPT !.pc = "ready", !.batch = batch, !.seen = seen]]
    BY <1>4 DEF Fetch
  <2> HIDE DEF batch, seen
  <2>5. p \in Worker
    BY <1>1, <2>1, <2>2, <2>3, WorkerTypes DEF Pcs
  <2>6. /\ p.batch = batch /\ p.seen = seen /\ p.cur = q.cur /\ p.rules = q.rules
        /\ p.pc = "ready" /\ worker' = [worker EXCEPT ![w] = p]
    BY <1>1, <2>4 DEF Worker
  <2>7. RowsKept /\ RowsOK' /\ out' \in [Rows -> Row \cup {NULL}]
    BY <1>4, RowsSame DEF Fetch
  <2> HIDE DEF p
  <2>8. WorkersOK' /\ worker' \in [Workers -> Worker]
    BY <2>1, <2>2, <2>3, <2>5, <2>6, <2>7, <1>1, <1>4, WorkerStep DEF WorkerOK, Fetch
  <2> QED
    BY <2>7, <2>8, <1>4 DEF Fetch, Typed, TypeOK
<1>5. CASE Lock(w)
  <2>1. PICK r \in q.batch :
          IF Lockable(r)
          THEN /\ out' = [out EXCEPT ![r] =
                    [@ EXCEPT !.status = "PROCESSING", !.holder = w, !.lapsed = FALSE]]
               /\ worker' = [worker EXCEPT ![w] =
                    [@ EXCEPT !.pc = "locked", !.batch = q.batch \ {r}, !.cur = r]]
          ELSE /\ worker' = [worker EXCEPT ![w] = [@ EXCEPT !.batch = q.batch \ {r}]]
               /\ UNCHANGED out
    BY <1>5 DEF Lock
  <2>2. /\ r \in Queued /\ r \in Rows /\ q.seen[r] < MaxAttempts /\ q.pc = "ready"
        /\ q.cur = NULL /\ q.rules = {} /\ r # NULL
    BY <1>1, <1>2, <1>5, <2>1, OutboxAssumption DEF WorkerOK, Lock
  <2> DEFINE batch == q.batch \ {r}
  <2>3. batch \in SUBSET Rows /\ batch \subseteq q.batch
    BY <1>1 DEF Worker
  <2>4. CASE Lockable(r)
    <3> DEFINE p == [q EXCEPT !.pc = "locked", !.batch = batch, !.cur = r]
    <3>1. p \in Worker
      BY <1>1, <2>2, <2>3, WorkerTypes DEF Pcs
    <3>2. p.batch = batch /\ p.seen = q.seen /\ p.cur = r /\ p.rules = {} /\ p.pc = "locked"
      BY <1>1, <2>2 DEF Worker
    <3>9. worker' = [worker EXCEPT ![w] = p]
      BY <2>1, <2>4
    <3>3. out' = [out EXCEPT ![r] =
                    [@ EXCEPT !.status = "PROCESSING", !.holder = w, !.lapsed = FALSE]]
      BY <2>1, <2>4
    <3>4. out'[r] = [out[r] EXCEPT !.status = "PROCESSING", !.holder = w, !.lapsed = FALSE]
      BY <3>3, <2>2 DEF Typed, TypeOK
    <3>5. out'[r] \in Row /\ RowOK(r)' /\ out[r].rules \subseteq out'[r].rules
      BY <3>4, <2>2, <2>4, <1>2 DEF Row, RowOK, Lockable
    <3>6. out' = [s \in Rows |-> out'[s]] /\ \A s \in Rows \ {r} : out'[s] = out[s]
      BY <3>3 DEF Typed, TypeOK
    <3>7. RowsKept /\ RowsOK' /\ out' \in [Rows -> Row \cup {NULL}]
      BY <3>5, <3>6, RowsFrame DEF Typed
    <3> HIDE DEF p
    <3>8. WorkersOK' /\ worker' \in [Workers -> Worker]
      BY <3>1, <3>2, <3>9, <3>7, <2>2, <2>3, <1>1, WorkerStep DEF WorkerOK
    <3> QED
      BY <3>7, <3>8, <1>5 DEF Lock, Typed, TypeOK
  <2>5. CASE ~Lockable(r)
    <3> DEFINE p == [q EXCEPT !.batch = batch]
    <3>1. p \in Worker
      BY <1>1, <2>3, WorkerTypes
    <3>2. p.batch = batch /\ p.seen = q.seen /\ p.cur = NULL /\ p.rules = {} /\ p.pc = "ready"
      BY <1>1, <2>2 DEF Worker
    <3>5. worker' = [worker EXCEPT ![w] = p]
      BY <2>1, <2>5
    <3>3. RowsKept /\ RowsOK' /\ out' \in [Rows -> Row \cup {NULL}]
      BY <2>1, <2>5, RowsSame
    <3> HIDE DEF p
    <3>4. WorkersOK' /\ worker' \in [Workers -> Worker]
      BY <3>1, <3>2, <3>3, <3>5, <2>2, <2>3, <1>1, WorkerStep DEF WorkerOK
    <3> QED
      BY <3>3, <3>4, <1>5 DEF Lock, Typed, TypeOK
  <2> QED
    BY <2>4, <2>5
<1>6. CASE Authorize(w)
  <2> DEFINE r == q.cur
             pc == IF Authorized(r) THEN "send" ELSE "suppress"
             rules == IF Authorized(r) THEN ActiveOf(out[r].rules) ELSE {}
             p == [q EXCEPT !.pc = pc, !.rules = rules]
  <2>1. r # NULL /\ r \in Queued /\ q.seen[r] < MaxAttempts /\ out[r].rules \subseteq Rules
    BY <1>1, <1>2, <1>6 DEF WorkerOK, Authorize, Row
  <2>2. rules \subseteq out[r].rules /\ pc \in {"send", "suppress"}
    BY DEF ActiveOf
  <2>3. worker' = [worker EXCEPT ![w] = [@ EXCEPT !.pc = pc, !.rules = rules]]
    BY <1>6 DEF Authorize
  <2> HIDE DEF pc, rules
  <2>4. p \in Worker
    BY <1>1, <2>1, <2>2, WorkerTypes DEF Pcs
  <2>5. /\ p.batch = q.batch /\ p.seen = q.seen /\ p.cur = r /\ p.rules = rules
        /\ p.pc = pc /\ worker' = [worker EXCEPT ![w] = p]
    BY <1>1, <2>3 DEF Worker
  <2>6. RowsKept /\ RowsOK' /\ out' \in [Rows -> Row \cup {NULL}]
    BY <1>6, RowsSame DEF Authorize
  <2> HIDE DEF p
  <2>7. WorkersOK' /\ worker' \in [Workers -> Worker]
    BY <2>1, <2>2, <2>4, <2>5, <2>6, <1>1, WorkerStep DEF WorkerOK
  <2> QED
    BY <2>6, <2>7, <1>6 DEF Authorize, Typed, TypeOK
<1> QED
  BY <1>3, <1>4, <1>5, <1>6

\* One row rewritten with its rules, its retries counted.
LEMMA RowRewritten ==
  ASSUME Typed, NEW r \in Queued, NEW row \in Row, out' = [out EXCEPT ![r] = row],
         row.rules = out[r].rules,
         row.status \in {"PENDING", "PROCESSING"} => row.attempts < MaxAttempts,
         row.status = "DEAD" /\ row.error = "temporary" => row.attempts = MaxAttempts
  PROVE  RowsKept /\ RowsOK' /\ out' \in [Rows -> Row \cup {NULL}]
<1>1. out' = [s \in Rows |-> out'[s]] /\ out'[r] = row /\ \A s \in Rows \ {r} : out'[s] = out[s]
  BY DEF Typed, TypeOK, Queued
<1>2. RowOK(r)'
  BY <1>1 DEF Typed, RowsOK, RowOK
<1> QED
  BY <1>1, <1>2, RowsFrame DEF Typed

\* The answer to a message, and a crash, keep the types.
LEMMA TypedAnswer ==
  ASSUME Typed, NEW w \in Workers,
         \/ Accept(w) \/ AcceptUnheard(w) \/ StatementFails(w)
         \/ \E error \in Errors : Refuse(w, error)
         \/ Crash(w)
  PROVE  Typed' /\ RowsKept
<1>1. worker[w] \in Worker /\ WorkerOK(w)
  BY DEF Typed, TypeOK, WorkersOK
<1>2. RowsKept /\ RowsOK' /\ out' \in [Rows -> Row \cup {NULL}]
  BY RowsSame DEF Accept, Reach, AcceptUnheard, StatementFails, Refuse, Crash
<1>3. worker[w].cur \in Queued \/ Crash(w)
  BY <1>1 DEF WorkerOK, Accept, Reach, AcceptUnheard, StatementFails, Refuse
<1>4. faults' \in 0 .. MaxFaults
  <2>1. faults \in 0 .. MaxFaults /\ MaxFaults \in Nat
    BY OutboxAssumption DEF Typed, TypeOK
  <2>2. faults' = faults \/ (faults < MaxFaults /\ faults' = faults + 1)
    BY DEF Accept, Reach, AcceptUnheard, StatementFails, Refuse, Crash
  <2> QED
    BY <2>1, <2>2
<1>5. reached' \subseteq Rows
  BY <1>3 DEF Typed, TypeOK, Queued, Accept, Reach, AcceptUnheard, StatementFails, Refuse, Crash
<1>6. WorkersOK' /\ worker' \in [Workers -> Worker]
  <2>1. CASE Accept(w)
    <3> DEFINE p == [worker[w] EXCEPT !.pc = "accepted"]
    <3>1. p \in Worker /\ worker' = [worker EXCEPT ![w] = p]
      BY <1>1, <2>1, WorkerTypes DEF Pcs, Accept
    <3>2. /\ p.batch = worker[w].batch /\ p.seen = worker[w].seen /\ p.cur = worker[w].cur
          /\ p.rules = worker[w].rules /\ p.pc = "accepted"
      BY <1>1 DEF Worker
    <3>3. worker[w].pc = "send"
      BY <2>1 DEF Accept, Reach
    <3> HIDE DEF p
    <3> QED
      BY <1>1, <1>2, <3>1, <3>2, <3>3, WorkerStep DEF WorkerOK
  <2>2. ASSUME NEW error \in Errors, worker[w].pc \in {"send", "locked", "suppress", "accepted"},
               worker' = [worker EXCEPT ![w] = [@ EXCEPT !.pc = "failed", !.error = error]]
        PROVE  WorkersOK' /\ worker' \in [Workers -> Worker]
    <3> DEFINE p == [worker[w] EXCEPT !.pc = "failed", !.error = error]
    <3>1. p \in Worker /\ worker' = [worker EXCEPT ![w] = p]
      BY <1>1, <2>2, WorkerTypes DEF Pcs
    <3>2. /\ p.batch = worker[w].batch /\ p.seen = worker[w].seen /\ p.cur = worker[w].cur
          /\ p.rules = worker[w].rules /\ p.pc = "failed" /\ p.error = error
      BY <1>1 DEF Worker
    <3> HIDE DEF p
    <3> QED
      BY <1>1, <1>2, <2>2, <3>1, <3>2, WorkerStep DEF WorkerOK
  <2>3. CASE Crash(w)
    <3>1. Idle \in Worker /\ worker' = [worker EXCEPT ![w] = Idle]
      BY <2>3, OutboxAssumption DEF Idle, Worker, Crash
    <3>2. Idle.batch = {} /\ Idle.cur = NULL /\ Idle.rules = {} /\ Idle.pc = "ready"
      BY DEF Idle
    <3> QED
      BY <1>2, <3>1, <3>2, WorkerStep
  <2> QED
    BY <2>1, <2>2, <2>3 DEF AcceptUnheard, Reach, StatementFails, Refuse, Errors
<1>7. late' \subseteq Workers \X (Connections \cup Subscriptions)
  <2>1. CASE Accept(w) \/ AcceptUnheard(w)
    <3>1. worker[w].cur \in Rows
      BY <2>1, <1>1 DEF Typed, TypeOK, WorkerOK, Queued, Accept, AcceptUnheard, Reach
    <3> QED
      BY <2>1, <3>1, OutboxAssumption DEF Typed, TypeOK, Accept, AcceptUnheard, Reach
  <2> QED
    BY <2>1 DEF StatementFails, Refuse, Crash, Typed, TypeOK
<1> QED
  BY <1>2, <1>4, <1>5, <1>6, <1>7
     DEF Accept, Reach, AcceptUnheard, StatementFails, Refuse, Crash, Typed, TypeOK

\* What becomes of a row when the worker is through with it keeps the types.
LEMMA TypedEnding ==
  ASSUME Typed, NEW w \in Workers, Suppress(w) \/ MarkSent(w) \/ RecordFailure(w)
  PROVE  Typed' /\ RowsKept
<1> DEFINE r == worker[w].cur
<1>1. worker[w] \in Worker /\ WorkerOK(w)
  BY DEF Typed, TypeOK, WorkersOK
<1>2. /\ r \in Queued /\ r \in Rows /\ out[r] \in Row /\ RowOK(r)
      /\ worker[w].seen[r] < MaxAttempts /\ worker[w].seen[r] \in 0 .. MaxAttempts
  <2>1. r \in Queued /\ worker[w].seen[r] < MaxAttempts
    BY <1>1 DEF WorkerOK, Suppress, MarkSent, RecordFailure
  <2> QED
    BY <1>1, <2>1 DEF Typed, TypeOK, Queued, RowsOK, Worker
<1>3. RowsKept /\ RowsOK' /\ out' \in [Rows -> Row \cup {NULL}]
  <2>1. CASE ~Holds(w)
    BY <2>1, RowsSame DEF Suppress, MarkSent, RecordFailure
  <2>2. CASE Suppress(w) /\ Holds(w)
    <3> DEFINE row == [out[r] EXCEPT !.status = "DEAD", !.holder = NULL, !.lapsed = FALSE,
                                     !.error = "unauthorized"]
    <3>1. row \in Row /\ row.rules = out[r].rules /\ row.status = "DEAD" /\ row.error = "unauthorized"
      BY <1>2 DEF Row
    <3>2. out' = [out EXCEPT ![r] = row]
      BY <2>2, <1>2 DEF Suppress
    <3> HIDE DEF row
    <3> QED
      BY <3>1, <3>2, <1>2, RowRewritten
  <2>3. CASE MarkSent(w) /\ Holds(w)
    <3> DEFINE row == [out[r] EXCEPT !.status = "SENT", !.holder = NULL, !.lapsed = FALSE]
    <3>1. row \in Row /\ row.rules = out[r].rules /\ row.status = "SENT"
      BY <1>2 DEF Row
    <3>2. out' = [out EXCEPT ![r] = row]
      BY <2>3, <1>2 DEF MarkSent
    <3> HIDE DEF row
    <3> QED
      BY <3>1, <3>2, <1>2, RowRewritten
  <2>4. CASE RecordFailure(w) /\ Holds(w)
    <3> DEFINE attempts == worker[w].seen[r] + 1
               error == worker[w].error
               status == IF DeadAt(attempts, error) THEN "DEAD" ELSE "PENDING"
               row == [out[r] EXCEPT !.attempts = attempts, !.waiting = TRUE, !.error = error,
                                     !.holder = NULL, !.lapsed = FALSE, !.status = status]
    <3>1. attempts \in 0 .. MaxAttempts /\ error \in Errors /\ status \in {"DEAD", "PENDING"}
      BY <1>1, <1>2, <2>4, OutboxAssumption DEF WorkerOK, RecordFailure
    <3>2. /\ status = "PENDING" => attempts < MaxAttempts
          /\ status = "DEAD" /\ error = "temporary" => attempts = MaxAttempts
      BY <3>1, OutboxAssumption DEF DeadAt
    <3>3. out' = [out EXCEPT ![r] = row]
      BY <2>4, <1>2 DEF RecordFailure
    <3> HIDE DEF attempts, error, status
    <3>4. /\ row \in Row /\ row.rules = out[r].rules /\ row.status = status
          /\ row.error = error /\ row.attempts = attempts
      BY <1>2, <3>1 DEF Row
    <3> HIDE DEF row
    <3> QED
      BY <3>1, <3>2, <3>3, <3>4, <1>2, RowRewritten
  <2> QED
    BY <2>1, <2>2, <2>3, <2>4
<1>4. WorkersOK' /\ worker' \in [Workers -> Worker]
  BY <1>3, WorkerDone DEF Suppress, MarkSent, RecordFailure
<1>5. rule' \in [Rules -> {"ACTIVE", "PAUSED", "COMPLETED", "DELETED"}]
  BY DEF Typed, TypeOK, Suppress, MarkSent, RecordFailure
<1>6. conn' \in [Connections -> [blocked : BOOLEAN, enabled : BOOLEAN] \cup {NULL}]
  <2>1. CASE RecordFailure(w)
    <3>1. conn' = [c \in Connections |-> conn'[c]]
      BY <2>1 DEF RecordFailure
    <3>2. \A c \in Connections : conn'[c] \in {conn[c], [blocked |-> TRUE, enabled |-> FALSE]}
      BY <2>1 DEF RecordFailure
    <3>3. [blocked |-> TRUE, enabled |-> FALSE] \in [blocked : BOOLEAN, enabled : BOOLEAN]
      OBVIOUS
    <3>4. \A c \in Connections : conn[c] \in [blocked : BOOLEAN, enabled : BOOLEAN] \cup {NULL}
      BY DEF Typed, TypeOK
    <3>5. \A c \in Connections : conn'[c] \in [blocked : BOOLEAN, enabled : BOOLEAN] \cup {NULL}
      BY <3>2, <3>3, <3>4
    <3> QED
      BY <3>1, <3>5
  <2> QED
    BY <2>1 DEF Typed, TypeOK, Suppress, MarkSent
<1>7. sub' \in [Subscriptions -> {"none", "active", "revoked"}]
  BY DEF Typed, TypeOK, Suppress, MarkSent, RecordFailure
<1> QED
  BY <1>3, <1>4, <1>5, <1>6, <1>7 DEF Suppress, MarkSent, RecordFailure, Typed, TypeOK

\* Workers that do not move.
LEMMA WorkersSame ==
  ASSUME Typed, RowsKept, worker' = worker
  PROVE  WorkersOK' /\ worker' \in [Workers -> Worker]
  BY WorkerFrame DEF Typed, TypeOK, WorkersOK

\* New rows, and time, keep the types.
LEMMA TypedRows ==
  ASSUME Typed, NEW r \in Rows,
         Enqueue(r) \/ QueueResult(r) \/ BackoffOver(r) \/ LeaseLapses(r) \/ WorkerStalls(r)
  PROVE  Typed' /\ RowsKept
<1>1. worker' = worker
  BY DEF Enqueue, QueueResult, BackoffOver, LeaseLapses, WorkerStalls
<1>2. RowsKept /\ RowsOK' /\ out' \in [Rows -> Row \cup {NULL}]
  <2>1. ASSUME NEW rules \in SUBSET Rules, KindOf[r] = "result" => rules = {},
               out[r] = NULL, out' = [out EXCEPT ![r] = NewRow(rules)]
        PROVE  RowsKept /\ RowsOK' /\ out' \in [Rows -> Row \cup {NULL}]
    <3>1. NewRow(rules) \in Row
      BY OutboxAssumption DEF NewRow, Row
    <3>2. out' = [s \in Rows |-> out'[s]] /\ \A s \in Rows \ {r} : out'[s] = out[s]
      BY <2>1 DEF Typed, TypeOK
    <3>3. out'[r] = NewRow(rules) /\ r \notin Queued
      BY <2>1 DEF Typed, TypeOK, Queued
    <3>4. RowOK(r)'
      BY <2>1, <3>3, OutboxAssumption DEF RowOK, NewRow
    <3> QED
      BY <3>1, <3>2, <3>3, <3>4, RowsFrame DEF Typed
  <2>2. CASE Enqueue(r)
    <3> DEFINE rules == IF KindOf[r] = "payment" THEN ActiveOf(Matches[r]) ELSE {}
    <3>1. rules \subseteq Rules
      BY OutboxAssumption DEF ActiveOf
    <3>2. KindOf[r] # "result" /\ out[r] = NULL /\ out' = [out EXCEPT ![r] = NewRow(rules)]
      BY <2>2 DEF Enqueue
    <3> HIDE DEF rules
    <3> QED
      BY <2>1, <3>1, <3>2
  <2>3. CASE QueueResult(r)
    BY <2>1, <2>3, RowsSame DEF QueueResult
  <2>4. CASE BackoffOver(r) \/ LeaseLapses(r) \/ WorkerStalls(r)
    <3>1. r \in Queued /\ out[r] \in Row /\ RowOK(r)
      BY <2>4 DEF Typed, TypeOK, RowsOK, Queued, BackoffOver, LeaseLapses, WorkerStalls
    <3>2. PICK row \in {[out[r] EXCEPT !.waiting = FALSE], [out[r] EXCEPT !.lapsed = TRUE]} :
            out' = [out EXCEPT ![r] = row]
      BY <2>4 DEF BackoffOver, LeaseLapses, WorkerStalls
    <3>3. /\ row \in Row /\ row.rules = out[r].rules /\ row.status = out[r].status
          /\ row.attempts = out[r].attempts /\ row.error = out[r].error
      BY <3>1, <3>2 DEF Row
    <3> QED
      BY <3>1, <3>2, <3>3, RowRewritten DEF RowOK
  <2> QED
    BY <2>2, <2>3, <2>4
<1>3. WorkersOK' /\ worker' \in [Workers -> Worker]
  BY <1>1, <1>2, WorkersSame
<1>4. faults' \in 0 .. MaxFaults
  <2>1. faults \in 0 .. MaxFaults /\ MaxFaults \in Nat
    BY OutboxAssumption DEF Typed, TypeOK
  <2>2. faults' = faults \/ (faults < MaxFaults /\ faults' = faults + 1)
    BY DEF Enqueue, QueueResult, BackoffOver, LeaseLapses, WorkerStalls
  <2> QED
    BY <2>1, <2>2
<1>5. queued' \subseteq Subscriptions
  BY DEF Enqueue, QueueResult, BackoffOver, LeaseLapses, WorkerStalls, Typed, TypeOK
<1> QED
  BY <1>2, <1>3, <1>4, <1>5
     DEF Enqueue, QueueResult, BackoffOver, LeaseLapses, WorkerStalls, Typed, TypeOK

\* The creators' settings keep the types.
LEMMA TypedSettings ==
  ASSUME Typed, Settings
  PROVE  Typed' /\ RowsKept
<1>1. worker' = worker
  BY DEF Settings, SetNotifications, Disconnect, Connect, SetRule
<1>2. RowsKept /\ RowsOK' /\ out' \in [Rows -> Row \cup {NULL}]
  <2>1. CASE out' = out
    BY <2>1, RowsSame
  <2>2. ASSUME NEW c \in Connections, Disconnect(c)
        PROVE  RowsKept /\ RowsOK' /\ out' \in [Rows -> Row \cup {NULL}]
    <3>1. out' = [r \in Rows |-> out'[r]]
      BY <2>2 DEF Disconnect
    <3>2. ASSUME NEW r \in Rows, out'[r] # out[r]
          PROVE  out'[r] \in Row /\ RowOK(r)' /\ out[r].rules \subseteq out'[r].rules
      <4>1. r \in Queued /\ out'[r] = [out[r] EXCEPT !.linked = FALSE]
        BY <2>2, <3>2 DEF Disconnect
      <4>2. out[r] \in Row /\ RowOK(r)
        BY <4>1 DEF Typed, TypeOK, RowsOK, Queued
      <4> QED
        BY <4>1, <4>2 DEF Row, RowOK
    <3> QED
      BY <3>1, <3>2, RowsFrame DEF Typed
  <2> QED
    BY <2>1, <2>2 DEF Settings, SetNotifications, Connect, SetRule
<1>3. WorkersOK' /\ worker' \in [Workers -> Worker]
  BY <1>1, <1>2, WorkersSame
<1>4. conn' \in [Connections -> [blocked : BOOLEAN, enabled : BOOLEAN] \cup {NULL}]
  <2>1. ASSUME NEW c \in Connections, NEW x \in [blocked : BOOLEAN, enabled : BOOLEAN] \cup {NULL},
               conn' = [conn EXCEPT ![c] = x]
        PROVE  conn' \in [Connections -> [blocked : BOOLEAN, enabled : BOOLEAN] \cup {NULL}]
    BY <2>1 DEF Typed, TypeOK
  <2>2. ASSUME NEW c \in Connections, NEW enabled \in BOOLEAN, SetNotifications(c, enabled)
        PROVE  conn' \in [Connections -> [blocked : BOOLEAN, enabled : BOOLEAN] \cup {NULL}]
    <3>1. [conn[c] EXCEPT !.enabled = enabled] \in [blocked : BOOLEAN, enabled : BOOLEAN]
      BY <2>2 DEF SetNotifications, Typed, TypeOK
    <3> QED
      BY <2>1, <2>2, <3>1 DEF SetNotifications
  <2>3. ASSUME NEW c \in Connections, Disconnect(c) \/ Connect(c)
        PROVE  conn' \in [Connections -> [blocked : BOOLEAN, enabled : BOOLEAN] \cup {NULL}]
    BY <2>1, <2>3 DEF Disconnect, Connect
  <2> QED
    BY <2>2, <2>3 DEF Settings, SetRule, Typed, TypeOK
<1>5. rule' \in [Rules -> {"ACTIVE", "PAUSED", "COMPLETED", "DELETED"}]
  BY DEF Settings, SetNotifications, Disconnect, Connect, SetRule, Typed, TypeOK
<1> QED
  BY <1>2, <1>3, <1>4, <1>5
     DEF Settings, SetNotifications, Disconnect, Connect, SetRule, Forget, Typed, TypeOK

\* The reminders keep the types.
LEMMA TypedReminders ==
  ASSUME Typed, Reminders
  PROVE  Typed' /\ RowsKept
<1>1. worker' = worker
  BY DEF Reminders, BeginWatch, CommitWatch, AbandonWatch, Unwatch, StopAll, Draw
<1>2. RowsKept /\ RowsOK' /\ out' \in [Rows -> Row \cup {NULL}]
  <2>1. CASE out' = out
    BY <2>1, RowsSame
  <2>2. ASSUME NEW h \in Handlers, CommitWatch(h)
        PROVE  RowsKept /\ RowsOK' /\ out' \in [Rows -> Row \cup {NULL}]
    <3>1. out' = [r \in Rows |-> out'[r]]
      BY <2>2 DEF CommitWatch
    <3>2. ASSUME NEW r \in Rows, out'[r] # out[r]
          PROVE  out'[r] \in Row /\ RowOK(r)' /\ out[r].rules \subseteq out'[r].rules
      <4>1. r \in Queued /\ ChatOf[r] = watching[h].sub /\ out'[r] = NewRow({})
        BY <2>2, <3>2 DEF CommitWatch, Retried, Queued
      <4>2. KindOf[r] = "result" /\ RowOK(r)
        BY <2>2, <4>1, OutboxAssumption DEF Typed, TypeOK, CommitWatch, RowsOK
      <4> QED
        BY <4>1, <4>2, OutboxAssumption DEF NewRow, Row, RowOK
    <3> QED
      BY <3>1, <3>2, RowsFrame DEF Typed
  <2> QED
    BY <2>1, <2>2 DEF Reminders, BeginWatch, AbandonWatch, Unwatch, StopAll, Draw
<1>3. WorkersOK' /\ worker' \in [Workers -> Worker]
  BY <1>1, <1>2, WorkersSame
<1>4. watching' \in [Handlers -> [sub : Subscriptions, retry : BOOLEAN] \cup {NULL}]
  <2>1. ASSUME NEW h \in Handlers, NEW s \in Subscriptions, BeginWatch(h, s)
        PROVE  watching' \in [Handlers -> [sub : Subscriptions, retry : BOOLEAN] \cup {NULL}]
    <3>1. [sub |-> s, retry |-> sub[s] = "revoked" /\ s \in queued]
            \in [sub : Subscriptions, retry : BOOLEAN]
      OBVIOUS
    <3> QED
      BY <2>1, <3>1 DEF BeginWatch, Typed, TypeOK
  <2>2. ASSUME NEW h \in Handlers, CommitWatch(h) \/ AbandonWatch(h)
        PROVE  watching' \in [Handlers -> [sub : Subscriptions, retry : BOOLEAN] \cup {NULL}]
    BY <2>2 DEF CommitWatch, AbandonWatch, Typed, TypeOK
  <2> QED
    BY <2>1, <2>2 DEF Reminders, Unwatch, StopAll, Draw, Typed, TypeOK
<1>5. sub' \in [Subscriptions -> {"none", "active", "revoked"}]
  BY DEF Reminders, BeginWatch, CommitWatch, AbandonWatch, Unwatch, StopAll, Draw, Typed, TypeOK
<1>6. drawn' \subseteq Subscriptions
  BY DEF Reminders, BeginWatch, CommitWatch, AbandonWatch, Unwatch, StopAll, Draw, Typed, TypeOK
<1> QED
  BY <1>2, <1>3, <1>4, <1>5, <1>6
     DEF Reminders, BeginWatch, CommitWatch, AbandonWatch, Unwatch, StopAll, Draw, Forget,
         Typed, TypeOK

\* So does every step.
LEMMA TypedStep == Typed /\ [Next]_vars => Typed' /\ RowsKept
<1> SUFFICES ASSUME Typed, [Next]_vars PROVE Typed' /\ RowsKept
  OBVIOUS
<1>1. CASE UNCHANGED vars
  <2>1. RowsKept /\ RowsOK' /\ out' \in [Rows -> Row \cup {NULL}]
    BY <1>1, RowsSame DEF vars
  <2>2. WorkersOK'
    BY <1>1, <2>1, WorkersSame DEF vars
  <2> QED
    BY <1>1, <2>1, <2>2 DEF vars, Typed, TypeOK
<1>2. ASSUME NEW w \in Workers, Work(w) \/ Crash(w)
      PROVE  Typed' /\ RowsKept
  BY <1>2, TypedTaking, TypedAnswer, TypedEnding DEF Work
<1> QED
  BY <1>1, <1>2, TypedRows, TypedSettings, TypedReminders DEF Next

\* Every variable keeps its type, whatever the interleaving of workers,
\* settings and reminders.
THEOREM TypeCorrect == Spec => []TypeOK
<1>1. Spec => []Typed
  BY TypedInit, TypedStep, PTL DEF Spec
<1> QED
  BY <1>1, PTL DEF Typed

\* A row that is pending has attempts left, and only the last attempt of a
\* temporary error kills it: the number a worker read with its batch is never
\* too old, as far as the limit goes.
THEOREM RetriesCounted == Spec => []RetriesAreCounted
<1>1. Typed => RetriesAreCounted
  BY DEF Typed, RowsOK, RowOK, RetriesAreCounted
<1> QED
  BY <1>1, TypedInit, TypedStep, PTL DEF Spec

(***************************************************************************)
(* What a step may do to a row.                                            *)
(***************************************************************************)

\* A row in hand is let go of by its worker.
LetGo(r) == \E w \in Workers : Holds(w) /\ worker[w].cur = r /\ worker'[w].cur = NULL

\* Only a row that nobody has in hand, or that its worker lets go of, changes
\* its status or its lease, as long as nothing fails.
LEMMA RowSteps ==
  ASSUME Typed, [Next]_vars, NEW r \in Queued
  PROVE  \/ /\ out'[r].status = out[r].status /\ out'[r].holder = out[r].holder
            /\ out'[r].lapsed = out[r].lapsed
         \/ out[r].status = "PROCESSING" /\ out[r].lapsed
         \/ out[r].status \in {"PENDING", "DEAD"}
         \/ LetGo(r)
         \/ out[r].status = "PROCESSING" /\ out'[r].status = "PROCESSING"
            /\ (Orphaned(r) \/ faults' > 0)
<1>1. CASE out'[r] = out[r]
  BY <1>1
<1>2. out[r] \in Row /\ r \in Rows
  BY DEF Typed, TypeOK, Queued
<1>3. ASSUME NEW w \in Workers, Work(w) \/ Crash(w), out'[r] # out[r]
      PROVE  \/ out[r].status = "PROCESSING" /\ out[r].lapsed
             \/ out[r].status \in {"PENDING", "DEAD"}
             \/ LetGo(r)
  <2>1. CASE Reset(w)
    BY <1>2, <1>3, <2>1 DEF Reset
  <2>2. CASE Lock(w)
    BY <1>2, <1>3, <2>2 DEF Lock, Lockable, Typed, TypeOK
  <2>3. CASE Suppress(w) \/ MarkSent(w) \/ RecordFailure(w)
    <3>1. Holds(w) /\ worker[w].cur = r
      BY <1>2, <1>3, <2>3 DEF Suppress, MarkSent, RecordFailure, Typed, TypeOK
    <3>2. worker'[w] = Done(worker[w]) /\ worker[w] \in Worker
      BY <2>3 DEF Suppress, MarkSent, RecordFailure, Typed, TypeOK
    <3>3. worker'[w].cur = NULL
      BY <3>2 DEF Done, Worker
    <3> QED
      BY <3>1, <3>3 DEF LetGo
  <2> QED
    BY <1>3, <2>1, <2>2, <2>3
       DEF Work, Fetch, Authorize, Accept, Reach, AcceptUnheard, Refuse, StatementFails, Crash
<1>4. ASSUME NEW q \in Rows, Enqueue(q) \/ QueueResult(q)
      PROVE  out'[r] = out[r]
  BY <1>2, <1>4 DEF Enqueue, QueueResult, Queued, Typed, TypeOK
<1>5. ASSUME NEW q \in Rows, BackoffOver(q)
      PROVE  /\ out'[r].status = out[r].status /\ out'[r].holder = out[r].holder
             /\ out'[r].lapsed = out[r].lapsed
  BY <1>2, <1>5 DEF BackoffOver, Typed, TypeOK, Row
<1>6. ASSUME NEW q \in Rows, LeaseLapses(q) \/ WorkerStalls(q), out'[r] # out[r]
      PROVE  out[r].status = "PROCESSING" /\ out'[r].status = "PROCESSING"
             /\ (Orphaned(r) \/ faults' > 0)
  <2>1. q = r
    BY <1>2, <1>6 DEF LeaseLapses, WorkerStalls, Typed, TypeOK
  <2>2. out[r].status = "PROCESSING" /\ out'[r] = [out[r] EXCEPT !.lapsed = TRUE]
    BY <1>2, <1>6, <2>1 DEF LeaseLapses, WorkerStalls, Typed, TypeOK
  <2>3. Orphaned(r) \/ faults' > 0
    BY <1>6, <2>1 DEF LeaseLapses, WorkerStalls, Typed, TypeOK
  <2> QED
    BY <1>2, <2>2, <2>3 DEF Row
<1>7. CASE Settings
  <2>1. out'[r] = out[r] \/ out'[r] = [out[r] EXCEPT !.linked = FALSE]
    BY <1>2, <1>7 DEF Settings, SetNotifications, Disconnect, Connect, SetRule, Typed, TypeOK
  <2> QED
    BY <1>2, <2>1 DEF Row
<1>8. ASSUME Reminders, out'[r] # out[r]
      PROVE  out[r].status = "DEAD"
  BY <1>2, <1>8
     DEF Reminders, BeginWatch, CommitWatch, AbandonWatch, Unwatch, StopAll, Draw, Retried
<1> QED
  BY <1>1, <1>3, <1>4, <1>5, <1>6, <1>7, <1>8 DEF Next, vars

\* A row that Telegram has taken and that was marked so is never touched again.
LEMMA SentStays ==
  ASSUME Typed, [Next]_vars, NEW r \in Queued, out[r].status = "SENT"
  PROVE  out'[r].status = "SENT"
  BY RowSteps DEF LetGo, Holds

\* No worker that lost its lease, and no reminder that is turned on again,
\* brings back a row that was sent.
THEOREM SentFinal == Spec => SentIsFinal
<1>1. Typed /\ [Next]_vars => [\A r \in Queued : out[r].status = "SENT" => out'[r].status = "SENT"]_vars
  BY SentStays
<1> QED
  BY <1>1, TypedInit, TypedStep, PTL DEF Spec, SentIsFinal

\* Only MarkSent completes rules: rules of the row in hand, which the worker
\* read from it, and with it.
LEMMA Completion ==
  ASSUME Typed, [Next]_vars, NEW x \in Rules, rule[x] # "COMPLETED", rule'[x] = "COMPLETED"
  PROVE  /\ rule[x] = "ACTIVE"
         /\ \E r \in Queued : /\ x \in out[r].rules
                              /\ out[r].status # "SENT" /\ out'[r].status = "SENT"
<1>1. ASSUME NEW y \in Rules, NEW status \in {"ACTIVE", "PAUSED", "DELETED"}
      PROVE  ~SetRule(y, status)
  BY DEF SetRule, Typed, TypeOK
<1>2. PICK w \in Workers : MarkSent(w)
  BY <1>1 DEF Next, vars, Work, Reset, Fetch, Lock, Authorize, Suppress, Accept,
     AcceptUnheard, Refuse, StatementFails, RecordFailure, Crash, Enqueue, QueueResult,
     BackoffOver, LeaseLapses, WorkerStalls, Settings, SetNotifications, Disconnect,
     Connect, Reminders, BeginWatch, CommitWatch, AbandonWatch, Unwatch, StopAll, Draw
<1>3. /\ Holds(w) /\ x \in worker[w].rules /\ rule[x] = "ACTIVE"
      /\ out' = [out EXCEPT ![worker[w].cur] =
                  [@ EXCEPT !.status = "SENT", !.holder = NULL, !.lapsed = FALSE]]
  BY <1>2 DEF MarkSent, ActiveOf
<1>4. worker[w].cur \in Queued /\ x \in out[worker[w].cur].rules
  BY <1>2, <1>3 DEF Typed, WorkersOK, WorkerOK, MarkSent
<1>5. out'[worker[w].cur].status = "SENT"
  <2>1. out[worker[w].cur] \in Row /\ worker[w].cur \in Rows
    BY <1>4 DEF Typed, TypeOK, Queued
  <2> QED
    BY <1>3, <2>1 DEF Typed, TypeOK, Row
<1> QED
  BY <1>3, <1>4, <1>5 DEF Holds

\* A rule of an invoice completes only when the row that carries it is
\* delivered, and one that was paused or deleted while the worker was sending
\* is left alone.
THEOREM RuleCompletion == Spec => RuleCompletesOnDelivery
<1>1. Typed /\ [Next]_vars =>
        [\A x \in Rules : rule[x] # "COMPLETED" /\ rule'[x] = "COMPLETED" =>
           /\ rule[x] = "ACTIVE"
           /\ \E r \in Queued : /\ x \in out[r].rules
                                /\ out[r].status # "SENT" /\ out'[r].status = "SENT"]_vars
  BY Completion
<1> QED
  BY <1>1, TypedInit, TypedStep, PTL DEF Spec, RuleCompletesOnDelivery

(***************************************************************************)
(* Leases.                                                                 *)
(***************************************************************************)

\* As long as nothing failed, a row in hand is under the lease of its worker,
\* and the lease is younger than five minutes.
Leased(w) ==
  worker[w].cur # NULL => Holds(w) /\ ~out[worker[w].cur].lapsed

Leases == faults = 0 => \A w \in Workers : Leased(w)

\* Faults are only counted up.
LEMMA FaultsGrow ==
  ASSUME Typed, [Next]_vars, faults' = 0
  PROVE  faults = 0
<1>1. faults \in Nat
  BY OutboxAssumption DEF Typed, TypeOK
<1>2. faults' = faults \/ faults' = faults + 1
  BY DEF Next, vars, Work, Reset, Fetch, Lock, Authorize, Suppress, Accept,
     AcceptUnheard, Refuse, MarkSent, StatementFails, RecordFailure, Crash, Enqueue,
     QueueResult, BackoffOver, LeaseLapses, WorkerStalls, Settings, SetNotifications,
     Disconnect, Connect, SetRule, Reminders, BeginWatch, CommitWatch, AbandonWatch,
     Unwatch, StopAll, Draw
<1> QED
  BY <1>1, <1>2

\* A worker gets a row only by locking it.
LEMMA HandSteps ==
  ASSUME Typed, [Next]_vars, NEW w \in Workers, worker'[w].cur # NULL
  PROVE  \/ worker'[w].cur = worker[w].cur
         \/ LET row == out'[worker'[w].cur] IN
              row.status = "PROCESSING" /\ row.holder = w /\ ~row.lapsed
<1>1. CASE worker'[w] = worker[w]
  BY <1>1
<1>2. worker[w] \in Worker /\ worker \in [Workers -> Worker]
  BY DEF Typed, TypeOK
<1>3. ASSUME NEW v \in Workers, Work(v) \/ Crash(v), w # v
      PROVE  worker'[w] = worker[w]
  BY <1>2, <1>3 DEF Work, Reset, Fetch, Lock, Authorize, Suppress, Accept, Reach, AcceptUnheard,
     Refuse, MarkSent, StatementFails, RecordFailure, Crash
<1>4. CASE Lock(w)
  <2>1. PICK r \in worker[w].batch :
          IF Lockable(r)
          THEN /\ out' = [out EXCEPT ![r] =
                    [@ EXCEPT !.status = "PROCESSING", !.holder = w, !.lapsed = FALSE]]
               /\ worker' = [worker EXCEPT ![w] = [@ EXCEPT
                    !.pc = "locked", !.batch = worker[w].batch \ {r}, !.cur = r]]
          ELSE /\ worker' = [worker EXCEPT ![w] = [@ EXCEPT !.batch = worker[w].batch \ {r}]]
               /\ UNCHANGED out
    BY <1>4 DEF Lock
  <2>2. r \in Rows /\ out[r] \in Row
    BY <2>1 DEF Typed, TypeOK, WorkersOK, WorkerOK, Queued
  <2>3. CASE Lockable(r)
    <3>1. out'[r] = [out[r] EXCEPT !.status = "PROCESSING", !.holder = w, !.lapsed = FALSE]
      BY <2>1, <2>2, <2>3 DEF Typed, TypeOK
    <3>2. worker'[w].cur = r
      BY <1>2, <2>1, <2>3 DEF Worker
    <3> QED
      BY <2>2, <3>1, <3>2 DEF Row
  <2>4. CASE ~Lockable(r)
    BY <1>2, <2>1, <2>4 DEF Worker
  <2> QED
    BY <2>3, <2>4
<1>5. CASE Suppress(w) \/ MarkSent(w) \/ RecordFailure(w)
  BY <1>2, <1>5 DEF Suppress, MarkSent, RecordFailure, Done, Worker
<1>6. CASE Crash(w)
  BY <1>2, <1>6 DEF Crash, Idle
<1>7. CASE \/ Reset(w) \/ Fetch(w) \/ Authorize(w) \/ Accept(w) \/ AcceptUnheard(w)
           \/ StatementFails(w) \/ \E error \in Errors : Refuse(w, error)
  <2>1. CASE Reset(w) \/ Accept(w)
    <3>1. PICK pc \in Pcs : worker'[w] = [worker[w] EXCEPT !.pc = pc]
      BY <1>2, <2>1 DEF Reset, Accept, Reach, Pcs
    <3> QED
      BY <1>2, <3>1 DEF Worker
  <2>2. CASE Fetch(w)
    BY <1>2, <2>2 DEF Fetch, Worker
  <2>3. CASE Authorize(w)
    BY <1>2, <2>3 DEF Authorize, Worker
  <2>4. CASE AcceptUnheard(w) \/ StatementFails(w) \/ \E error \in Errors : Refuse(w, error)
    <3>1. PICK error \in Errors :
            worker'[w] = [worker[w] EXCEPT !.pc = "failed", !.error = error]
      BY <1>2, <2>4 DEF AcceptUnheard, StatementFails, Refuse, Errors
    <3> QED
      BY <1>2, <3>1 DEF Worker
  <2> QED
    BY <1>7, <2>1, <2>2, <2>3, <2>4
<1>8. CASE UNCHANGED worker
  BY <1>8
<1> QED
  BY <1>3, <1>4, <1>5, <1>6, <1>7, <1>8
     DEF Next, vars, Work, Enqueue, QueueResult, BackoffOver, LeaseLapses, WorkerStalls,
     Settings, SetNotifications, Disconnect, Connect, SetRule,
     Reminders, BeginWatch, CommitWatch, AbandonWatch, Unwatch, StopAll, Draw

LEMMA LeasesStep == Typed /\ Leases /\ [Next]_vars => Leases'
<1> SUFFICES ASSUME Typed, Leases, [Next]_vars, faults' = 0,
                    NEW w \in Workers, worker'[w].cur # NULL, worker'[w].cur = worker[w].cur
             PROVE  Leased(w)'
  BY HandSteps DEF Leases, Leased, Holds
<1> DEFINE r == worker[w].cur
<1>1. \A v \in Workers : Leased(v)
  BY FaultsGrow DEF Leases
<1>2. /\ r \in Queued /\ out[r].status = "PROCESSING" /\ out[r].holder = w /\ ~out[r].lapsed
  BY <1>1 DEF Leased, Holds, Typed, WorkersOK, WorkerOK
<1>3. ~LetGo(r)
  BY <1>1, <1>2 DEF LetGo, Holds
<1>4. ~Orphaned(r)
  BY DEF Orphaned
<1>5. /\ out'[r].status = out[r].status /\ out'[r].holder = out[r].holder
      /\ out'[r].lapsed = out[r].lapsed
  BY <1>2, <1>3, <1>4, RowSteps
<1> QED
  BY <1>2, <1>5 DEF Leased, Holds

\* The lease: as long as nothing failed, no two workers deliver the same row,
\* for any number of workers and any size of their batches.
THEOREM OneAtATime == Spec => []OneDeliverer
<1>1. Init => Leases
  BY DEF Init, Idle, Leases, Leased
<1>2. Typed /\ Leases => OneDeliverer
  BY DEF Leases, Leased, Holds, OneDeliverer
<1> QED
  BY <1>1, <1>2, LeasesStep, TypedInit, TypedStep, PTL DEF Spec

(***************************************************************************)
(* Messages.                                                               *)
(***************************************************************************)

\* As long as nothing failed, a row Telegram has taken is marked so, or about
\* to be.
TakenOK(r) ==
  /\ r \in Queued
  /\ \/ out[r].status = "SENT"
     \/ \E w \in Workers : worker[w].cur = r /\ worker[w].pc = "accepted"

Taken == faults = 0 => \A r \in reached : TakenOK(r)

\* A worker Telegram has told that it took a message marks the row next.
LEMMA AcceptedSteps ==
  ASSUME Typed, Leases, [Next]_vars, faults' = 0,
         NEW w \in Workers, worker[w].pc = "accepted"
  PROVE  \/ worker'[w] = worker[w]
         \/ out'[worker[w].cur].status = "SENT"
<1>1. worker[w] \in Worker /\ worker \in [Workers -> Worker]
  BY DEF Typed, TypeOK
<1>2. ASSUME NEW v \in Workers, Work(v) \/ Crash(v), w # v
      PROVE  worker'[w] = worker[w]
  BY <1>1, <1>2 DEF Work, Reset, Fetch, Lock, Authorize, Suppress, Accept, Reach, AcceptUnheard,
     Refuse, MarkSent, StatementFails, RecordFailure, Crash
<1>3. CASE MarkSent(w)
  <2>1. worker[w].cur \in Rows /\ out[worker[w].cur] \in Row /\ worker[w].cur # NULL
    BY <1>3 DEF Typed, TypeOK, WorkersOK, WorkerOK, Queued
  <2>2. Holds(w)
    BY <2>1, FaultsGrow DEF Leases, Leased
  <2>3. out' = [out EXCEPT ![worker[w].cur] =
                 [@ EXCEPT !.status = "SENT", !.holder = NULL, !.lapsed = FALSE]]
    BY <1>3, <2>2 DEF MarkSent
  <2> QED
    BY <2>1, <2>3 DEF Typed, TypeOK, Row
<1>4. ~StatementFails(w) /\ ~Crash(w)
  BY OutboxAssumption DEF StatementFails, Crash, Typed, TypeOK
<1>5. CASE Work(w)
  BY <1>3, <1>4, <1>5 DEF Work, Reset, Fetch, Lock, Authorize, Suppress, Accept,
     Reach, AcceptUnheard, Refuse, RecordFailure
<1>6. CASE UNCHANGED worker
  BY <1>6
<1> QED
  BY <1>2, <1>4, <1>5, <1>6
     DEF Next, vars, Enqueue, QueueResult, BackoffOver, LeaseLapses, WorkerStalls,
     Settings, SetNotifications, Disconnect, Connect, SetRule,
     Reminders, BeginWatch, CommitWatch, AbandonWatch, Unwatch, StopAll, Draw

\* Telegram takes a message only in a step of the worker that sends it.
LEMMA ReachedSteps ==
  ASSUME Typed, [Next]_vars, faults' = 0, NEW r \in reached', r \notin reached
  PROVE  \E w \in Workers : Accept(w) /\ worker[w].cur = r
<1>1. \A w \in Workers : ~AcceptUnheard(w)
  BY OutboxAssumption DEF AcceptUnheard, Typed, TypeOK
<1>2. ASSUME NEW w \in Workers, Accept(w) PROVE worker[w].cur = r
  BY <1>2 DEF Accept, Reach
<1> QED
  BY <1>1, <1>2
     DEF Next, vars, Work, Reset, Fetch, Lock, Authorize, Suppress,
     Refuse, MarkSent, StatementFails, RecordFailure, Crash, Enqueue,
     QueueResult, BackoffOver, LeaseLapses, WorkerStalls, Settings, SetNotifications,
     Disconnect, Connect, SetRule, Reminders, BeginWatch, CommitWatch, AbandonWatch,
     Unwatch, StopAll, Draw

LEMMA TakenStep == Typed /\ Leases /\ Taken /\ [Next]_vars => Taken'
<1> SUFFICES ASSUME Typed, Leases, Taken, [Next]_vars, faults' = 0, NEW r \in reached'
             PROVE  TakenOK(r)'
  BY DEF Taken
<1>1. RowsKept
  BY TypedStep
<1>2. CASE r \in reached
  <2>1. TakenOK(r)
    BY <1>2, FaultsGrow DEF Taken
  <2>2. r \in Queued'
    BY <1>1, <2>1 DEF RowsKept, TakenOK
  <2>3. CASE out[r].status = "SENT"
    BY <2>1, <2>2, <2>3, SentStays DEF TakenOK
  <2>4. ASSUME NEW w \in Workers, worker[w].cur = r, worker[w].pc = "accepted"
        PROVE  TakenOK(r)'
    BY <2>2, <2>4, AcceptedSteps DEF TakenOK
  <2> QED
    BY <2>1, <2>3, <2>4 DEF TakenOK
<1>3. CASE r \notin reached
  <2>1. PICK w \in Workers : Accept(w) /\ worker[w].cur = r
    BY <1>3, ReachedSteps
  <2>2. worker[w] \in Worker /\ r \in Queued
    BY <2>1 DEF Accept, Reach, Typed, TypeOK, WorkersOK, WorkerOK
  <2>3. worker'[w].cur = r /\ worker'[w].pc = "accepted"
    BY <2>1, <2>2 DEF Accept, Reach, Worker, Typed, TypeOK
  <2> QED
    BY <1>1, <2>2, <2>3 DEF TakenOK, RowsKept
<1> QED
  BY <1>2, <1>3

\* As long as nothing fails Telegram is given every message once, whatever is
\* retried, turned off and turned on again.
THEOREM OneMessage == Spec => OneMessageWithoutFaults
<1>1. Init => Leases /\ Taken
  BY DEF Init, Idle, Leases, Leased, Taken
<1>2. Typed /\ Leases /\ Taken =>
        \A w \in Workers : Accept(w) /\ worker[w].cur \in reached => faults > 0
  <2> SUFFICES ASSUME Typed, Leases, Taken, NEW w \in Workers, Accept(w),
                      worker[w].cur \in reached, faults = 0
               PROVE  FALSE
    BY OutboxAssumption DEF Typed, TypeOK
  <2>1. worker[w].pc = "send" /\ worker[w].cur # NULL
    BY DEF Accept, Reach, Typed, WorkersOK, WorkerOK
  <2>2. Holds(w)
    BY <2>1 DEF Leases, Leased
  <2>3. PICK v \in Workers : worker[v].cur = worker[w].cur /\ worker[v].pc = "accepted"
    BY <2>2 DEF Taken, TakenOK, Holds
  <2>4. Holds(v)
    BY <2>1, <2>3 DEF Leases, Leased
  <2> QED
    BY <2>1, <2>2, <2>3, <2>4 DEF Holds
<1>3. Typed /\ Leases /\ Taken /\ [Next]_vars =>
        [\A w \in Workers : Accept(w) /\ worker[w].cur \in reached => faults > 0]_vars
  BY <1>2
<1> QED
  BY <1>1, <1>3, LeasesStep, TakenStep, TypedInit, TypedStep, PTL
     DEF Spec, OneMessageWithoutFaults

(***************************************************************************)
(* Reminders.                                                              *)
(***************************************************************************)

\* The giveaways a user follows, with one that is being added.
Following(u, h) == Pending(u) \cup ({watching[h].sub} \ queued)

\* One opt-in of a user is in progress at a time, and there is room for it.
Exclusive == \A h, g \in Handlers :
  watching[h] # NULL /\ watching[g] # NULL /\ h # g =>
    UserOf[watching[h].sub] # UserOf[watching[g].sub]

Reserved == \A h \in Handlers :
  watching[h] # NULL =>
    Cardinality(Following(UserOf[watching[h].sub], h)) <= WatchLimit

WatchInv == WatchLimitKept /\ Exclusive /\ Reserved

\* Fewer giveaways are no more than a limit.
LEMMA Fewer ==
  ASSUME NEW S \in SUBSET Subscriptions, NEW T \in SUBSET S, Cardinality(S) <= WatchLimit
  PROVE  Cardinality(T) <= WatchLimit
<1>1. IsFiniteSet(S)
  BY OutboxAssumption, FS_Subset
<1>2. IsFiniteSet(T) /\ Cardinality(T) <= Cardinality(S)
  BY <1>1, FS_Subset
<1>3. Cardinality(T) \in Nat /\ Cardinality(S) \in Nat
  BY <1>1, <1>2, FS_CardinalityType
<1> QED
  BY <1>2, <1>3, OutboxAssumption

\* What makes no user follow more, and begins no opt-in, keeps the limit.
LEMMA WatchFrame ==
  ASSUME Typed, WatchInv, queued \subseteq queued',
         \A u \in Users : Pending(u)' \subseteq Pending(u),
         \A h \in Handlers : watching'[h] \in {watching[h], NULL}
  PROVE  WatchInv'
<1>1. WatchLimitKept'
  BY Fewer DEF WatchInv, WatchLimitKept, Pending
<1>2. Exclusive'
  BY DEF WatchInv, Exclusive
<1>3. ASSUME NEW h \in Handlers, watching'[h] # NULL
      PROVE  Cardinality(Following(UserOf[watching[h].sub], h)') <= WatchLimit
  <2> DEFINE u == UserOf[watching[h].sub]
  <2>1. watching'[h] = watching[h] /\ watching[h].sub \in Subscriptions /\ u \in Users
    BY <1>3, OutboxAssumption DEF Typed, TypeOK
  <2>2. Following(u, h) \subseteq Subscriptions /\ Following(u, h)' \subseteq Following(u, h)
    BY <2>1 DEF Following, Pending
  <2>3. Cardinality(Following(u, h)) <= WatchLimit
    BY <1>3, <2>1 DEF WatchInv, Reserved
  <2> QED
    BY <2>2, <2>3, Fewer
<1> QED
  BY <1>1, <1>2, <1>3 DEF WatchInv, Reserved

\* An opt-in reserves room for its giveaway, under the lock of its user.
LEMMA BeginKeepsLimit ==
  ASSUME Typed, WatchInv, NEW h \in Handlers, NEW s \in Subscriptions, BeginWatch(h, s)
  PROVE  WatchInv'
<1> DEFINE u == UserOf[s]
<1>1. \A v : Pending(v)' = Pending(v)
  BY DEF BeginWatch, Pending
<1>2. WatchLimitKept'
  BY <1>1 DEF WatchInv, WatchLimitKept
<1>3. /\ watching'[h] # NULL /\ watching'[h].sub = s
      /\ \A g \in Handlers \ {h} : watching'[g] = watching[g]
  <2>1. [sub |-> s, retry |-> sub[s] = "revoked" /\ s \in queued]
          \in [sub : Subscriptions, retry : BOOLEAN]
    OBVIOUS
  <2> QED
    BY <2>1, OutboxAssumption DEF BeginWatch, Typed, TypeOK
<1>4. Exclusive'
  BY <1>3 DEF WatchInv, Exclusive, BeginWatch, WatchFree
<1>5. Cardinality(Pending(u) \cup ({s} \ queued)) <= WatchLimit
  <2>1. u \in Users /\ Cardinality(Pending(u)) <= WatchLimit
    BY OutboxAssumption DEF WatchInv, WatchLimitKept
  <2>2. CASE sub[s] = "active" \/ s \in queued
    <3>1. Pending(u) \cup ({s} \ queued) = Pending(u)
      BY <2>2 DEF Pending
    <3> QED
      BY <2>1, <3>1
  <2>3. CASE sub[s] # "active" /\ s \notin queued
    <3>1. Cardinality(Pending(u)) < WatchLimit /\ s \notin Pending(u)
      BY <2>3 DEF BeginWatch, Pending
    <3>2. IsFiniteSet(Pending(u))
      BY OutboxAssumption, FS_Subset DEF Pending
    <3>3. Cardinality(Pending(u)) \in Nat
      BY <3>2, FS_CardinalityType
    <3>4. Cardinality(Pending(u) \cup {s}) = Cardinality(Pending(u)) + 1
      BY <3>1, <3>2, FS_AddElement
    <3>5. Pending(u) \cup ({s} \ queued) = Pending(u) \cup {s}
      BY <2>3
    <3>6. WatchLimit \in Nat
      BY OutboxAssumption
    <3>7. Cardinality(Pending(u)) + 1 <= WatchLimit
      BY <3>1, <3>3, <3>6
    <3> QED
      BY <3>4, <3>5, <3>7
  <2> QED
    BY <2>2, <2>3
<1>6. Reserved'
  <2> SUFFICES ASSUME NEW g \in Handlers, watching'[g] # NULL
               PROVE  Cardinality(Following(UserOf[watching[g].sub], g)') <= WatchLimit
    BY DEF Reserved
  <2>1. queued' = queued
    BY DEF BeginWatch
  <2>2. CASE g = h
    <3>1. Following(UserOf[watching[g].sub], g)' = Pending(u) \cup ({s} \ queued)
      BY <1>1, <1>3, <2>1, <2>2 DEF Following
    <3> QED
      BY <1>5, <3>1
  <2>3. CASE g # h
    <3>1. Following(UserOf[watching[g].sub], g)' = Following(UserOf[watching[g].sub], g)
      BY <1>1, <1>3, <2>1, <2>3 DEF Following
    <3> QED
      BY <1>3, <2>3, <3>1 DEF WatchInv, Reserved
  <2> QED
    BY <2>2, <2>3
<1> QED
  BY <1>2, <1>4, <1>6 DEF WatchInv

\* The writes take the room that was reserved.
LEMMA CommitKeepsLimit ==
  ASSUME Typed, WatchInv, NEW h \in Handlers, CommitWatch(h)
  PROVE  WatchInv'
<1>1. PICK s \in Subscriptions, u \in Users :
        watching[h] # NULL /\ s = watching[h].sub /\ u = UserOf[s]
  BY OutboxAssumption DEF CommitWatch, Typed, TypeOK
<1>2. /\ queued' = queued /\ watching'[h] = NULL
      /\ \A g \in Handlers \ {h} : watching'[g] = watching[g]
      /\ sub'[s] = "active" /\ \A t \in Subscriptions \ {s} : sub'[t] = sub[t]
  BY <1>1 DEF CommitWatch, Typed, TypeOK
<1>3. Pending(u)' \subseteq Following(u, h)
  <2> SUFFICES ASSUME NEW t \in Pending(u)', t # s PROVE t \in Pending(u)
    BY <1>1, <1>2 DEF Pending, Following
  <2> QED
    BY <1>2 DEF Pending
<1>4. \A v : v # u => Pending(v)' = Pending(v)
  BY <1>1, <1>2 DEF Pending
<1>5. WatchLimitKept'
  <2>1. Cardinality(Following(u, h)) <= WatchLimit /\ Following(u, h) \subseteq Subscriptions
    BY <1>1 DEF WatchInv, Reserved, Following, Pending
  <2>2. Cardinality(Pending(u)') <= WatchLimit
    BY <1>3, <2>1, Fewer
  <2>3. ASSUME NEW v \in Users, v # u PROVE Cardinality(Pending(v)') <= WatchLimit
    <3>1. Pending(v)' = Pending(v)
      BY <1>4, <2>3
    <3> QED
      BY <3>1 DEF WatchInv, WatchLimitKept
  <2> QED
    BY <2>2, <2>3 DEF WatchLimitKept
<1>6. Exclusive'
  BY <1>2 DEF WatchInv, Exclusive
<1>7. Reserved'
  <2> SUFFICES ASSUME NEW g \in Handlers, watching'[g] # NULL
               PROVE  Cardinality(Following(UserOf[watching[g].sub], g)') <= WatchLimit
    BY DEF Reserved
  <2>1. g # h /\ watching'[g] = watching[g] /\ UserOf[watching[g].sub] # u
    BY <1>1, <1>2 DEF WatchInv, Exclusive
  <2>2. Following(UserOf[watching[g].sub], g)' = Following(UserOf[watching[g].sub], g)
    BY <1>2, <1>4, <2>1 DEF Following
  <2> QED
    BY <2>1, <2>2 DEF WatchInv, Reserved
<1> QED
  BY <1>5, <1>6, <1>7 DEF WatchInv

LEMMA LimitStep == Typed /\ WatchInv /\ [Next]_vars => WatchInv'
<1> SUFFICES ASSUME Typed, WatchInv, [Next]_vars PROVE WatchInv'
  OBVIOUS
<1>1. CASE sub' = sub /\ queued' = queued /\ watching' = watching
  BY <1>1, WatchFrame DEF Pending
<1>2. ASSUME NEW w \in Workers, RecordFailure(w)
      PROVE  WatchInv'
  <2>1. \A t \in Subscriptions : sub'[t] = "active" => sub[t] = "active"
    BY <1>2 DEF RecordFailure, Typed, TypeOK
  <2> QED
    BY <1>2, <2>1, WatchFrame DEF RecordFailure, Pending
<1>3. ASSUME NEW r \in Rows, QueueResult(r)
      PROVE  WatchInv'
  <2>1. sub' = sub /\ watching' = watching /\ queued \subseteq queued'
    BY <1>3 DEF QueueResult
  <2> QED
    BY <2>1, WatchFrame DEF Pending
<1>4. ASSUME NEW h \in Handlers, AbandonWatch(h)
      PROVE  WatchInv'
  <2>1. /\ sub' = sub /\ queued' = queued
        /\ \A g \in Handlers : watching'[g] \in {watching[g], NULL}
    BY <1>4 DEF AbandonWatch, Typed, TypeOK
  <2> QED
    BY <2>1, WatchFrame DEF Pending
<1>5. CASE \/ \E s \in Subscriptions : Unwatch(s)
           \/ \E u \in Users : StopAll(u)
  <2>1. \A t \in Subscriptions : sub'[t] = "active" => sub[t] = "active"
    BY <1>5 DEF Unwatch, StopAll, Typed, TypeOK
  <2>2. queued' = queued /\ watching' = watching
    BY <1>5 DEF Unwatch, StopAll
  <2> QED
    BY <2>1, <2>2, WatchFrame DEF Pending
<1> QED
  BY <1>1, <1>2, <1>3, <1>4, <1>5, BeginKeepsLimit, CommitKeepsLimit
     DEF Next, vars, Work, Reset, Fetch, Lock, Authorize, Suppress, Accept,
     AcceptUnheard, Refuse, MarkSent, StatementFails, Crash, Enqueue,
     BackoffOver, LeaseLapses, WorkerStalls, Settings, SetNotifications,
     Disconnect, Connect, SetRule, Reminders, Draw

\* The advisory lock: no interleaving of opt-ins, opt-outs and deliveries lets a
\* user follow more giveaways than the limit, for any limit.
THEOREM LimitKept == Spec => []WatchLimitKept
<1>1. Init => WatchInv
  <2> SUFFICES ASSUME Init PROVE WatchInv
    OBVIOUS
  <2>1. \A u \in Users : Pending(u) = {}
    BY DEF Init, Pending
  <2>2. WatchLimitKept
    <3>1. Cardinality({}) = 0 /\ WatchLimit \in Nat
      BY FS_EmptySet, OutboxAssumption
    <3>2. Cardinality({}) <= WatchLimit
      BY <3>1
    <3> QED
      BY <2>1, <3>2 DEF WatchLimitKept
  <2> QED
    BY <2>2 DEF Init, WatchInv, Exclusive, Reserved
<1>2. WatchInv => WatchLimitKept
  BY DEF WatchInv
<1> QED
  BY <1>1, <1>2, LimitStep, TypedInit, TypedStep, PTL DEF Spec
(***************************************************************************)
(* Opting out.                                                             *)
(***************************************************************************)

\* A message gets on its way only by the read of the settings.
LEMMA SendSteps ==
  ASSUME Typed, [Next]_vars, NEW w \in Workers, worker'[w].pc = "send"
  PROVE  \/ worker'[w] = worker[w]
         \/ Authorized(worker[w].cur) /\ worker'[w].cur = worker[w].cur /\ late' = late
<1>1. worker \in [Workers -> Worker]
  BY DEF Typed, TypeOK
<1>2. ASSUME NEW v \in Workers, Work(v) \/ Crash(v), w # v
      PROVE  worker'[w] = worker[w]
  BY <1>1, <1>2 DEF Work, Reset, Fetch, Lock, Authorize, Suppress, Accept, AcceptUnheard,
     Refuse, MarkSent, StatementFails, RecordFailure, Crash
<1>3. CASE Authorize(w)
  <2>1. worker'[w] = [worker[w] EXCEPT
          !.pc = IF Authorized(worker[w].cur) THEN "send" ELSE "suppress",
          !.rules = IF Authorized(worker[w].cur) THEN ActiveOf(out[worker[w].cur].rules) ELSE {}]
    BY <1>1, <1>3 DEF Authorize
  <2> QED
    BY <1>1, <1>3, <2>1 DEF Authorize, Worker
<1>4. ~Crash(w)
  BY <1>1 DEF Crash, Idle
<1>5. CASE Reset(w) \/ Fetch(w)
  BY <1>1, <1>5 DEF Reset, Fetch, Worker
<1>6. CASE Lock(w)
  <2>1. PICK r \in worker[w].batch :
          \/ worker'[w] = [worker[w] EXCEPT !.pc = "locked", !.batch = worker[w].batch \ {r},
                                            !.cur = r]
          \/ worker'[w] = [worker[w] EXCEPT !.batch = worker[w].batch \ {r}]
    BY <1>1, <1>6 DEF Lock
  <2> QED
    BY <1>1, <1>6, <2>1 DEF Lock, Worker
<1>7. ~(Suppress(w) \/ MarkSent(w) \/ RecordFailure(w))
  BY <1>1 DEF Suppress, MarkSent, RecordFailure, Done, Worker
<1>8. ~(Accept(w) \/ AcceptUnheard(w) \/ StatementFails(w) \/ \E error \in Errors : Refuse(w, error))
  BY <1>1 DEF Accept, AcceptUnheard, StatementFails, Refuse, Worker
<1>9. CASE worker' = worker
  BY <1>9
<1> QED
  BY <1>2, <1>3, <1>4, <1>5, <1>6, <1>7, <1>8, <1>9
     DEF Next, Work, vars, Enqueue, QueueResult, BackoffOver, LeaseLapses, WorkerStalls,
         Settings, SetNotifications, Disconnect, Connect, SetRule, Reminders, BeginWatch,
         CommitWatch, AbandonWatch, Unwatch, Draw, StopAll

\* What the history notes in a step: a message to a shut chat, by the worker
\* that had it on its way.
LEMMA LateSteps ==
  ASSUME Typed, [Next]_vars, NEW x \in late', x \notin late
  PROVE  \E w \in Workers : /\ x = <<w, ChatOf[worker[w].cur]>> /\ ~Open(x[2])
                            /\ UNCHANGED <<sub, conn>> /\ worker'[w].pc # "send"
<1>1. PICK w \in Workers : Accept(w) \/ AcceptUnheard(w)
  BY DEF Next, vars, Work, Reset, Fetch, Lock, Authorize, Suppress,
     Refuse, MarkSent, StatementFails, RecordFailure, Crash, Enqueue,
     QueueResult, BackoffOver, LeaseLapses, WorkerStalls, Settings, SetNotifications,
     Disconnect, Connect, SetRule, Reminders, BeginWatch, CommitWatch, AbandonWatch,
     Unwatch, StopAll, Draw, Forget
<1>2. worker'[w].pc # "send"
  BY <1>1 DEF Accept, AcceptUnheard, Typed, TypeOK, Worker
<1>3. x = <<w, ChatOf[worker[w].cur]>> /\ ~Open(ChatOf[worker[w].cur])
  BY <1>1 DEF Accept, AcceptUnheard, Reach
<1> QED
  BY <1>1, <1>2, <1>3 DEF Accept, AcceptUnheard

\* A chat that opens is one of which the history forgets what it noted.
LEMMA OpenSteps ==
  ASSUME Typed, [Next]_vars, NEW c \in Connections \cup Subscriptions, ~Open(c), Open(c)'
  PROVE  late' = Forget(c)
<1>1. Connections \cap Subscriptions = {}
  BY OutboxAssumption
<1>2. CASE c \in Subscriptions
  <2>1. sub[c] # "active" /\ sub'[c] = "active"
    BY <1>2 DEF Open
  <2>2. PICK h \in Handlers : CommitWatch(h)
    BY <1>2, <2>1 DEF Typed, TypeOK, Next, vars, Work, Reset, Fetch, Lock, Authorize, Suppress,
       Accept, AcceptUnheard, Refuse, MarkSent, StatementFails, RecordFailure, Crash, Enqueue,
       QueueResult, BackoffOver, LeaseLapses, WorkerStalls, Settings, SetNotifications,
       Disconnect, Connect, SetRule, Reminders, BeginWatch, AbandonWatch,
       Unwatch, StopAll, Draw
  <2>3. watching[h].sub = c
    BY <2>1, <2>2, <1>2 DEF CommitWatch, Typed, TypeOK
  <2> QED
    BY <2>2, <2>3 DEF CommitWatch
<1>3. CASE c \in Connections
  <2>1. ~Reachable(c) /\ Reachable(c)'
    BY <1>1, <1>3 DEF Open
  <2>2. conn'[c] # NULL /\ ~conn'[c].blocked /\ (conn[c] = NULL \/ conn[c].blocked)
    BY <2>1 DEF Reachable
  <2>3. ASSUME NEW w \in Workers, RecordFailure(w) PROVE FALSE
    <3>1. conn'[c] \in {conn[c], [blocked |-> TRUE, enabled |-> FALSE]}
      BY <2>3, <1>3 DEF RecordFailure
    <3> QED
      BY <2>2, <3>1
  <2>4. ASSUME NEW d \in Connections, Disconnect(d) \/ \E e \in BOOLEAN : SetNotifications(d, e)
        PROVE  FALSE
    <3>1. CASE Disconnect(d)
      BY <2>2, <3>1, <1>3 DEF Disconnect, Typed, TypeOK
    <3>2. ASSUME NEW e \in BOOLEAN, SetNotifications(d, e) PROVE FALSE
      <4>1. conn'[c] = conn[c] \/ (c = d /\ conn'[c] = [conn[c] EXCEPT !.enabled = e])
        BY <3>2, <1>3 DEF SetNotifications, Typed, TypeOK
      <4>2. conn[c] # NULL => conn[c] \in [blocked : BOOLEAN, enabled : BOOLEAN]
        BY <1>3 DEF Typed, TypeOK
      <4> QED
        BY <2>2, <3>2, <4>1, <4>2 DEF SetNotifications
    <3> QED
      BY <2>4, <3>1, <3>2
  <2>5. PICK d \in Connections : Connect(d)
    BY <2>2, <2>3, <2>4 DEF Next, vars, Work, Reset, Fetch, Lock, Authorize, Suppress,
       Accept, AcceptUnheard, Refuse, MarkSent, StatementFails, Crash, Enqueue,
       QueueResult, BackoffOver, LeaseLapses, WorkerStalls, Settings, SetRule,
       Reminders, BeginWatch, CommitWatch, AbandonWatch, Unwatch, StopAll, Draw
  <2>6. c = d
    BY <2>2, <2>5, <1>3 DEF Connect, Typed, TypeOK
  <2> QED
    BY <2>5, <2>6 DEF Connect
<1> QED
  BY <1>2, <1>3

\* The history is of chats that are shut, and a worker that is noted there has no
\* other message on its way to that chat.
LateInv ==
  /\ \A x \in late : ~Open(x[2])
  /\ \A w \in Workers : worker[w].pc = "send" => <<w, ChatOf[worker[w].cur]>> \notin late

LEMMA LateStep == Typed /\ LateInv /\ [Next]_vars => LateInv'
<1> SUFFICES ASSUME Typed, LateInv, [Next]_vars PROVE LateInv'
  OBVIOUS
<1>1. late \subseteq Workers \X (Connections \cup Subscriptions)
  BY DEF Typed, TypeOK
<1>2. ASSUME NEW x \in late' PROVE ~Open(x[2])'
  <2>1. CASE x \in late
    <3>1. x[2] \in Connections \cup Subscriptions /\ ~Open(x[2])
      BY <1>1, <2>1 DEF LateInv
    <3>2. Open(x[2])' => late' = Forget(x[2])
      BY <3>1, OpenSteps
    <3> QED
      BY <1>2, <3>2 DEF Forget
  <2>2. CASE x \notin late
    <3>1. ~Open(x[2]) /\ UNCHANGED <<sub, conn>>
      BY <1>2, <2>2, LateSteps
    <3> QED
      BY <3>1 DEF Open, Reachable
  <2> QED
    BY <2>1, <2>2
<1>3. ASSUME NEW w \in Workers, worker'[w].pc = "send",
             <<w, ChatOf[worker'[w].cur]>> \in late'
      PROVE  FALSE
  <2> DEFINE x == <<w, ChatOf[worker'[w].cur]>>
  <2>1. x \in late
    <3>1. CASE x \notin late
      <4>1. PICK v \in Workers : x = <<v, ChatOf[worker[v].cur]>> /\ worker'[v].pc # "send"
        BY <1>3, <3>1, LateSteps
      <4> QED
        BY <1>3, <4>1
    <3> QED
      BY <3>1
  <2>2. CASE worker'[w] = worker[w]
    BY <1>3, <2>1, <2>2 DEF LateInv
  <2>3. CASE Authorized(worker[w].cur) /\ worker'[w].cur = worker[w].cur /\ worker'[w] # worker[w]
    <3>1. worker[w].cur \in Rows
      <4>1. worker'[w] \in Worker /\ WorkerOK(w)'
        BY TypedStep DEF Typed, TypeOK, WorkersOK
      <4>2. worker'[w].cur # NULL /\ worker'[w].cur \in Rows \cup {NULL}
        BY <1>3, <4>1 DEF WorkerOK, Worker
      <4> QED
        BY <2>3, <4>2
    <3>2. /\ KindOf[worker[w].cur] \in {"payment", "claimable", "result"}
          /\ KindOf[worker[w].cur] = "result" <=> ChatOf[worker[w].cur] \in Subscriptions
      BY <3>1, OutboxAssumption
    <3>3. Open(ChatOf[worker[w].cur])
      BY <2>3, <3>2 DEF Authorized, Open
    <3> QED
      BY <2>1, <2>3, <3>3 DEF LateInv
  <2> QED
    BY <1>3, <2>2, <2>3, SendSteps
<1> QED
  BY <1>2, <1>3 DEF LateInv

\* Since a chat was shut no worker gets more than one message through to it,
\* however many rows it had read and however long ago.
THEOREM ShutChatSpared == Spec => ShutChatGetsOneMore
<1> DEFINE Spared == \A w \in Workers :
       Accept(w) \/ AcceptUnheard(w) =>
         LET c == ChatOf[worker[w].cur] IN ~Open(c) => <<w, c>> \notin late
<1>1. LateInv => Spared
  BY DEF LateInv, Accept, AcceptUnheard, Reach
<1> HIDE DEF Spared
<1>2. Init => LateInv
  BY DEF Init, LateInv, Idle
<1>3. Spec => []LateInv
  BY TypedInit, TypedStep, <1>2, LateStep, PTL DEF Spec
<1>4. Spec => [][Spared]_vars
  BY <1>1, <1>3, PTL
<1> QED
  BY <1>4 DEF Spared, ShutChatGetsOneMore

=============================================================================
