------------------------ MODULE TelegramAgentProofs ------------------------
(***************************************************************************)
(* The Telegram webhook for any number of updates, drafts and requests.    *)
(***************************************************************************)
EXTENDS TelegramAgent, FiniteSetTheorems, TLAPS

\* What a request under way knows: its update, which Telegram has delivered,
\* and what the statements ahead of it need.
Fit(h) ==
  /\ handler[h].pc # "idle" =>
       /\ handler[h].update \in Updates
       /\ post[handler[h].update] # "unsent"
  /\ handler[h].pc \in {"claim", "look", "insert"} => handler[h].owner \in Owners
  /\ handler[h].pc \in {"claim", "confirm", "undo"} => Kind(h) = "confirm"
  /\ handler[h].pc \in Executing => Kind(h) \in {"link", "confirm"}
  /\ handler[h].pc \in {"claim"} \cup Executing /\ Kind(h) = "confirm" => handler[h].draft \in Drafts
  /\ handler[h].pc = "interpret" => handler[h].month \in Months

Typed ==
  /\ TypeOK
  /\ \A u \in Updates : post[u] # "unsent" => sent[u] \in Messages
  /\ \A h \in Handlers : Fit(h)

\* Handler h goes on as r, which may be what an error makes of it.
LEMMA ThrowTyped ==
  ASSUME Typed, NEW h \in Handlers, handler[h].pc # "idle",
         NEW ending \in {"permanent", "temporary"}, Throw(h, ending),
         UNCHANGED <<sent, post>>
  PROVE  /\ handler' \in [Handlers -> Requests]
         /\ \A g \in Handlers : Fit(g)'
  <1> DEFINE lost == [To(h, "undo") EXCEPT !.ending = ending]
             freed == [Idle EXCEPT !.pc = "free", !.update = handler[h].update, !.ending = ending]
  <1>0. handler \in [Handlers -> Requests] /\ handler[h] \in Requests /\ Fit(h)
    BY DEF Typed, TypeOK
  <1>1. lost \in Requests /\ lost.pc = "undo" /\ lost.update = handler[h].update /\ lost.draft = handler[h].draft
    BY <1>0 DEF Requests, Steps, Executing, To
  <1>2. freed \in Requests /\ freed.pc = "free" /\ freed.update = handler[h].update
    BY <1>0 DEF Requests, Steps, Idle, Fit
  <1>3. CASE Kind(h) = "confirm" /\ handler[h].pc \in Executing \ {"undo"}
    <2>1. handler' = [handler EXCEPT ![h] = lost]
      BY <1>3 DEF Throw, Go
    <2> HIDE DEF lost
    <2> QED
      BY <2>1, <1>0, <1>1, <1>3 DEF Typed, Fit, Kind, Executing
  <1>4. CASE ~(Kind(h) = "confirm" /\ handler[h].pc \in Executing \ {"undo"})
    <2>1. handler' = [handler EXCEPT ![h] = freed]
      BY <1>4 DEF Throw, Go
    <2> HIDE DEF freed
    <2> QED
      BY <2>1, <1>0, <1>2, <1>4 DEF Typed, Fit, Kind, Executing
  <1> QED
    BY <1>3, <1>4

\* Handler h goes on as r, which has what its next statement needs.
LEMMA GoTyped ==
  ASSUME Typed, NEW h \in Handlers, NEW r \in Requests, Go(h, r),
         handler[h].pc # "idle", UNCHANGED <<sent, post>>, r.update = handler[h].update,
         r.pc \in {"claim", "look", "insert"} => r.owner \in Owners,
         r.pc \in {"claim", "confirm", "undo"} => Kind(h) = "confirm",
         r.pc \in Executing => Kind(h) \in {"link", "confirm"},
         r.pc \in {"claim"} \cup Executing /\ Kind(h) = "confirm" => r.draft \in Drafts,
         r.pc = "interpret" => r.month \in Months
  PROVE  /\ handler' \in [Handlers -> Requests]
         /\ \A g \in Handlers : Fit(g)'
  <1>1. handler \in [Handlers -> Requests] /\ handler' = [handler EXCEPT ![h] = r] /\ Fit(h)
    BY DEF Typed, TypeOK, Go
  <1>2. ASSUME NEW g \in Handlers, g # h
        PROVE  Fit(g)'
    BY <1>1, <1>2 DEF Typed, Fit, Kind
  <1>3. Fit(h)'
    BY <1>1 DEF Fit, Kind
  <1> QED
    BY <1>1, <1>2, <1>3

\* A write of handler h, whose answer may be lost.
LEMMA WrittenTyped ==
  ASSUME Typed, NEW h \in Handlers, NEW r \in Requests, Written(h, r),
         handler[h].pc # "idle", UNCHANGED <<sent, post>>, r.update = handler[h].update,
         r.pc \in {"claim", "look", "insert"} => r.owner \in Owners,
         r.pc \in {"claim", "confirm", "undo"} => Kind(h) = "confirm",
         r.pc \in Executing => Kind(h) \in {"link", "confirm"},
         r.pc \in {"claim"} \cup Executing /\ Kind(h) = "confirm" => r.draft \in Drafts,
         r.pc = "interpret" => r.month \in Months
  PROVE  /\ handler' \in [Handlers -> Requests]
         /\ faults' \in 0..MaxFaults
         /\ \A g \in Handlers : Fit(g)'
  <1>1. CASE Go(h, r) /\ UNCHANGED faults
    BY <1>1, GoTyped DEF Typed, TypeOK
  <1>2. CASE Throw(h, "temporary") /\ faults < MaxFaults /\ faults' = faults + 1
    <2>1. faults' \in 0..MaxFaults
      BY <1>2, TelegramAssumption DEF Typed, TypeOK, TelegramAssumption
    <2> QED
      BY <1>2, <2>1, ThrowTyped
  <1> QED
    BY <1>1, <1>2 DEF Written

\* The records a handler goes on as.
LEMMA Records ==
  ASSUME Typed, NEW h \in Handlers, handler[h].pc # "idle"
  PROVE  /\ handler[h] \in Requests /\ handler[h].update \in Updates
         /\ \A pc \in Steps : /\ To(h, pc) \in Requests
                              /\ To(h, pc).pc = pc /\ To(h, pc).update = handler[h].update
                              /\ To(h, pc).owner = handler[h].owner /\ To(h, pc).draft = handler[h].draft
         /\ \A d \in Drafts \cup {0} : /\ Replying(h, d) \in Requests
                                       /\ Replying(h, d).pc = "reply" /\ Replying(h, d).update = handler[h].update
         /\ Idle \in Requests /\ Idle.pc = "idle"
  <1>1. handler[h] \in Requests /\ Fit(h)
    BY DEF Typed, TypeOK
  <1>2. handler[h].update \in Updates
    BY <1>1 DEF Fit
  <1>3. Idle \in Requests /\ Idle.pc = "idle"
    BY DEF Idle, Requests, Steps
  <1>4. ASSUME NEW pc \in Steps
        PROVE  /\ To(h, pc) \in Requests
               /\ To(h, pc).pc = pc /\ To(h, pc).update = handler[h].update
               /\ To(h, pc).owner = handler[h].owner /\ To(h, pc).draft = handler[h].draft
    BY <1>1 DEF To, Requests
  <1>5. ASSUME NEW d \in Drafts \cup {0}
        PROVE  /\ Replying(h, d) \in Requests
               /\ Replying(h, d).pc = "reply" /\ Replying(h, d).update = handler[h].update
    BY <1>2 DEF Replying, Idle, Requests, Steps
  <1> QED
    BY <1>1, <1>2, <1>3, <1>4, <1>5

\* Handler h goes on to its reply.
LEMMA ReplyingTyped ==
  ASSUME Typed, NEW h \in Handlers, NEW d \in Drafts \cup {0}, Go(h, Replying(h, d)),
         handler[h].pc # "idle", UNCHANGED <<sent, post>>
  PROVE  /\ handler' \in [Handlers -> Requests]
         /\ \A g \in Handlers : Fit(g)'
  <1>1. /\ Replying(h, d) \in Requests /\ Replying(h, d).pc = "reply"
        /\ Replying(h, d).update = handler[h].update
    BY Records
  <1>2. "reply" \notin Executing
    BY DEF Executing
  <1> QED
    BY <1>1, <1>2, GoTyped

LEMMA InitTyped ==
  ASSUME Init
  PROVE  Typed
  <1>1. Idle \in Requests
    BY DEF Idle, Requests, Steps
  <1>2. NoDraft \in DraftRows
    BY DEF NoDraft, DraftRows, Makes
  <1>3. 1 \in Months
    BY TelegramAssumption DEF TelegramAssumption, Months
  <1>4. made \in [Updates \cup Drafts -> Seq(Owners)]
    BY DEF Init
  <1>5. faults \in 0..MaxFaults /\ broken \subseteq Updates
    BY TelegramAssumption DEF TelegramAssumption, Init
  <1>6. /\ sent \in [Updates -> Messages \cup {Nothing}]
        /\ post \in [Updates -> {"unsent", "due", "answered"} \cup Handlers]
        /\ row \in [Updates -> {"none", "free", "held", "done"}]
        /\ connection \in Owners \cup {NULL}
        /\ usage \in [Months -> Int] /\ spent \in [Months -> Nat] /\ month \in Months
    BY <1>3 DEF Init
  <1>7. handler \in [Handlers -> Requests] /\ draft \in [Drafts -> DraftRows]
    BY <1>1, <1>2 DEF Init
  <1>8. \A h \in Handlers : Fit(h)
    BY DEF Init, Idle, Fit, Executing
  <1> QED
    BY <1>4, <1>5, <1>6, <1>7, <1>8 DEF Typed, TypeOK, Init

\* What the user, Telegram, time and the daily job do.
Elsewhere ==
  \/ \E u \in Updates, message \in Messages : Send(u, message)
  \/ \E u \in Updates : HangUp(u)
  \/ \E c \in Owners : Connect(c)
  \/ \E d \in Drafts : Expire(d) \/ GiveUp(d)
  \/ Disconnect \/ NextMonth

\* A draft with another status is a draft.
LEMMA StatusTyped ==
  ASSUME TypeOK, NEW d \in Drafts,
         NEW status \in {"none", "pending", "executing", "confirmed", "failed", "expired"}
  PROVE  [draft EXCEPT ![d].status = status] \in [Drafts -> DraftRows]
  <1>1. draft \in [Drafts -> DraftRows] /\ draft[d] \in DraftRows
    BY DEF TypeOK
  <1>2. [draft[d] EXCEPT !.status = status] \in DraftRows
    BY <1>1 DEF DraftRows
  <1> QED
    BY <1>1, <1>2

LEMMA ElsewhereTyped ==
  ASSUME Typed, Elsewhere
  PROVE  Typed'
  <1> USE DEF Typed, TypeOK
  <1>1. ASSUME NEW u \in Updates, NEW message \in Messages, Send(u, message)
        PROVE  Typed'
    <2>1. \A h \in Handlers : handler[h].pc # "idle" => handler[h].update # u
      BY <1>1 DEF Send, Fit
    <2>2. \A h \in Handlers : Fit(h)'
      BY <1>1, <2>1 DEF Send, Fit, Kind, Executing
    <2> QED
      BY <1>1, <2>2 DEF Send, store
  <1>2. ASSUME NEW u \in Updates, HangUp(u)
        PROVE  Typed'
    <2>1. \A h \in Handlers : Fit(h)'
      BY <1>2 DEF HangUp, Fit, Kind, Executing
    <2>2. faults' \in 0..MaxFaults
      BY <1>2, TelegramAssumption DEF HangUp, TelegramAssumption
    <2>3. post[u] # "unsent"
      BY <1>2, TelegramAssumption DEF HangUp, TelegramAssumption
    <2> QED
      BY <1>2, <2>1, <2>2, <2>3 DEF HangUp, store
  <1>3. ASSUME NEW c \in Owners, Connect(c)
        PROVE  Typed'
    BY <1>3 DEF Connect, Fit, Kind
  <1>4. ASSUME NEW d \in Drafts, Expire(d) \/ GiveUp(d)
        PROVE  Typed'
    <2>1. draft' \in [Drafts -> DraftRows]
      <3>1. /\ [draft EXCEPT ![d].status = "expired"] \in [Drafts -> DraftRows]
            /\ [draft EXCEPT ![d].status = "failed"] \in [Drafts -> DraftRows]
        BY StatusTyped
      <3> QED
        BY <1>4, <3>1 DEF Expire, GiveUp
    <2> QED
      BY <1>4, <2>1 DEF Expire, GiveUp, Fit, Kind
  <1>5. CASE Disconnect
    BY <1>5 DEF Disconnect, Fit, Kind
  <1>6. CASE NextMonth
    <2>1. month' \in Months
      BY <1>6, TelegramAssumption DEF NextMonth, Months, TelegramAssumption
    <2> QED
      BY <1>6, <2>1 DEF NextMonth, Fit, Kind
  <1> QED
    BY <1>1, <1>2, <1>3, <1>4, <1>5, <1>6 DEF Elsewhere

LEMMA DeliverTyped ==
  ASSUME Typed, NEW u \in Updates, NEW expired \in BOOLEAN, Deliver(u, expired)
  PROVE  Typed'
  <1> USE DEF Typed, TypeOK
  <1>1. CASE ~Takes(u, expired)
    BY <1>1 DEF Deliver, Fit, Kind, store
  <1>2. CASE Takes(u, expired)
    <2> DEFINE h == CHOOSE g \in Handlers : handler[g].pc = "idle"
               r == [Idle EXCEPT !.pc = "begin", !.update = u]
    <2>1. h \in Handlers
      BY <1>2 DEF Deliver, Idlers
    <2>2. /\ row' = [row EXCEPT ![u] = "held"] /\ post' = [post EXCEPT ![u] = h]
          /\ handler' = [handler EXCEPT ![h] = r]
          /\ UNCHANGED <<sent, store, faults, broken>>
      BY <1>2 DEF Deliver
    <2>3. r \in Requests /\ r.pc = "begin" /\ r.update = u
      BY DEF Idle, Requests, Steps
    <2>4. post[u] # "unsent" /\ h # "unsent"
      BY <2>1, TelegramAssumption DEF Deliver, TelegramAssumption
    <2> HIDE DEF h, r
    <2>5. \A g \in Handlers : Fit(g)'
      BY <2>1, <2>2, <2>3, <2>4 DEF Fit, Kind, Executing
    <2> QED
      BY <2>1, <2>2, <2>3, <2>4, <2>5 DEF store
  <1> QED
    BY <1>1, <1>2

\* Telegram learns how handler h ended.
LEMMA AnswerTyped ==
  ASSUME Typed, NEW h \in Handlers, NEW ok \in BOOLEAN, Answer(h, ok), Go(h, Idle), UNCHANGED sent
  PROVE  /\ handler' \in [Handlers -> Requests]
         /\ post' \in [Updates -> {"unsent", "due", "answered"} \cup Handlers]
         /\ \A u \in Updates : post'[u] # "unsent" => sent'[u] \in Messages
         /\ \A g \in Handlers : Fit(g)'
  <1> USE DEF Typed, TypeOK
  <1>1. Idle \in Requests /\ Idle.pc = "idle"
    BY DEF Idle, Requests, Steps
  <1>2. h # "unsent"
    BY TelegramAssumption DEF TelegramAssumption
  <1>3. \A u \in Updates : post[u] # "unsent" <=> post'[u] # "unsent"
    BY <1>2 DEF Answer
  <1>4. handler' = [handler EXCEPT ![h] = Idle]
    BY DEF Go
  <1>5. \A g \in Handlers : Fit(g)'
    BY <1>1, <1>3, <1>4 DEF Fit, Kind, Executing
  <1> QED
    BY <1>1, <1>3, <1>4, <1>5 DEF Answer

LEMMA MarkProcessedTyped ==
  ASSUME Typed, NEW h \in Handlers, MarkProcessed(h)
  PROVE  Typed'
  <1> USE DEF Typed, TypeOK
  <1>0. handler[h].pc = "mark" /\ handler[h].pc # "idle"
    BY DEF MarkProcessed, At
  <1>1. CASE Answer(h, TRUE) /\ Go(h, Idle) /\ UNCHANGED faults
    BY <1>1, AnswerTyped DEF MarkProcessed, store
  <1>2. CASE UNCHANGED post /\ Throw(h, "temporary") /\ faults < MaxFaults /\ faults' = faults + 1
    <2>1. faults' \in 0..MaxFaults
      BY <1>2, TelegramAssumption DEF TelegramAssumption
    <2> QED
      BY <1>0, <1>2, <2>1, ThrowTyped DEF MarkProcessed, store
  <1> QED
    BY <1>1, <1>2 DEF MarkProcessed

LEMMA FreeTyped ==
  ASSUME Typed, NEW h \in Handlers, Free(h)
  PROVE  Typed'
  <1> USE DEF Typed, TypeOK
  <1>0. handler[h].pc = "free" /\ handler[h].pc # "idle"
    BY DEF Free, At
  <1>1. row' \in [Updates -> {"none", "free", "held", "done"}]
    BY DEF Free
  <1>2. CASE handler[h].ending = "permanent"
    <2>1. Go(h, To(h, "mark")) /\ UNCHANGED post
      BY <1>2 DEF Free
    <2>2. "mark" \in Steps
      BY DEF Steps
    <2>3. To(h, "mark") \in Requests /\ To(h, "mark").pc = "mark" /\ To(h, "mark").update = handler[h].update
      BY <1>0, <2>2, Records
    <2>4. handler' \in [Handlers -> Requests] /\ \A g \in Handlers : Fit(g)'
      BY <1>0, <2>1, <2>3, GoTyped DEF Free, Executing
    <2> QED
      BY <1>1, <2>1, <2>4 DEF Free, store
  <1>3. CASE handler[h].ending # "permanent"
    BY <1>1, <1>3, AnswerTyped DEF Free, store
  <1> QED
    BY <1>2, <1>3

LEMMA BeginTyped ==
  ASSUME Typed, NEW h \in Handlers, Begin(h)
  PROVE  Typed'
  <1> USE DEF Typed, TypeOK
  <1> DEFINE owner == IF connection = NULL /\ Kind(h) = "link" THEN Workspace ELSE connection
             on == [handler[h] EXCEPT !.owner = owner]
  <1>0. handler[h].pc # "idle" /\ handler[h] \in Requests /\ handler[h].update \in Updates
    BY DEF Begin, At, Fit
  <1>1. owner \in Owners \cup {NULL} /\ connection' = owner
    BY DEF Begin, Owners
  <1>2. sent[handler[h].update] \in Messages
    BY <1>0 DEF Fit
  <1>3. /\ handler' \in [Handlers -> Requests]
        /\ \A g \in Handlers : Fit(g)'
    <2>1. CASE Kind(h) = "link" /\ Go(h, [on EXCEPT !.pc = "look"])
      <3>1. owner \in Owners
        BY <2>1, <1>1 DEF Owners
      <3>2. [on EXCEPT !.pc = "look"] \in Requests
        BY <1>0, <1>1 DEF Requests, Steps, Executing
      <3> QED
        BY <1>0, <2>1, <3>1, <3>2, GoTyped DEF Begin, Requests
    <2>2. CASE owner # NULL /\ Kind(h) = "ask" /\ Go(h, [on EXCEPT !.pc = "reserve"])
      <3>1. [on EXCEPT !.pc = "reserve"] \in Requests
        BY <1>0, <1>1 DEF Requests, Steps
      <3> QED
        BY <1>0, <2>2, <3>1, GoTyped DEF Begin, Requests, Executing
    <2>3. CASE /\ Kind(h) = "confirm" /\ owner # NULL
               /\ Go(h, [on EXCEPT !.pc = "claim", !.draft = sent[handler[h].update].draft])
      <3>1. sent[handler[h].update].draft \in Drafts
        <4>1. sent[handler[h].update].kind = "confirm"
          BY <2>3 DEF Kind
        <4>2. \A message \in Messages : message.kind = "confirm" => message.draft \in Drafts
          BY DEF Messages
        <4> QED
          BY <1>2, <4>1, <4>2
      <3>2. [on EXCEPT !.pc = "claim", !.draft = sent[handler[h].update].draft] \in Requests
        BY <1>0, <1>1, <3>1 DEF Requests, Steps
      <3> QED
        BY <1>0, <1>1, <2>3, <3>1, <3>2, GoTyped DEF Begin, Requests, Executing
    <2>4. CASE Go(h, Replying(h, 0))
      BY <1>0, <2>4, Records, GoTyped DEF Begin, Executing
    <2> QED
      BY <2>1, <2>2, <2>3, <2>4 DEF Begin
  <1> QED
    BY <1>1, <1>3 DEF Begin

LEMMA RefuseTyped ==
  ASSUME Typed, NEW h \in Handlers, Refuse(h)
  PROVE  Typed'
  <1> USE DEF Typed, TypeOK
  <1>0. handler[h].pc # "idle" /\ handler[h] \in Requests /\ handler[h].update \in Updates
    BY DEF Refuse, At, Fit
  <1>1. handler' \in [Handlers -> Requests] /\ \A g \in Handlers : Fit(g)'
    BY <1>0, ThrowTyped DEF Refuse
  <1> QED
    BY <1>1 DEF Refuse, store

LEMMA ClaimDraftTyped ==
  ASSUME Typed, NEW h \in Handlers, ClaimDraft(h)
  PROVE  Typed'
  <1> USE DEF Typed, TypeOK
  <1>0. handler[h].pc # "idle" /\ handler[h] \in Requests /\ handler[h].update \in Updates
    BY DEF ClaimDraft, At, Fit
  <1> DEFINE d == handler[h].draft
  <1>1. d \in Drafts /\ handler[h].owner \in Owners /\ Kind(h) = "confirm"
    BY DEF ClaimDraft, At, Fit
  <1>2. CASE /\ draft' = [draft EXCEPT ![d].status = "executing"]
             /\ Written(h, To(h, IF draft[d].makes = "link" THEN "look" ELSE "insert"))
    <2>1. draft' \in [Drafts -> DraftRows]
      BY <1>1, <1>2, StatusTyped
    <2> DEFINE pc == IF draft[d].makes = "link" THEN "look" ELSE "insert"
    <2>2. pc \in Steps
      BY DEF Steps, Executing
    <2>3. /\ To(h, pc) \in Requests /\ To(h, pc).pc = pc /\ To(h, pc).update = handler[h].update
          /\ To(h, pc).owner = handler[h].owner /\ To(h, pc).draft = d
      BY <1>0, <2>2, Records
    <2>4. Written(h, To(h, pc))
      BY <1>2
    <2>5. handler' \in [Handlers -> Requests] /\ faults' \in 0..MaxFaults /\ \A g \in Handlers : Fit(g)'
      BY <1>0, <1>1, <2>3, <2>4, WrittenTyped DEF ClaimDraft
    <2> QED
      BY <2>1, <2>5 DEF ClaimDraft
  <1>3. CASE Go(h, Replying(h, 0)) /\ UNCHANGED <<draft, faults>>
    <2>1. handler' \in [Handlers -> Requests] /\ \A g \in Handlers : Fit(g)'
      BY <1>0, <1>3, ReplyingTyped DEF ClaimDraft
    <2> QED
      BY <1>3, <2>1 DEF ClaimDraft
  <1>4. CASE Throw(h, "permanent") /\ UNCHANGED <<draft, faults>>
    <2>1. handler' \in [Handlers -> Requests] /\ \A g \in Handlers : Fit(g)'
      BY <1>0, <1>4, ThrowTyped DEF ClaimDraft
    <2> QED
      BY <1>4, <2>1 DEF ClaimDraft
  <1> QED
    BY <1>2, <1>3, <1>4 DEF ClaimDraft

\* What a handler goes on as after it has made something.
LEMMA AfterMakingTyped ==
  ASSUME Typed, NEW h \in Handlers, handler[h].pc \in {"look", "insert"}
  PROVE  /\ AfterMaking(h) \in Requests /\ AfterMaking(h).update = handler[h].update
         /\ AfterMaking(h).pc \in {"reply", "confirm"}
         /\ AfterMaking(h).pc = "confirm" => /\ Kind(h) = "confirm" /\ AfterMaking(h).draft = handler[h].draft
                                             /\ handler[h].draft \in Drafts
  <1>1. Kind(h) \in {"link", "confirm"} /\ (Kind(h) = "confirm" => handler[h].draft \in Drafts)
    BY DEF Typed, Fit, Executing
  <1>2. CASE Kind(h) = "link"
    BY <1>2, Records DEF AfterMaking
  <1>3. CASE Kind(h) = "confirm"
    <2>1. "confirm" \in Steps
      BY DEF Steps, Executing
    <2> QED
      BY <1>1, <1>3, <2>1, Records DEF AfterMaking
  <1> QED
    BY <1>1, <1>2, <1>3

LEMMA MadeTyped ==
  ASSUME Typed, NEW h \in Handlers, handler[h].pc \in {"look", "insert"}, UNCHANGED <<sent, post>>
  PROVE  /\ Go(h, AfterMaking(h)) => /\ handler' \in [Handlers -> Requests]
                                     /\ \A g \in Handlers : Fit(g)'
         /\ Written(h, AfterMaking(h)) => /\ handler' \in [Handlers -> Requests]
                                          /\ faults' \in 0..MaxFaults
                                          /\ \A g \in Handlers : Fit(g)'
  <1> DEFINE r == AfterMaking(h)
  <1>1. handler[h].pc # "idle" /\ r \in Requests /\ r.update = handler[h].update
    BY AfterMakingTyped
  <1>2. /\ r.pc \notin {"claim", "look", "insert", "interpret"}
        /\ r.pc \in {"claim", "confirm", "undo"} => Kind(h) = "confirm"
        /\ r.pc \in Executing => Kind(h) \in {"link", "confirm"}
        /\ r.pc \in {"claim"} \cup Executing /\ Kind(h) = "confirm" => r.draft \in Drafts
    BY AfterMakingTyped DEF Executing
  <1> HIDE DEF r
  <1>3. /\ Go(h, r) => handler' \in [Handlers -> Requests] /\ \A g \in Handlers : Fit(g)'
        /\ Written(h, r) => /\ handler' \in [Handlers -> Requests]
                            /\ faults' \in 0..MaxFaults
                            /\ \A g \in Handlers : Fit(g)'
    BY <1>1, <1>2, GoTyped, WrittenTyped
  <1> QED
    BY <1>3 DEF r

LEMMA LookTyped ==
  ASSUME Typed, NEW h \in Handlers, Look(h)
  PROVE  Typed'
  <1> USE DEF Typed, TypeOK
  <1>0. handler[h].pc # "idle" /\ handler[h] \in Requests /\ handler[h].update \in Updates
    BY DEF Look, At, Fit
  <1>1. CASE Go(h, To(h, "insert"))
    <2>1. "insert" \in Steps
      BY DEF Steps, Executing
    <2>2. /\ To(h, "insert") \in Requests /\ To(h, "insert").pc = "insert"
          /\ To(h, "insert").update = handler[h].update
          /\ To(h, "insert").owner = handler[h].owner /\ To(h, "insert").draft = handler[h].draft
      BY <1>0, <2>1, Records
    <2>3. /\ handler[h].owner \in Owners /\ Kind(h) \in {"link", "confirm"}
          /\ Kind(h) = "confirm" => handler[h].draft \in Drafts
      BY DEF Look, At, Fit, Executing
    <2>4. handler' \in [Handlers -> Requests] /\ \A g \in Handlers : Fit(g)'
      BY <1>0, <1>1, <2>2, <2>3, GoTyped DEF Look
    <2> QED
      BY <2>4 DEF Look, store
  <1>2. CASE Go(h, AfterMaking(h))
    <2>1. handler' \in [Handlers -> Requests] /\ \A g \in Handlers : Fit(g)'
      BY <1>2, MadeTyped DEF Look, At
    <2> QED
      BY <2>1 DEF Look, store
  <1>3. CASE Throw(h, "permanent")
    <2>1. handler' \in [Handlers -> Requests] /\ \A g \in Handlers : Fit(g)'
      BY <1>0, <1>3, ThrowTyped DEF Look
    <2> QED
      BY <2>1 DEF Look, store
  <1> QED
    BY <1>1, <1>2, <1>3 DEF Look

LEMMA InsertTyped ==
  ASSUME Typed, NEW h \in Handlers, Insert(h)
  PROVE  Typed'
  <1> USE DEF Typed, TypeOK
  <1>0. handler[h].pc # "idle" /\ handler[h] \in Requests /\ handler[h].update \in Updates
    BY DEF Insert, At, Fit
  <1>1. CASE Throw(h, "temporary") /\ UNCHANGED <<made, faults>>
    <2>1. handler' \in [Handlers -> Requests] /\ \A g \in Handlers : Fit(g)'
      BY <1>0, <1>1, ThrowTyped DEF Insert
    <2> QED
      BY <1>1, <2>1 DEF Insert
  <1>2. CASE /\ made' = [made EXCEPT ![Source(h)] = Append(@, handler[h].owner)]
             /\ Written(h, AfterMaking(h))
    <2>1. handler[h].owner \in Owners /\ Source(h) \in Updates \cup Drafts
      BY <1>0 DEF Insert, At, Fit, Source, Executing
    <2>2. made' \in [Updates \cup Drafts -> Seq(Owners)]
      BY <1>2, <2>1
    <2>3. handler' \in [Handlers -> Requests] /\ faults' \in 0..MaxFaults /\ \A g \in Handlers : Fit(g)'
      BY <1>2, MadeTyped DEF Insert, At
    <2> QED
      BY <2>2, <2>3 DEF Insert
  <1> QED
    BY <1>1, <1>2 DEF Insert

LEMMA ConfirmDraftTyped ==
  ASSUME Typed, NEW h \in Handlers, ConfirmDraft(h)
  PROVE  Typed'
  <1> USE DEF Typed, TypeOK
  <1>0. handler[h].pc # "idle" /\ handler[h] \in Requests /\ handler[h].update \in Updates
    BY DEF ConfirmDraft, At, Fit
  <1>1. handler[h].draft \in Drafts
    BY DEF ConfirmDraft, At, Fit, Executing
  <1>2. draft' \in [Drafts -> DraftRows]
    BY <1>1, StatusTyped DEF ConfirmDraft
  <1>3. handler' \in [Handlers -> Requests] /\ faults' \in 0..MaxFaults /\ \A g \in Handlers : Fit(g)'
    BY <1>0, Records, WrittenTyped DEF ConfirmDraft, Executing
  <1> QED
    BY <1>2, <1>3 DEF ConfirmDraft

LEMMA FailDraftTyped ==
  ASSUME Typed, NEW h \in Handlers, FailDraft(h)
  PROVE  Typed'
  <1> USE DEF Typed, TypeOK
  <1>0. handler[h].pc # "idle" /\ handler[h] \in Requests /\ handler[h].update \in Updates
    BY DEF FailDraft, At, Fit
  <1> DEFINE r == [To(h, "free") EXCEPT !.draft = 0, !.owner = NULL]
  <1>1. handler[h].draft \in Drafts
    BY DEF FailDraft, At, Fit, Executing
  <1>2. draft' \in [Drafts -> DraftRows]
    <2>1. [draft EXCEPT ![handler[h].draft].status = "failed"] \in [Drafts -> DraftRows]
      BY <1>1, StatusTyped
    <2> QED
      BY <1>1, <2>1 DEF FailDraft
  <1>3. r \in Requests /\ r.pc = "free" /\ r.update = handler[h].update
    BY <1>0 DEF Requests, Steps, To
  <1>4. handler' \in [Handlers -> Requests] /\ \A g \in Handlers : Fit(g)'
    BY <1>0, <1>3, GoTyped DEF FailDraft, Executing
  <1> QED
    BY <1>2, <1>4 DEF FailDraft

LEMMA ReserveAiQuotaTyped ==
  ASSUME Typed, NEW h \in Handlers, ReserveAiQuota(h)
  PROVE  Typed'
  <1> USE DEF Typed, TypeOK
  <1>0. handler[h].pc # "idle" /\ handler[h] \in Requests /\ handler[h].update \in Updates
    BY DEF ReserveAiQuota, At, Fit
  <1> DEFINE r == [To(h, "interpret") EXCEPT !.month = month]
  <1>1. CASE Throw(h, "temporary") /\ UNCHANGED <<usage, faults>>
    <2>1. handler' \in [Handlers -> Requests] /\ \A g \in Handlers : Fit(g)'
      BY <1>0, <1>1, ThrowTyped DEF ReserveAiQuota
    <2> QED
      BY <1>1, <2>1 DEF ReserveAiQuota
  <1>2. CASE usage' = [usage EXCEPT ![month] = @ + Reserve] /\ Written(h, r)
    <2>1. r \in Requests /\ r.pc = "interpret" /\ r.update = handler[h].update /\ r.month = month
      BY <1>0 DEF Requests, Steps, To
    <2>2. usage' \in [Months -> Int]
      BY <1>2, TelegramAssumption DEF TelegramAssumption
    <2>3. handler' \in [Handlers -> Requests] /\ faults' \in 0..MaxFaults /\ \A g \in Handlers : Fit(g)'
      BY <1>0, <1>2, <2>1, WrittenTyped DEF ReserveAiQuota, Executing
    <2> QED
      BY <2>2, <2>3 DEF ReserveAiQuota
  <1> QED
    BY <1>1, <1>2 DEF ReserveAiQuota

\* A cost is booked on a month.
LEMMA BookTyped ==
  ASSUME Typed, NEW h \in Handlers, handler[h].month \in Months, NEW cost \in Nat, Book(h, cost)
  PROVE  usage' \in [Months -> Int] /\ spent' \in [Months -> Nat]
  BY TelegramAssumption DEF Typed, TypeOK, TelegramAssumption, Book

LEMMA RecordAiUsageTyped ==
  ASSUME Typed, NEW h \in Handlers, RecordAiUsage(h)
  PROVE  Typed'
  <1> USE DEF Typed, TypeOK
  <1>0. handler[h].pc # "idle" /\ handler[h] \in Requests /\ handler[h].update \in Updates
    BY DEF RecordAiUsage, At, Fit
  <1> DEFINE r == [To(h, "respond") EXCEPT !.month = 0]
  <1>1. handler[h].month \in Months
    BY DEF RecordAiUsage, At, Fit
  <1>2. r \in Requests /\ r.pc = "respond" /\ r.update = handler[h].update
    BY <1>0 DEF Requests, Steps, To
  <1>3. ASSUME NEW cost \in Costs, Book(h, cost), Written(h, r)
        PROVE  Typed'
    <2>1. usage' \in [Months -> Int] /\ spent' \in [Months -> Nat]
      BY <1>1, <1>3, BookTyped, TelegramAssumption DEF TelegramAssumption
    <2>2. handler' \in [Handlers -> Requests] /\ faults' \in 0..MaxFaults /\ \A g \in Handlers : Fit(g)'
      BY <1>0, <1>2, <1>3, WrittenTyped DEF RecordAiUsage, Executing
    <2> QED
      BY <2>1, <2>2 DEF RecordAiUsage
  <1>4. CASE /\ faults < MaxFaults /\ faults' = faults + 1
             /\ Book(h, Reserve) /\ Throw(h, "temporary")
    <2>1. usage' \in [Months -> Int] /\ spent' \in [Months -> Nat]
      BY <1>1, <1>4, BookTyped, TelegramAssumption DEF TelegramAssumption
    <2>2. handler' \in [Handlers -> Requests] /\ \A g \in Handlers : Fit(g)'
      BY <1>0, <1>4, ThrowTyped DEF RecordAiUsage
    <2>3. faults' \in 0..MaxFaults
      BY <1>4, TelegramAssumption DEF TelegramAssumption
    <2> QED
      BY <2>1, <2>2, <2>3 DEF RecordAiUsage
  <1> QED
    BY <1>3, <1>4 DEF RecordAiUsage

LEMMA RespondToAiIntentTyped ==
  ASSUME Typed, NEW h \in Handlers, RespondToAiIntent(h)
  PROVE  Typed'
  <1> USE DEF Typed, TypeOK
  <1>0. handler[h].pc # "idle" /\ handler[h] \in Requests /\ handler[h].update \in Updates
    BY DEF RespondToAiIntent, At, Fit
  <1>1. ASSUME NEW d \in Drafts, NEW kind \in Makes,
               draft' = [draft EXCEPT ![d] =
                 [NoDraft EXCEPT !.owner = handler[h].owner, !.makes = kind, !.status = "pending"]],
               Written(h, Replying(h, d))
        PROVE  Typed'
    <2>1. [NoDraft EXCEPT !.owner = handler[h].owner, !.makes = kind, !.status = "pending"] \in DraftRows
      BY <1>0 DEF NoDraft, DraftRows, Requests
    <2>2. handler' \in [Handlers -> Requests] /\ faults' \in 0..MaxFaults /\ \A g \in Handlers : Fit(g)'
      BY <1>0, <1>1, Records, WrittenTyped DEF RespondToAiIntent, Executing
    <2> QED
      BY <1>1, <2>1, <2>2 DEF RespondToAiIntent
  <1>2. CASE Go(h, Replying(h, 0)) /\ UNCHANGED <<draft, faults>>
    <2>1. handler' \in [Handlers -> Requests] /\ \A g \in Handlers : Fit(g)'
      BY <1>0, <1>2, Records, GoTyped DEF RespondToAiIntent, Executing
    <2> QED
      BY <1>2, <2>1 DEF RespondToAiIntent
  <1> QED
    BY <1>1, <1>2 DEF RespondToAiIntent

LEMMA ReplyTyped ==
  ASSUME Typed, NEW h \in Handlers, Reply(h)
  PROVE  Typed'
  <1> USE DEF Typed, TypeOK
  <1>0. handler[h].pc # "idle" /\ handler[h] \in Requests /\ handler[h].update \in Updates
    BY DEF Reply, At, Fit
  <1> DEFINE r == [To(h, "mark") EXCEPT !.draft = 0]
  <1>1. r \in Requests /\ r.pc = "mark" /\ r.update = handler[h].update
    BY <1>0 DEF Requests, Steps, To
  <1>2. \A d \in Drafts : [draft[d] EXCEPT !.shown = TRUE] \in DraftRows
    BY DEF DraftRows
  <1>3. draft' \in [Drafts -> DraftRows]
    BY <1>2 DEF Reply
  <1>4. handler' \in [Handlers -> Requests] /\ faults' \in 0..MaxFaults /\ \A g \in Handlers : Fit(g)'
    BY <1>0, <1>1, WrittenTyped DEF Reply, Executing
  <1> QED
    BY <1>3, <1>4 DEF Reply

LEMMA FailTyped ==
  ASSUME Typed, NEW h \in Handlers, Fail(h)
  PROVE  Typed'
  <1> USE DEF Typed, TypeOK
  <1>0. handler[h].pc # "idle" /\ handler[h] \in Requests /\ handler[h].update \in Updates
    BY DEF Fail, At, Fit
  <1>1. handler' \in [Handlers -> Requests] /\ \A g \in Handlers : Fit(g)'
    BY <1>0, ThrowTyped DEF Fail
  <1>2. faults' \in 0..MaxFaults
    BY TelegramAssumption DEF TelegramAssumption, Fail
  <1> QED
    BY <1>1, <1>2 DEF Fail, store

LEMMA ExitTyped ==
  ASSUME Typed, NEW gone \in SUBSET Handlers, Exit(gone)
  PROVE  Typed'
  <1> USE DEF Typed, TypeOK
  <1>1. Idle \in Requests /\ Idle.pc = "idle"
    BY DEF Idle, Requests, Steps
  <1>2. "unsent" \notin gone
    BY TelegramAssumption DEF TelegramAssumption
  <1>3. \A u \in Updates : post[u] # "unsent" <=> post'[u] # "unsent"
    BY <1>2 DEF Exit
  <1>4. \A g \in Handlers : Fit(g)'
    BY <1>1, <1>3 DEF Exit, Fit, Kind, Executing
  <1>5. faults' \in 0..MaxFaults
    BY TelegramAssumption DEF TelegramAssumption, Exit
  <1>6. \A h \in gone : handler[h].update \in Updates
    BY DEF Exit, Fit
  <1>7. broken' \subseteq Updates
    BY <1>6 DEF Exit
  <1> QED
    BY <1>1, <1>3, <1>4, <1>5, <1>7 DEF Exit, store

LEMMA WorkTyped ==
  ASSUME Typed, NEW h \in Handlers, Work(h)
  PROVE  Typed'
  BY BeginTyped, RefuseTyped, ClaimDraftTyped, LookTyped, InsertTyped, ConfirmDraftTyped,
     FailDraftTyped, ReserveAiQuotaTyped, RecordAiUsageTyped, RespondToAiIntentTyped,
     ReplyTyped, MarkProcessedTyped, FreeTyped DEF Work

LEMMA NextTyped ==
  ASSUME Typed, [Next]_vars
  PROVE  Typed'
  <1>1. CASE UNCHANGED vars
    BY <1>1 DEF Typed, TypeOK, vars, Fit, Kind
  <1>2. CASE Elsewhere
    BY <1>2, ElsewhereTyped
  <1>3. ASSUME NEW u \in Updates, NEW expired \in BOOLEAN, Deliver(u, expired)
        PROVE  Typed'
    BY <1>3, DeliverTyped
  <1>4. ASSUME NEW h \in Handlers, Work(h) \/ Fail(h)
        PROVE  Typed'
    BY <1>4, WorkTyped, FailTyped
  <1>5. ASSUME NEW gone \in SUBSET Handlers, Exit(gone)
        PROVE  Typed'
    BY <1>5, ExitTyped
  <1> QED
    BY <1>1, <1>2, <1>3, <1>4, <1>5 DEF Next, Elsewhere, Busy

\* Every variable keeps its type, and every request what its statements need:
\* an update that was delivered, an owner for what it makes, a draft for what
\* it confirms, a month for what it records.
THEOREM TypeCorrect == Spec => []TypeOK
  <1>1. Init => Typed
    BY InitTyped
  <1>2. Typed /\ [Next]_vars => Typed'
    BY NextTyped
  <1>3. Typed => TypeOK
    BY DEF Typed
  <1> QED
    BY <1>1, <1>2, <1>3, PTL DEF Spec

\* A confirmed draft stays confirmed: the daily job and the error path write
\* only over a draft that is still open, and a draft is made once.
THEOREM ConfirmedStays == Spec => ConfirmedIsFinal
  <1>1. ASSUME Typed, [Next]_vars, NEW d \in Drafts, draft[d].status = "confirmed"
        PROVE  draft'[d].status = "confirmed"
    <2> DEFINE kept == draft'[d].status = "confirmed"
    <2> USE <1>1
    <2>0. draft \in [Drafts -> DraftRows]
      BY DEF Typed, TypeOK
    <2>1. CASE UNCHANGED vars
      BY <2>1 DEF vars
    <2>2. CASE Elsewhere
      BY <2>2, <2>0 DEF Elsewhere, Send, HangUp, Connect, Expire, GiveUp, Disconnect, NextMonth, store
    <2>3. ASSUME NEW u \in Updates, NEW expired \in BOOLEAN, Deliver(u, expired)
          PROVE  kept
      BY <2>3 DEF Deliver, store
    <2>4. ASSUME NEW h \in Handlers, Work(h) \/ Fail(h)
          PROVE  kept
      <3>1. CASE ClaimDraft(h)
        BY <2>0, <3>1 DEF ClaimDraft
      <3>2. CASE ConfirmDraft(h)
        BY <2>0, <3>2 DEF ConfirmDraft
      <3>3. CASE FailDraft(h)
        BY <2>0, <3>3 DEF FailDraft
      <3>4. CASE RespondToAiIntent(h)
        <4>1. draft[d] # NoDraft
          BY DEF NoDraft
        <4> QED
          BY <2>0, <3>4, <4>1 DEF RespondToAiIntent
      <3>5. CASE Reply(h)
        BY <2>0, <3>5 DEF Reply
      <3>6. CASE UNCHANGED draft
        BY <3>6
      <3> QED
        BY <2>4, <3>1, <3>2, <3>3, <3>4, <3>5, <3>6
        DEF Work, Fail, Begin, Refuse, Look, Insert, ReserveAiQuota, RecordAiUsage, MarkProcessed,
            Free, store
    <2>5. ASSUME NEW gone \in SUBSET Handlers, Exit(gone)
          PROVE  kept
      BY <2>5 DEF Exit, store
    <2> QED
      BY <2>1, <2>2, <2>3, <2>4, <2>5 DEF Next, Elsewhere, Busy
  <1>2. Typed /\ [Next]_vars =>
          [\A d \in Drafts : draft[d].status = "confirmed" => draft'[d].status = "confirmed"]_vars
    BY <1>1
  <1>3. Init => Typed
    BY InitTyped
  <1>4. Typed /\ [Next]_vars => Typed'
    BY NextTyped
  <1> QED
    BY <1>2, <1>3, <1>4, PTL DEF Spec, ConfirmedIsFinal

(***************************************************************************)
(* What a draft makes is made once, and for its creator.                   *)
(***************************************************************************)

\* A handler between the claim of its draft and the last write for it: nobody
\* can claim the draft again, and the draft has made something only once the
\* handler has.
Claims(h) == Kind(h) = "confirm" /\ handler[h].pc \in Executing
Backed(h) ==
  LET d == handler[h].draft
  IN /\ draft[d].status \in {"executing", "confirmed", "failed"}
     /\ handler[h].pc # "undo" => handler[h].owner = draft[d].owner
     /\ handler[h].pc \in {"look", "insert"} => made[d] = <<>>
     /\ handler[h].pc = "confirm" => made[d] # <<>>

Honest ==
  /\ \A h \in Handlers : Claims(h) => Backed(h)
  /\ \A g, h \in Handlers : Claims(g) /\ Claims(h) /\ handler[g].draft = handler[h].draft => g = h
  /\ MadeOnce /\ DraftsAreHonoured

\* Handler h goes on as q, and disturbs no other claim.
LEMMA HonestStep ==
  ASSUME Typed, Honest, NEW h \in Handlers, NEW q \in Requests, Go(h, q),
         handler[h].pc # "idle", q.update = handler[h].update, UNCHANGED sent,
         \A g \in Handlers \ {h} : Claims(g) =>
           /\ draft'[handler[g].draft].status \in {"executing", "confirmed", "failed"}
           /\ draft'[handler[g].draft].owner = draft[handler[g].draft].owner
           /\ made'[handler[g].draft] = made[handler[g].draft],
         Kind(h) = "confirm" /\ q.pc \in Executing =>
           /\ draft'[q.draft].status \in {"executing", "confirmed", "failed"}
           /\ q.pc # "undo" => q.owner = draft'[q.draft].owner
           /\ q.pc \in {"look", "insert"} => made'[q.draft] = <<>>
           /\ q.pc = "confirm" => made'[q.draft] # <<>>
           /\ \A g \in Handlers \ {h} : Claims(g) => handler[g].draft # q.draft,
         MadeOnce', DraftsAreHonoured'
  PROVE  Honest'
  <1>1. handler \in [Handlers -> Requests] /\ handler' = [handler EXCEPT ![h] = q]
    BY DEF Typed, TypeOK, Go
  <1>2. /\ handler'[h] = q /\ \A g \in Handlers \ {h} : handler'[g] = handler[g]
        /\ Claims(h)' <=> Kind(h) = "confirm" /\ q.pc \in Executing
        /\ \A g \in Handlers \ {h} : Claims(g)' <=> Claims(g)
    BY <1>1 DEF Claims, Kind
  <1>3. \A g \in Handlers : Claims(g)' => Backed(g)'
    BY <1>2 DEF Honest, Backed
  <1>4. \A g, k \in Handlers : Claims(g)' /\ Claims(k)' /\ handler'[g].draft = handler'[k].draft => g = k
    BY <1>2 DEF Honest
  <1> QED
    BY <1>3, <1>4 DEF Honest

\* After an error a claim that is held goes to undo, and none is gained.
LEMMA HonestThrow ==
  ASSUME Typed, Honest, NEW h \in Handlers, NEW ending \in {"permanent", "temporary"}, Throw(h, ending),
         handler[h].pc # "idle", UNCHANGED sent,
         \A g \in Handlers : Claims(g) =>
           /\ draft'[handler[g].draft].status \in {"executing", "confirmed", "failed"}
           /\ draft'[handler[g].draft].owner = draft[handler[g].draft].owner,
         \A g \in Handlers \ {h} : Claims(g) => made'[handler[g].draft] = made[handler[g].draft],
         MadeOnce', DraftsAreHonoured'
  PROVE  Honest'
  <1> DEFINE lost == [To(h, "undo") EXCEPT !.ending = ending]
             freed == [Idle EXCEPT !.pc = "free", !.update = handler[h].update, !.ending = ending]
  <1>0. handler[h] \in Requests /\ handler[h].update \in Updates
    BY Records
  <1>1. CASE Kind(h) = "confirm" /\ handler[h].pc \in Executing \ {"undo"}
    <2>1. lost \in Requests /\ lost.pc = "undo" /\ lost.update = handler[h].update /\ lost.draft = handler[h].draft
      BY <1>0 DEF Requests, Steps, Executing, To
    <2>2. Go(h, lost)
      BY <1>1 DEF Throw
    <2>3. Claims(h)
      BY <1>1 DEF Claims
    <2> HIDE DEF lost
    <2>4. \A g \in Handlers \ {h} : Claims(g) => handler[g].draft # lost.draft
      BY <2>1, <2>3 DEF Honest
    <2>5. draft'[lost.draft].status \in {"executing", "confirmed", "failed"}
      BY <2>1, <2>3
    <2> QED
      BY <2>1, <2>2, <2>4, <2>5, HonestStep
  <1>2. CASE ~(Kind(h) = "confirm" /\ handler[h].pc \in Executing \ {"undo"})
    <2>1. freed \in Requests /\ freed.pc = "free" /\ freed.update = handler[h].update
      BY <1>0 DEF Requests, Steps, Idle
    <2>2. Go(h, freed)
      BY <1>2 DEF Throw
    <2>3. "free" \notin Executing
      BY DEF Executing
    <2> HIDE DEF freed
    <2> QED
      BY <2>1, <2>2, <2>3, HonestStep
  <1> QED
    BY <1>1, <1>2

\* Steps of a handler outside a claim, and errors, that leave drafts and what
\* was made alone.
LEMMA HonestThrown ==
  ASSUME Typed, Honest, NEW h \in Handlers, NEW ending \in {"permanent", "temporary"}, Throw(h, ending),
         handler[h].pc # "idle", UNCHANGED <<sent, draft, made>>
  PROVE  Honest'
  <1>1. MadeOnce' /\ DraftsAreHonoured'
    BY DEF Honest, MadeOnce, DraftsAreHonoured
  <1>2. \A g \in Handlers : Claims(g) => draft[handler[g].draft].status \in {"executing", "confirmed", "failed"}
    BY DEF Honest, Backed
  <1> QED
    BY <1>1, <1>2, HonestThrow

LEMMA HonestMove ==
  ASSUME Typed, Honest, NEW h \in Handlers, NEW q \in Requests, Go(h, q),
         handler[h].pc # "idle", q.update = handler[h].update, UNCHANGED <<sent, draft, made>>,
         q.pc \notin Executing \/ Kind(h) # "confirm"
  PROVE  Honest'
  <1>1. MadeOnce' /\ DraftsAreHonoured'
    BY DEF Honest, MadeOnce, DraftsAreHonoured
  <1>2. \A g \in Handlers : Claims(g) => draft[handler[g].draft].status \in {"executing", "confirmed", "failed"}
    BY DEF Honest, Backed
  <1> QED
    BY <1>1, <1>2, HonestStep

\* No handler's claim changes, nor what is known of its draft.
LEMMA HonestSame ==
  ASSUME Typed, Honest, UNCHANGED made, draft' \in [Drafts -> DraftRows],
         \A g \in Handlers : Claims(g)' => Claims(g) /\ handler'[g] = handler[g],
         \A d \in Drafts :
           /\ draft'[d].owner = draft[d].owner
           /\ draft'[d].status # draft[d].status =>
                \/ draft[d].status = "pending" /\ draft'[d].status = "expired"
                \/ draft[d].status = "executing" /\ draft'[d].status = "failed"
  PROVE  Honest'
  <1>1. \A g \in Handlers : Claims(g) => handler[g].draft \in Drafts
    BY DEF Typed, Fit, Claims
  <1>2. \A g \in Handlers : Claims(g)' => Backed(g)'
    BY <1>1 DEF Honest, Backed
  <1>3. MadeOnce' /\ DraftsAreHonoured'
    BY DEF Honest, MadeOnce, DraftsAreHonoured
  <1> QED
    BY <1>2, <1>3 DEF Honest

LEMMA ElsewhereHonest ==
  ASSUME Typed, Honest, Elsewhere
  PROVE  Honest'
  <1>0. draft \in [Drafts -> DraftRows]
    BY DEF Typed, TypeOK
  <1>1. UNCHANGED <<made, handler>>
    BY DEF Elsewhere, Send, HangUp, Connect, Expire, GiveUp, Disconnect, NextMonth, store
  <1>2. \A g \in Handlers : Claims(g)' => Claims(g)
    <2>1. ASSUME NEW u \in Updates, NEW message \in Messages, Send(u, message), NEW g \in Handlers, Claims(g)'
          PROVE  Claims(g)
      <3>1. handler[g].pc # "idle"
        BY <1>1, <2>1 DEF Claims, Executing
      <3>2. handler[g].update \in Updates /\ handler[g].update # u
        BY <2>1, <3>1 DEF Typed, Fit, Send
      <3> QED
        BY <1>1, <2>1, <3>2 DEF Typed, TypeOK, Send, Claims, Kind
    <2>2. CASE UNCHANGED sent
      BY <1>1, <2>2 DEF Claims, Kind
    <2> QED
      BY <2>1, <2>2 DEF Elsewhere, HangUp, Connect, Expire, GiveUp, Disconnect, NextMonth
  <1>3. draft' \in [Drafts -> DraftRows]
    BY ElsewhereTyped DEF Typed, TypeOK
  <1>4. \A d \in Drafts :
           /\ draft'[d].owner = draft[d].owner
           /\ draft'[d].status # draft[d].status =>
                \/ draft[d].status = "pending" /\ draft'[d].status = "expired"
                \/ draft[d].status = "executing" /\ draft'[d].status = "failed"
    <2>1. ASSUME NEW e \in Drafts, Expire(e) \/ GiveUp(e)
          PROVE  \A d \in Drafts :
                   /\ draft'[d].owner = draft[d].owner
                   /\ draft'[d].status # draft[d].status =>
                        \/ draft[d].status = "pending" /\ draft'[d].status = "expired"
                        \/ draft[d].status = "executing" /\ draft'[d].status = "failed"
      BY <1>0, <2>1 DEF Expire, GiveUp, DraftRows
    <2>2. CASE UNCHANGED draft
      BY <2>2
    <2> QED
      BY <2>1, <2>2 DEF Elsewhere, Send, HangUp, Connect, Disconnect, NextMonth, store
  <1> QED
    BY <1>1, <1>2, <1>3, <1>4, HonestSame

LEMMA DeliverHonest ==
  ASSUME Typed, Honest, NEW u \in Updates, NEW expired \in BOOLEAN, Deliver(u, expired)
  PROVE  Honest'
  <1>1. UNCHANGED <<sent, draft, made>> /\ draft \in [Drafts -> DraftRows]
    BY DEF Deliver, store, Typed, TypeOK
  <1>2. CASE ~Takes(u, expired)
    <2>1. UNCHANGED handler
      BY <1>2 DEF Deliver
    <2> QED
      BY <1>1, <2>1, HonestSame DEF Claims, Kind
  <1>3. CASE Takes(u, expired)
    <2> DEFINE h == CHOOSE g \in Handlers : handler[g].pc = "idle"
               r == [Idle EXCEPT !.pc = "begin", !.update = u]
    <2>1. handler' = [handler EXCEPT ![h] = r]
      BY <1>3 DEF Deliver
    <2>2. r.pc \notin Executing
      BY DEF Idle, Executing
    <2> HIDE DEF h, r
    <2>3. \A g \in Handlers : Claims(g)' => Claims(g) /\ handler'[g] = handler[g]
      BY <1>1, <2>1, <2>2 DEF Claims, Kind, Typed, TypeOK
    <2> QED
      BY <1>1, <2>3, HonestSame
  <1> QED
    BY <1>2, <1>3

LEMMA ExitHonest ==
  ASSUME Typed, Honest, NEW gone \in SUBSET Handlers, Exit(gone)
  PROVE  Honest'
  <1>1. UNCHANGED <<sent, draft, made>> /\ draft \in [Drafts -> DraftRows]
    BY DEF Exit, store, Typed, TypeOK
  <1>2. \A g \in Handlers : Claims(g)' => Claims(g) /\ handler'[g] = handler[g]
    BY <1>1 DEF Exit, Claims, Kind, Idle, Executing
  <1> QED
    BY <1>1, <1>2, HonestSame

\* Steps that have nothing to do with a draft.
LEMMA OtherWorkHonest ==
  ASSUME Typed, Honest, NEW h \in Handlers,
         \/ Begin(h) \/ Refuse(h) \/ ReserveAiQuota(h) \/ RecordAiUsage(h)
         \/ MarkProcessed(h) \/ Free(h) \/ Fail(h)
  PROVE  Honest'
  <1> DEFINE Moved(q) ==
        /\ q \in Requests /\ Go(h, q) /\ q.update = handler[h].update
        /\ q.pc \notin Executing \/ Kind(h) # "confirm"
  <1>0. /\ handler[h] \in Requests /\ handler[h].pc # "idle" /\ handler[h].update \in Updates
        /\ UNCHANGED <<sent, draft, made>>
    BY DEF Begin, Refuse, ReserveAiQuota, RecordAiUsage, MarkProcessed, Free, Fail, At, store,
           Typed, TypeOK, Fit
  <1>1. ASSUME NEW q, Moved(q)
        PROVE  Honest'
    BY <1>0, <1>1, HonestMove
  <1>2. ASSUME NEW ending \in {"permanent", "temporary"}, Throw(h, ending)
        PROVE  Honest'
    BY <1>0, <1>2, HonestThrown
  <1>3. CASE Begin(h)
    <2> DEFINE owner == IF connection = NULL /\ Kind(h) = "link" THEN Workspace ELSE connection
               on == [handler[h] EXCEPT !.owner = owner]
    <2>0. owner \in Owners \cup {NULL}
      BY DEF Owners, Typed, TypeOK
    <2>1. CASE Kind(h) = "link" /\ Go(h, [on EXCEPT !.pc = "look"])
      <3>1. Moved([on EXCEPT !.pc = "look"])
        BY <1>0, <2>0, <2>1 DEF Requests, Steps, Executing
      <3> QED
        BY <1>1, <3>1
    <2>2. CASE Go(h, [on EXCEPT !.pc = "reserve"])
      <3>1. Moved([on EXCEPT !.pc = "reserve"])
        BY <1>0, <2>0, <2>2 DEF Requests, Steps, Executing
      <3> QED
        BY <1>1, <3>1
    <2>3. CASE /\ Kind(h) = "confirm"
               /\ Go(h, [on EXCEPT !.pc = "claim", !.draft = sent[handler[h].update].draft])
      <3>1. sent[handler[h].update].draft \in Drafts
        <4>1. sent[handler[h].update].kind = "confirm"
          BY <2>3 DEF Kind
        <4>2. \A message \in Messages : message.kind = "confirm" => message.draft \in Drafts
          BY DEF Messages
        <4> QED
          BY <1>0, <4>1, <4>2 DEF Typed, Fit
      <3>2. Moved([on EXCEPT !.pc = "claim", !.draft = sent[handler[h].update].draft])
        BY <1>0, <2>0, <2>3, <3>1 DEF Requests, Steps, Executing
      <3> QED
        BY <1>1, <3>2
    <2>4. CASE Go(h, Replying(h, 0))
      <3>1. Moved(Replying(h, 0))
        BY <1>0, <2>4, Records DEF Executing
      <3> QED
        BY <1>1, <3>1
    <2> QED
      BY <1>3, <2>1, <2>2, <2>3, <2>4 DEF Begin
  <1>4. CASE ReserveAiQuota(h) \/ RecordAiUsage(h)
    <2>1. CASE Go(h, [To(h, "interpret") EXCEPT !.month = month])
      <3>1. Moved([To(h, "interpret") EXCEPT !.month = month])
        BY <1>0, <2>1 DEF Requests, Steps, Executing, To, Typed, TypeOK
      <3> QED
        BY <1>1, <3>1
    <2>2. CASE Go(h, [To(h, "respond") EXCEPT !.month = 0])
      <3>1. Moved([To(h, "respond") EXCEPT !.month = 0])
        BY <1>0, <2>2 DEF Requests, Steps, Executing, To
      <3> QED
        BY <1>1, <3>1
    <2> QED
      BY <1>2, <1>4, <2>1, <2>2 DEF ReserveAiQuota, RecordAiUsage, Written
  <1>5. CASE MarkProcessed(h) \/ Free(h)
    <2>1. CASE Go(h, Idle)
      <3>1. Idle \in Requests /\ Idle.pc \notin Executing
        BY DEF Idle, Requests, Steps, Executing
      <3>2. \A g \in Handlers : Claims(g)' => Claims(g) /\ handler'[g] = handler[g]
        BY <1>0, <2>1, <3>1 DEF Claims, Kind, Go, Typed, TypeOK
      <3> QED
        BY <1>0, <3>2, HonestSame DEF Typed, TypeOK
    <2>2. CASE Go(h, To(h, "mark"))
      <3>1. Moved(To(h, "mark"))
        BY <1>0, <2>2 DEF Requests, Steps, Executing, To
      <3> QED
        BY <1>1, <3>1
    <2> QED
      BY <1>2, <1>5, <2>1, <2>2 DEF MarkProcessed, Free
  <1> QED
    BY <1>2, <1>3, <1>4, <1>5 DEF Refuse, Fail

LEMMA ClaimDraftHonest ==
  ASSUME Typed, Honest, NEW h \in Handlers, ClaimDraft(h)
  PROVE  Honest'
  <1> DEFINE d == handler[h].draft
             pc == IF draft[d].makes = "link" THEN "look" ELSE "insert"
  <1>0. /\ handler[h] \in Requests /\ handler[h].pc = "claim" /\ handler[h].update \in Updates
        /\ d \in Drafts /\ Kind(h) = "confirm" /\ ~Claims(h)
        /\ UNCHANGED <<sent, made>> /\ draft \in [Drafts -> DraftRows]
    BY DEF ClaimDraft, At, Typed, TypeOK, Fit, Claims, Executing
  <1>1. CASE /\ draft[d].owner = handler[h].owner /\ draft[d].status = "pending"
             /\ draft' = [draft EXCEPT ![d].status = "executing"]
             /\ Written(h, To(h, pc))
    <2>1. draft'[d].status = "executing" /\ draft'[d].owner = handler[h].owner /\ made[d] = <<>>
      BY <1>0, <1>1 DEF DraftRows, Honest, DraftsAreHonoured
    <2>2. \A g \in Handlers : Claims(g) => handler[g].draft # d
      BY <1>1 DEF Honest, Backed
    <2>3. \A g \in Handlers : Claims(g) =>
            draft'[handler[g].draft] = draft[handler[g].draft]
      BY <1>0, <1>1, <2>2
    <2>4. \A g \in Handlers : Claims(g) =>
            draft'[handler[g].draft].status \in {"executing", "confirmed", "failed"}
      BY <2>3 DEF Honest, Backed
    <2>5. MadeOnce' /\ DraftsAreHonoured'
      <3>1. \A e \in Drafts \ {d} : draft'[e] = draft[e]
        BY <1>0, <1>1
      <3> QED
        BY <1>0, <2>1, <3>1 DEF Honest, MadeOnce, DraftsAreHonoured
    <2>6. ASSUME Go(h, To(h, pc))
          PROVE  Honest'
      <3>1. pc \in Steps /\ pc \in {"look", "insert"}
        BY DEF Steps, Executing
      <3> HIDE DEF pc
      <3>2. /\ To(h, pc) \in Requests /\ To(h, pc).pc = pc /\ To(h, pc).update = handler[h].update
            /\ To(h, pc).owner = handler[h].owner /\ To(h, pc).draft = d
        BY <1>0, <3>1, Records
      <3> QED
        BY <1>0, <2>1, <2>2, <2>3, <2>4, <2>5, <2>6, <3>1, <3>2, HonestStep
    <2>7. ASSUME Throw(h, "temporary")
          PROVE  Honest'
      BY <1>0, <2>3, <2>4, <2>5, <2>7, HonestThrow
    <2> QED
      BY <1>1, <2>6, <2>7 DEF Written
  <1>2. CASE Go(h, Replying(h, 0)) /\ UNCHANGED <<draft, faults>>
    <2>1. Replying(h, 0) \in Requests /\ Replying(h, 0).pc \notin Executing /\ Replying(h, 0).update = handler[h].update
      BY <1>0, Records DEF Executing
    <2> QED
      BY <1>0, <1>2, <2>1, HonestMove
  <1>3. CASE Throw(h, "permanent") /\ UNCHANGED <<draft, faults>>
    BY <1>0, <1>3, HonestThrown
  <1> QED
    BY <1>1, <1>2, <1>3 DEF ClaimDraft

\* Looking finds nothing under the key of a draft that is being executed.
LEMMA LookHonest ==
  ASSUME Typed, Honest, NEW h \in Handlers, Look(h)
  PROVE  Honest'
  <1>0. /\ handler[h] \in Requests /\ handler[h].pc = "look" /\ handler[h].update \in Updates
        /\ UNCHANGED <<sent, made, draft>>
    BY DEF Look, At, Typed, TypeOK, Fit, store
  <1>1. CASE Go(h, To(h, "insert"))
    <2>1. /\ To(h, "insert") \in Requests /\ To(h, "insert").pc = "insert"
          /\ To(h, "insert").update = handler[h].update
          /\ To(h, "insert").owner = handler[h].owner /\ To(h, "insert").draft = handler[h].draft
      BY <1>0, Records DEF Steps, Executing
    <2>2. MadeOnce' /\ DraftsAreHonoured'
      BY <1>0 DEF Honest, MadeOnce, DraftsAreHonoured
    <2>3. \A g \in Handlers : Claims(g) => draft[handler[g].draft].status \in {"executing", "confirmed", "failed"}
      BY DEF Honest, Backed
    <2>4. Kind(h) = "confirm" => Claims(h)
      BY <1>0 DEF Claims, Executing
    <2>5. Kind(h) = "confirm" =>
            /\ handler[h].owner = draft[handler[h].draft].owner /\ made[handler[h].draft] = <<>>
            /\ \A g \in Handlers \ {h} : Claims(g) => handler[g].draft # handler[h].draft
      BY <1>0, <2>4 DEF Honest, Backed
    <2> QED
      BY <1>0, <1>1, <2>1, <2>2, <2>3, <2>4, <2>5, HonestStep
  <1>2. CASE made[Source(h)] # <<>> /\ Go(h, AfterMaking(h))
    <2>1. Kind(h) = "link"
      <3>1. Kind(h) = "confirm" => made[Source(h)] = <<>>
        BY <1>0 DEF Honest, Backed, Source, Claims, Executing
      <3> QED
        BY <1>0, <1>2, <3>1 DEF Typed, Fit, Executing
    <2>2. AfterMaking(h) = Replying(h, 0)
      BY <2>1 DEF AfterMaking
    <2>3. Replying(h, 0) \in Requests /\ Replying(h, 0).pc \notin Executing /\ Replying(h, 0).update = handler[h].update
      BY <1>0, Records DEF Executing
    <2> QED
      BY <1>0, <1>2, <2>2, <2>3, HonestMove
  <1>3. CASE Throw(h, "permanent")
    BY <1>0, <1>3, HonestThrown
  <1> QED
    BY <1>1, <1>2, <1>3 DEF Look

\* A link is inserted under a key nothing was made with, and a rule by the one
\* request that claimed its draft.
LEMMA InsertHonest ==
  ASSUME Typed, Honest, NEW h \in Handlers, Insert(h)
  PROVE  Honest'
  <1>0. /\ handler[h] \in Requests /\ handler[h].pc = "insert" /\ handler[h].update \in Updates
        /\ UNCHANGED <<sent, draft>> /\ made \in [Updates \cup Drafts -> Seq(Owners)]
        /\ handler[h].owner \in Owners /\ Kind(h) \in {"link", "confirm"}
        /\ Kind(h) = "confirm" => handler[h].draft \in Drafts /\ Claims(h)
    BY DEF Insert, At, Typed, TypeOK, Fit, Executing, Claims
  <1>1. CASE Throw(h, "temporary") /\ UNCHANGED <<made, faults>>
    BY <1>0, <1>1, HonestThrown
  <1>2. CASE /\ ~(Keyed(h) /\ made[Source(h)] # <<>>)
             /\ made' = [made EXCEPT ![Source(h)] = Append(@, handler[h].owner)]
             /\ Written(h, AfterMaking(h))
    <2>1. Source(h) \in Updates \cup Drafts /\ (Source(h) \in Drafts => Kind(h) = "confirm" /\ Source(h) = handler[h].draft)
      BY <1>0, TelegramAssumption DEF Source, TelegramAssumption
    <2>2. made[Source(h)] = <<>>
      BY <1>0, <1>2 DEF Keyed, Source, Honest, Backed, Claims, Executing
    <2>3. /\ made'[Source(h)] = <<handler[h].owner>>
          /\ \A s \in (Updates \cup Drafts) \ {Source(h)} : made'[s] = made[s]
      <3>1. Append(<<>>, handler[h].owner) = <<handler[h].owner>>
        OBVIOUS
      <3> QED
        BY <1>0, <1>2, <2>1, <2>2, <3>1
    <2> DEFINE one == <<handler[h].owner>>
    <2>a. Len(one) = 1 /\ Len(one) <= 1 /\ one[1] = handler[h].owner /\ one # <<>>
      OBVIOUS
    <2>b. made'[Source(h)] = one
      BY <2>3
    <2> HIDE DEF one
    <2>4. MadeOnce'
      <3>1. Len(made'[Source(h)]) <= 1
        BY <2>a, <2>b, Zenon
      <3> QED
        BY <2>3, <3>1 DEF Honest, MadeOnce
    <2>5. Source(h) \in Drafts => /\ draft[Source(h)].owner = handler[h].owner
                                  /\ draft[Source(h)].status \in {"executing", "confirmed", "failed"}
      BY <1>0, <2>1 DEF Honest, Backed
    <2>6. DraftsAreHonoured'
      <3>1. ASSUME NEW e \in Drafts, e = Source(h)
            PROVE  /\ \A i \in 1..Len(made'[e]) : made'[e][i] = draft'[e].owner
                   /\ made'[e] # <<>> /\ draft'[e].status \notin {"none", "pending", "expired"}
        <4>1. \A i \in 1..1 : one[i] = handler[h].owner
          BY <2>a
        <4> QED
          BY <1>0, <2>a, <2>b, <2>5, <3>1, <4>1
      <3>2. ASSUME NEW e \in Drafts, e # Source(h)
            PROVE  made'[e] = made[e] /\ draft'[e] = draft[e]
        BY <1>0, <2>3, <3>2
      <3> QED
        BY <3>1, <3>2 DEF Honest, DraftsAreHonoured
    <2>7. \A g \in Handlers : Claims(g) => draft[handler[g].draft].status \in {"executing", "confirmed", "failed"}
      BY DEF Honest, Backed
    <2>8. \A g \in Handlers \ {h} : Claims(g) => handler[g].draft \in Drafts /\ handler[g].draft # Source(h)
      BY <1>0, <2>1 DEF Honest, Typed, Fit, Claims
    <2>9. \A g \in Handlers \ {h} : Claims(g) => made'[handler[g].draft] = made[handler[g].draft]
      BY <2>3, <2>8
    <2>10. CASE Throw(h, "temporary")
      BY <1>0, <2>4, <2>6, <2>7, <2>9, <2>10, HonestThrow
    <2>11. CASE Go(h, AfterMaking(h)) /\ Kind(h) = "link"
      <3>1. AfterMaking(h) = Replying(h, 0)
        BY <2>11 DEF AfterMaking
      <3>2. Replying(h, 0) \in Requests /\ Replying(h, 0).pc \notin Executing /\ Replying(h, 0).update = handler[h].update
        BY <1>0, Records DEF Executing
      <3> QED
        BY <1>0, <2>4, <2>6, <2>7, <2>9, <2>11, <3>1, <3>2, HonestStep
    <2>12. CASE Go(h, AfterMaking(h)) /\ Kind(h) = "confirm"
      <3>1. AfterMaking(h) = To(h, "confirm")
        BY <2>12 DEF AfterMaking
      <3>2. /\ To(h, "confirm") \in Requests /\ To(h, "confirm").pc = "confirm"
            /\ To(h, "confirm").update = handler[h].update
            /\ To(h, "confirm").owner = handler[h].owner /\ To(h, "confirm").draft = handler[h].draft
        BY <1>0, Records DEF Steps, Executing
      <3>3. Source(h) = handler[h].draft /\ made'[handler[h].draft] # <<>>
        BY <2>a, <2>b, <2>12 DEF Source
      <3> QED
        BY <1>0, <2>4, <2>5, <2>6, <2>7, <2>8, <2>9, <2>12, <3>1, <3>2, <3>3, HonestStep
    <2> QED
      BY <1>0, <1>2, <2>10, <2>11, <2>12 DEF Written
  <1> QED
    BY <1>1, <1>2 DEF Insert

\* The row of a draft that is being executed is written by the request that
\* claimed it.
LEMMA ConfirmDraftHonest ==
  ASSUME Typed, Honest, NEW h \in Handlers, ConfirmDraft(h)
  PROVE  Honest'
  <1> DEFINE d == handler[h].draft
  <1>0. /\ handler[h] \in Requests /\ handler[h].pc = "confirm" /\ handler[h].update \in Updates
        /\ UNCHANGED <<sent, made>> /\ draft \in [Drafts -> DraftRows]
        /\ Claims(h) /\ d \in Drafts
    BY DEF ConfirmDraft, At, Typed, TypeOK, Fit, Executing, Claims
  <1>1. draft' = [draft EXCEPT ![d].status = "confirmed"] /\ Written(h, Replying(h, 0))
    BY DEF ConfirmDraft
  <1>2. draft'[d].status = "confirmed" /\ \A e \in Drafts : draft'[e].owner = draft[e].owner
    BY <1>0, <1>1 DEF DraftRows
  <1>3. \A e \in Drafts \ {d} : draft'[e] = draft[e]
    BY <1>0, <1>1
  <1>4. MadeOnce' /\ DraftsAreHonoured'
    <2>1. made[d] # <<>>
      BY <1>0 DEF Honest, Backed
    <2> QED
      BY <1>0, <1>2, <1>3, <2>1 DEF Honest, MadeOnce, DraftsAreHonoured
  <1>5. \A g \in Handlers : Claims(g) => handler[g].draft \in Drafts
    BY DEF Typed, Fit, Claims
  <1>6. \A g \in Handlers : Claims(g) =>
          /\ draft'[handler[g].draft].status \in {"executing", "confirmed", "failed"}
          /\ draft'[handler[g].draft].owner = draft[handler[g].draft].owner
    BY <1>2, <1>3, <1>5 DEF Honest, Backed
  <1>7. CASE Go(h, Replying(h, 0))
    <2>1. Replying(h, 0) \in Requests /\ Replying(h, 0).pc \notin Executing /\ Replying(h, 0).update = handler[h].update
      BY <1>0, Records DEF Executing
    <2> QED
      BY <1>0, <1>4, <1>6, <1>7, <2>1, HonestStep
  <1>8. CASE Throw(h, "temporary")
    BY <1>0, <1>4, <1>6, <1>8, HonestThrow
  <1> QED
    BY <1>1, <1>7, <1>8 DEF Written

LEMMA FailDraftHonest ==
  ASSUME Typed, Honest, NEW h \in Handlers, FailDraft(h)
  PROVE  Honest'
  <1> DEFINE r == [To(h, "free") EXCEPT !.draft = 0, !.owner = NULL]
  <1>0. /\ handler[h] \in Requests /\ handler[h].update \in Updates
        /\ UNCHANGED <<sent, made>> /\ draft \in [Drafts -> DraftRows] /\ handler[h].draft \in Drafts
    BY DEF FailDraft, At, Typed, TypeOK, Fit, Executing
  <1>1. r.pc \notin Executing
    BY <1>0 DEF Requests, Executing, To
  <1>2. handler' = [handler EXCEPT ![h] = r]
    BY DEF FailDraft, Go
  <1> HIDE DEF r
  <1>3. \A g \in Handlers : Claims(g)' => Claims(g) /\ handler'[g] = handler[g]
    BY <1>0, <1>1, <1>2 DEF Claims, Kind, Typed, TypeOK
  <1>4. draft' \in [Drafts -> DraftRows]
    BY FailDraftTyped DEF Typed, TypeOK
  <1>5. \A d \in Drafts :
           /\ draft'[d].owner = draft[d].owner
           /\ draft'[d].status # draft[d].status =>
                \/ draft[d].status = "pending" /\ draft'[d].status = "expired"
                \/ draft[d].status = "executing" /\ draft'[d].status = "failed"
    BY <1>0 DEF FailDraft, DraftRows
  <1> QED
    BY <1>0, <1>3, <1>4, <1>5, HonestSame

LEMMA RespondToAiIntentHonest ==
  ASSUME Typed, Honest, NEW h \in Handlers, RespondToAiIntent(h)
  PROVE  Honest'
  <1>0. /\ handler[h] \in Requests /\ handler[h].pc # "idle" /\ handler[h].update \in Updates
        /\ UNCHANGED <<sent, made>> /\ draft \in [Drafts -> DraftRows]
    BY DEF RespondToAiIntent, At, Typed, TypeOK, Fit
  <1>1. ASSUME NEW d \in Drafts, NEW kind \in Makes, draft[d] = NoDraft,
               draft' = [draft EXCEPT ![d] =
                 [NoDraft EXCEPT !.owner = handler[h].owner, !.makes = kind, !.status = "pending"]],
               Written(h, Replying(h, d))
        PROVE  Honest'
    <2>1. draft[d].status = "none" /\ made[d] = <<>> /\ draft'[d].status = "pending"
      BY <1>0, <1>1 DEF NoDraft, Honest, DraftsAreHonoured
    <2>2. \A e \in Drafts \ {d} : draft'[e] = draft[e]
      BY <1>0, <1>1
    <2>3. \A g \in Handlers : Claims(g) => handler[g].draft \in Drafts \ {d}
      BY <2>1 DEF Honest, Backed, Typed, Fit, Claims
    <2>4. \A g \in Handlers : Claims(g) =>
            /\ draft'[handler[g].draft].status \in {"executing", "confirmed", "failed"}
            /\ draft'[handler[g].draft].owner = draft[handler[g].draft].owner
      BY <2>2, <2>3 DEF Honest, Backed
    <2>5. MadeOnce' /\ DraftsAreHonoured'
      BY <1>0, <2>1, <2>2 DEF Honest, MadeOnce, DraftsAreHonoured
    <2>6. CASE Go(h, Replying(h, d))
      <3>1. Replying(h, d) \in Requests /\ Replying(h, d).pc \notin Executing /\ Replying(h, d).update = handler[h].update
        BY <1>0, Records DEF Executing
      <3> QED
        BY <1>0, <2>4, <2>5, <2>6, <3>1, HonestStep
    <2>7. CASE Throw(h, "temporary")
      BY <1>0, <2>4, <2>5, <2>7, HonestThrow
    <2> QED
      BY <1>1, <2>6, <2>7 DEF Written
  <1>2. CASE Go(h, Replying(h, 0)) /\ UNCHANGED <<draft, faults>>
    <2>1. Replying(h, 0) \in Requests /\ Replying(h, 0).pc \notin Executing /\ Replying(h, 0).update = handler[h].update
      BY <1>0, Records DEF Executing
    <2> QED
      BY <1>0, <1>2, <2>1, HonestMove
  <1> QED
    BY <1>1, <1>2 DEF RespondToAiIntent

LEMMA ReplyHonest ==
  ASSUME Typed, Honest, NEW h \in Handlers, Reply(h)
  PROVE  Honest'
  <1> DEFINE r == [To(h, "mark") EXCEPT !.draft = 0]
  <1>0. /\ handler[h] \in Requests /\ handler[h].pc # "idle" /\ handler[h].update \in Updates
        /\ UNCHANGED <<sent, made>> /\ draft \in [Drafts -> DraftRows] /\ Written(h, r)
    BY DEF Reply, At, Typed, TypeOK, Fit
  <1>1. r \in Requests /\ r.pc = "mark" /\ r.update = handler[h].update
    BY <1>0 DEF Requests, Steps, To
  <1>2. \A d \in Drafts : draft'[d].owner = draft[d].owner /\ draft'[d].status = draft[d].status
    BY <1>0 DEF Reply, DraftRows
  <1>3. \A g \in Handlers : Claims(g) => handler[g].draft \in Drafts
    BY DEF Typed, Fit, Claims
  <1>4. \A g \in Handlers : Claims(g) =>
          /\ draft'[handler[g].draft].status \in {"executing", "confirmed", "failed"}
          /\ draft'[handler[g].draft].owner = draft[handler[g].draft].owner
    BY <1>2, <1>3 DEF Honest, Backed
  <1>5. MadeOnce' /\ DraftsAreHonoured'
    BY <1>0, <1>2 DEF Honest, MadeOnce, DraftsAreHonoured
  <1>6. "mark" \notin Executing
    BY DEF Executing
  <1> HIDE DEF r
  <1>7. CASE Go(h, r)
    BY <1>0, <1>1, <1>4, <1>5, <1>6, <1>7, HonestStep
  <1>8. CASE Throw(h, "temporary")
    BY <1>0, <1>4, <1>5, <1>8, HonestThrow
  <1> QED
    BY <1>0, <1>7, <1>8 DEF Written

LEMMA NextHonest ==
  ASSUME Typed, Honest, [Next]_vars
  PROVE  Honest'
  <1>1. CASE UNCHANGED vars
    BY <1>1 DEF Honest, Claims, Backed, Kind, MadeOnce, DraftsAreHonoured, vars
  <1>2. CASE Elsewhere
    BY <1>2, ElsewhereHonest
  <1>3. ASSUME NEW u \in Updates, NEW expired \in BOOLEAN, Deliver(u, expired)
        PROVE  Honest'
    BY <1>3, DeliverHonest
  <1>4. ASSUME NEW h \in Handlers, Work(h) \/ Fail(h)
        PROVE  Honest'
    BY <1>4, OtherWorkHonest, ClaimDraftHonest, LookHonest, InsertHonest, ConfirmDraftHonest,
       FailDraftHonest, RespondToAiIntentHonest, ReplyHonest DEF Work
  <1>5. ASSUME NEW gone \in SUBSET Handlers, Exit(gone)
        PROVE  Honest'
    BY <1>5, ExitHonest
  <1> QED
    BY <1>1, <1>2, <1>3, <1>4, <1>5 DEF Next, Elsewhere, Busy

LEMMA HonestAlways == Spec => [](Typed /\ Honest)
  <1>1. Init => Typed /\ Honest
    <2>1. ASSUME Init
          PROVE  Honest
      <3>1. \A h \in Handlers : ~Claims(h)
        BY <2>1 DEF Init, Claims, Idle, Executing
      <3>2. MadeOnce /\ DraftsAreHonoured
        BY <2>1 DEF Init, MadeOnce, DraftsAreHonoured, NoDraft
      <3> QED
        BY <3>1, <3>2 DEF Honest
    <2> QED
      BY <2>1, InitTyped
  <1>2. (Typed /\ Honest) /\ [Next]_vars => (Typed /\ Honest)'
    BY NextTyped, NextHonest
  <1> QED
    BY <1>1, <1>2, PTL DEF Spec

\* A command or a draft makes one thing, whatever fails and however many
\* requests work on it: the link's key is unique, and a draft is claimed once.
THEOREM NothingTwice == Spec => []MadeOnce
  <1>1. Typed /\ Honest => MadeOnce
    BY DEF Honest
  <1> QED
    BY <1>1, HonestAlways, PTL

\* What a draft makes belongs to its creator, and its row says whether it was
\* made, for any interleaving of requests, errors and the daily job.
THEOREM DraftsHonest == Spec => []DraftsAreHonoured
  <1>1. Typed /\ Honest => DraftsAreHonoured
    BY DEF Honest
  <1> QED
    BY <1>1, HonestAlways, PTL

(***************************************************************************)
(* An update is not acknowledged before it is processed.                   *)
(***************************************************************************)

\* Unless a request for it was cut off, the one request at work on an update
\* is the one Telegram waits for, a held row has such a request, and what was
\* answered is done.
Kept(u) ==
  /\ \A h \in Handlers : handler[h].update = u => post[u] = h
  /\ row[u] = "held" => \E h \in Handlers : handler[h].update = u
  /\ post[u] = "answered" => row[u] = "done"

Watched ==
  /\ \A u \in Updates : u \in broken \/ Kept(u)
  /\ \A u \in Updates, h \in Handlers : post[u] = h => handler[h].update = u
  /\ \A h \in Handlers : handler[h].pc = "idle" => handler[h].update = 0

\* A request that goes on, with its update.
LEMMA WatchedOn ==
  ASSUME Typed, Watched, UNCHANGED <<row, broken>>,
         \A u \in Updates : post'[u] = post[u] \/ (post[u] = "unsent" /\ post'[u] = "due"),
         \A g \in Handlers : /\ handler'[g].update = handler[g].update
                             /\ handler'[g].pc = "idle" => handler[g].pc = "idle"
  PROVE  Watched'
  <1>0. \A h \in Handlers : h # "unsent" /\ h # "due"
    BY TelegramAssumption DEF TelegramAssumption
  <1>1. \A u \in Updates : /\ \A h \in Handlers : post'[u] = h <=> post[u] = h
                           /\ post'[u] = "answered" <=> post[u] = "answered"
    BY <1>0
  <1>2. ASSUME NEW u \in Updates, Kept(u)
        PROVE  Kept(u)'
    BY <1>1, <1>2 DEF Kept
  <1> QED
    BY <1>1, <1>2 DEF Watched

LEMMA SameUpdate ==
  ASSUME Typed, NEW h \in Handlers, handler[h].pc # "idle",
         \/ \E ending \in {"permanent", "temporary"} : Throw(h, ending)
         \/ \E q \in Requests : Go(h, q) /\ q.update = handler[h].update /\ q.pc # "idle"
  PROVE  \A g \in Handlers : /\ handler'[g].update = handler[g].update
                             /\ handler'[g].pc = "idle" => handler[g].pc = "idle"
  <1>1. \E q : handler' = [handler EXCEPT ![h] = q] /\ q.update = handler[h].update /\ q.pc # "idle"
    <2>1. handler[h] \in Requests
      BY DEF Typed, TypeOK
    <2>2. ASSUME NEW ending \in {"permanent", "temporary"}, Throw(h, ending)
          PROVE  \E q : handler' = [handler EXCEPT ![h] = q] /\ q.update = handler[h].update /\ q.pc # "idle"
      <3> DEFINE lost == [To(h, "undo") EXCEPT !.ending = ending]
                 freed == [Idle EXCEPT !.pc = "free", !.update = handler[h].update, !.ending = ending]
      <3>1. lost.update = handler[h].update /\ lost.pc # "idle"
        BY <2>1 DEF To, Requests
      <3>2. freed.update = handler[h].update /\ freed.pc # "idle"
        BY DEF Idle
      <3>3. handler' = [handler EXCEPT ![h] = lost] \/ handler' = [handler EXCEPT ![h] = freed]
        BY <2>2 DEF Throw, Go
      <3> HIDE DEF lost, freed
      <3> QED
        BY <3>1, <3>2, <3>3
    <2> QED
      BY <2>2 DEF Go
  <1> QED
    BY <1>1 DEF Typed, TypeOK

\* Handler h, whose request has ended, is idle again.
LEMMA WatchedEnd ==
  ASSUME Typed, Watched, NEW h \in Handlers, NEW ok \in BOOLEAN, Answer(h, ok), Go(h, Idle),
         handler[h].pc # "idle", UNCHANGED broken,
         row' = [row EXCEPT ![handler[h].update] =
                   IF ok \/ row[handler[h].update] = "done" THEN "done" ELSE "free"]
  PROVE  Watched'
  <1> DEFINE v == handler[h].update
  <1>1. v \in Updates /\ row \in [Updates -> {"none", "free", "held", "done"}]
    BY DEF Typed, TypeOK, Fit
  <1>2. /\ handler'[h].update = 0 /\ 0 \notin Updates
        /\ \A g \in Handlers \ {h} : handler'[g] = handler[g]
    BY TelegramAssumption DEF Go, Idle, Typed, TypeOK, TelegramAssumption
  <1>3. "due" \notin Handlers /\ "answered" \notin Handlers
    BY TelegramAssumption DEF TelegramAssumption
  <1>4. \A u \in Updates : post'[u] = IF post[u] # h THEN post[u] ELSE IF ok THEN "answered" ELSE "due"
    BY DEF Answer
  <1>5. ASSUME NEW u \in Updates, NEW g \in Handlers, post'[u] = g
        PROVE  handler'[g].update = u
    <2>1. post[u] = g /\ g # h
      BY <1>3, <1>4, <1>5
    <2> QED
      BY <1>2, <2>1 DEF Watched
  <1>6. ASSUME NEW u \in Updates, Kept(u), u # v
        PROVE  Kept(u)'
    <2>1. post[u] # h /\ handler[h].update # u
      BY <1>6 DEF Watched
    <2>2. post'[u] = post[u] /\ row'[u] = row[u]
      BY <1>1, <1>4, <1>6, <2>1
    <2>3. \A g \in Handlers : handler'[g].update = u <=> handler[g].update = u
      BY <1>2, <2>1
    <2> QED
      BY <2>2, <2>3, <1>6 DEF Kept
  <1>7. ASSUME NEW u \in Updates, Kept(u), u = v
        PROVE  Kept(u)'
    <2>1. post[u] = h
      BY <1>7 DEF Kept
    <2>2. \A g \in Handlers : handler'[g].update # u
      <3>1. \A g \in Handlers \ {h} : handler[g].update # u
        BY <1>7, <2>1 DEF Kept
      <3> QED
        BY <1>2, <3>1
    <2>3. CASE ok
      <3>1. row'[u] = "done"
        BY <1>1, <1>7, <2>3
      <3> QED
        BY <2>2, <3>1 DEF Kept
    <2>4. CASE ~ok
      <3>1. post'[u] = "due" /\ row'[u] \in {"done", "free"}
        BY <1>1, <1>4, <1>7, <2>1, <2>4
      <3> QED
        BY <2>2, <3>1 DEF Kept
    <2> QED
      BY <2>3, <2>4
  <1> QED
    BY <1>2, <1>5, <1>6, <1>7 DEF Watched

LEMMA ElsewhereWatched ==
  ASSUME Typed, Watched, Elsewhere
  PROVE  Watched'
  <1>1. ASSUME NEW u \in Updates, HangUp(u)
        PROVE  Watched'
    <2>1. /\ UNCHANGED <<row, handler>> /\ broken' = broken \cup {u}
          /\ \A w \in Updates \ {u} : post'[w] = post[w]
          /\ post'[u] = "due"
      BY <1>1 DEF HangUp, Typed, TypeOK
    <2>2. "due" \notin Handlers
      BY TelegramAssumption DEF TelegramAssumption
    <2>3. \A w \in Updates \ {u} : Kept(w) => Kept(w)'
      BY <2>1 DEF Kept
    <2> QED
      BY <2>1, <2>2, <2>3 DEF Watched
  <1>2. ASSUME NEW u \in Updates, NEW message \in Messages, Send(u, message)
        PROVE  Watched'
    BY <1>2, WatchedOn DEF Send, Typed, TypeOK
  <1>3. CASE UNCHANGED <<post, row, handler, broken>>
    BY <1>3 DEF Watched, Kept
  <1> QED
    BY <1>1, <1>2, <1>3 DEF Elsewhere, Connect, Expire, GiveUp, Disconnect, NextMonth

LEMMA DeliverWatched ==
  ASSUME Typed, Watched, NEW u \in Updates, NEW expired \in BOOLEAN, Deliver(u, expired)
  PROVE  Watched'
  <1>0. /\ post[u] = "due" /\ UNCHANGED broken
        /\ "due" \notin Handlers /\ "answered" \notin Handlers
        /\ post \in [Updates -> {"unsent", "due", "answered"} \cup Handlers]
        /\ row \in [Updates -> {"none", "free", "held", "done"}]
    BY TelegramAssumption DEF Deliver, TelegramAssumption, Typed, TypeOK
  \* An update that is due and was not cut off is with nobody.
  <1>1. Kept(u) => row[u] # "held" /\ \A h \in Handlers : handler[h].update # u
    BY <1>0 DEF Kept
  <1>2. CASE ~Takes(u, expired)
    <2>1. post' = [post EXCEPT ![u] = "answered"] /\ UNCHANGED <<row, handler>>
      BY <1>2 DEF Deliver
    <2>2. Kept(u) => row[u] = "done"
      BY <1>0, <1>1, <1>2 DEF Takes
    <2>3. \A w \in Updates : Kept(w) => Kept(w)'
      BY <1>0, <1>1, <2>1, <2>2 DEF Kept
    <2> QED
      BY <1>0, <2>1, <2>3 DEF Watched
  <1>3. CASE Takes(u, expired)
    <2> DEFINE h == CHOOSE g \in Handlers : handler[g].pc = "idle"
               r == [Idle EXCEPT !.pc = "begin", !.update = u]
    <2>1. /\ h \in Handlers
          /\ row' = [row EXCEPT ![u] = "held"] /\ post' = [post EXCEPT ![u] = h]
          /\ handler' = [handler EXCEPT ![h] = r]
      BY <1>3 DEF Deliver, Idlers
    <2>2. handler[h].pc = "idle" /\ r.update = u
      BY <1>3 DEF Deliver, Idlers, Idle
    <2> HIDE DEF h, r
    <2>3. /\ handler'[h].update = u /\ \A g \in Handlers \ {h} : handler'[g] = handler[g]
          /\ post'[u] = h /\ row'[u] = "held"
          /\ \A w \in Updates \ {u} : post'[w] = post[w] /\ row'[w] = row[w]
      BY <1>0, <2>1, <2>2 DEF Typed, TypeOK
    <2>4. handler[h].update = 0 /\ \A w \in Updates : post[w] # h /\ handler[h].update # w
      BY <2>1, <2>2, TelegramAssumption DEF Watched, TelegramAssumption
    <2>5. \A w \in Updates \ {u} : Kept(w) => Kept(w)'
      <3>1. \A w \in Updates \ {u}, g \in Handlers : handler'[g].update = w <=> handler[g].update = w
        BY <2>1, <2>3, <2>4
      <3> QED
        BY <2>3, <3>1 DEF Kept
    <2>6. Kept(u) => Kept(u)'
      <3>1. Kept(u) => \A g \in Handlers : handler'[g].update = u => g = h
        BY <1>1, <2>3
      <3> QED
        BY <1>0, <2>1, <2>3, <3>1 DEF Kept
    <2>7. \A w \in Updates, g \in Handlers : post'[w] = g => handler'[g].update = w
      BY <2>1, <2>3, <2>4 DEF Watched
    <2>8. r.pc # "idle"
      BY DEF r, Idle
    <2>9. \A g \in Handlers : handler'[g].pc = "idle" => handler'[g].update = 0
      BY <2>1, <2>3, <2>8 DEF Watched, Typed, TypeOK
    <2> QED
      BY <1>0, <2>5, <2>6, <2>7, <2>9 DEF Watched
  <1> QED
    BY <1>2, <1>3

LEMMA ExitWatched ==
  ASSUME Typed, Watched, NEW gone \in SUBSET Handlers, Exit(gone)
  PROVE  Watched'
  <1>0. /\ UNCHANGED row /\ Idle.update = 0 /\ Idle.pc = "idle" /\ 0 \notin Updates /\ "due" \notin Handlers
        /\ broken' = broken \cup {handler[h].update : h \in gone}
        /\ \A h \in Handlers : handler'[h] = IF h \in gone THEN Idle ELSE handler[h]
        /\ \A u \in Updates : post'[u] = IF post[u] \in gone THEN "due" ELSE post[u]
    BY TelegramAssumption DEF Exit, Idle, TelegramAssumption
  <1>1. ASSUME NEW u \in Updates, NEW h \in Handlers, post'[u] = h
        PROVE  handler'[h].update = u
    <2>1. post[u] = h /\ h \notin gone
      BY <1>0, <1>1
    <2> QED
      BY <1>0, <2>1 DEF Watched
  <1>2. ASSUME NEW u \in Updates, u \notin broken', Kept(u)
        PROVE  Kept(u)'
    <2>1. \A h \in gone : handler[h].update # u
      BY <1>0, <1>2
    <2>2. post[u] \notin gone
      BY <2>1 DEF Watched
    <2>3. \A h \in Handlers : handler'[h].update = u <=> handler[h].update = u
      BY <1>0, <2>1
    <2> QED
      BY <1>0, <1>2, <2>2, <2>3 DEF Kept
  <1>3. broken \subseteq broken'
    BY <1>0
  <1> QED
    BY <1>0, <1>1, <1>2, <1>3 DEF Watched

\* Steps after which the request is still at work on its update.
LEMMA WorkWatched ==
  ASSUME Typed, Watched, NEW h \in Handlers, Work(h) \/ Fail(h)
  PROVE  Watched'
  <1> DEFINE Same == /\ UNCHANGED <<row, broken, post>>
                     /\ \/ \E ending \in {"permanent", "temporary"} : Throw(h, ending)
                        \/ \E q \in Requests : Go(h, q) /\ q.update = handler[h].update /\ q.pc # "idle"
  <1>0. handler[h] \in Requests /\ handler[h].pc # "idle" /\ handler[h].update \in Updates
    BY DEF Work, Fail, Begin, Refuse, ClaimDraft, Look, Insert, ConfirmDraft, FailDraft, ReserveAiQuota,
           RecordAiUsage, RespondToAiIntent, Reply, MarkProcessed, Free, At, Typed, TypeOK, Fit
  <1>1. CASE Same
    BY <1>0, <1>1, SameUpdate, WatchedOn
  <1>2. CASE Refuse(h) \/ Fail(h)
    <2>1. Same
      BY <1>2 DEF Refuse, Fail
    <2> QED
      BY <1>1, <2>1
  <1>3. \A q : q \in Requests /\ q.update = handler[h].update /\ q.pc # "idle" /\ UNCHANGED <<row, broken, post>>
             /\ (Go(h, q) \/ Written(h, q)) => Same
    BY DEF Written
  <1>4. CASE Begin(h)
    <2> DEFINE owner == IF connection = NULL /\ Kind(h) = "link" THEN Workspace ELSE connection
               on == [handler[h] EXCEPT !.owner = owner]
    <2>0. owner \in Owners \cup {NULL}
      BY DEF Owners, Typed, TypeOK
    <2>1. CASE Go(h, [on EXCEPT !.pc = "look"])
      <3>1. [on EXCEPT !.pc = "look"] \in Requests /\ [on EXCEPT !.pc = "look"].pc = "look"
            /\ [on EXCEPT !.pc = "look"].update = handler[h].update
        BY <1>0, <2>0 DEF Requests, Steps, Executing
      <3> QED
        BY <1>1, <1>3, <1>4, <2>1, <3>1 DEF Begin
    <2>2. CASE Go(h, [on EXCEPT !.pc = "reserve"])
      <3>1. [on EXCEPT !.pc = "reserve"] \in Requests /\ [on EXCEPT !.pc = "reserve"].pc = "reserve"
            /\ [on EXCEPT !.pc = "reserve"].update = handler[h].update
        BY <1>0, <2>0 DEF Requests, Steps, Executing
      <3> QED
        BY <1>1, <1>3, <1>4, <2>2, <3>1 DEF Begin
    <2>3. CASE /\ Kind(h) = "confirm"
               /\ Go(h, [on EXCEPT !.pc = "claim", !.draft = sent[handler[h].update].draft])
      <3> DEFINE q == [on EXCEPT !.pc = "claim", !.draft = sent[handler[h].update].draft]
      <3>1. sent[handler[h].update].draft \in Drafts
        <4>1. sent[handler[h].update].kind = "confirm"
          BY <2>3 DEF Kind
        <4>2. \A message \in Messages : message.kind = "confirm" => message.draft \in Drafts
          BY DEF Messages
        <4> QED
          BY <1>0, <4>1, <4>2 DEF Typed, Fit
      <3>2. q \in Requests /\ q.pc = "claim" /\ q.update = handler[h].update
        BY <1>0, <2>0, <3>1 DEF Requests, Steps, Executing
      <3> QED
        BY <1>1, <1>3, <1>4, <2>3, <3>2 DEF Begin
    <2>4. CASE Go(h, Replying(h, 0))
      BY <1>0, <1>1, <1>3, <1>4, <2>4, Records DEF Begin
    <2> QED
      BY <1>4, <2>1, <2>2, <2>3, <2>4 DEF Begin
  <1>5. CASE ClaimDraft(h)
    <2>1. ASSUME Written(h, To(h, IF draft[handler[h].draft].makes = "link" THEN "look" ELSE "insert"))
          PROVE  Same
      <3> DEFINE pc == IF draft[handler[h].draft].makes = "link" THEN "look" ELSE "insert"
      <3>1. pc \in Steps /\ pc # "idle"
        BY DEF Steps, Executing
      <3>2. Written(h, To(h, pc))
        BY <2>1
      <3> HIDE DEF pc
      <3>3. To(h, pc) \in Requests /\ To(h, pc).pc = pc /\ To(h, pc).update = handler[h].update
        BY <1>0, <3>1, Records
      <3> QED
        BY <1>3, <1>5, <3>1, <3>2, <3>3 DEF ClaimDraft
    <2>2. ASSUME Go(h, Replying(h, 0))
          PROVE  Same
      BY <1>0, <1>3, <1>5, <2>2, Records DEF ClaimDraft
    <2>3. ASSUME Throw(h, "permanent")
          PROVE  Same
      BY <1>5, <2>3 DEF ClaimDraft
    <2> QED
      BY <1>1, <1>5, <2>1, <2>2, <2>3 DEF ClaimDraft
  <1>6. CASE Look(h) \/ Insert(h)
    <2>1. /\ AfterMaking(h) \in Requests /\ AfterMaking(h).update = handler[h].update
          /\ AfterMaking(h).pc # "idle"
      BY <1>6, AfterMakingTyped DEF Look, Insert, At
    <2>2. To(h, "insert") \in Requests /\ To(h, "insert").pc = "insert" /\ To(h, "insert").update = handler[h].update
      BY <1>0, Records DEF Steps, Executing
    <2>3. UNCHANGED <<row, broken, post>>
      BY <1>6 DEF Look, Insert
    <2>4. ASSUME Go(h, AfterMaking(h)) \/ Written(h, AfterMaking(h)) \/ Go(h, To(h, "insert"))
          PROVE  Same
      BY <1>3, <2>1, <2>2, <2>3, <2>4
    <2>5. ASSUME NEW ending \in {"permanent", "temporary"}, Throw(h, ending)
          PROVE  Same
      BY <2>3, <2>5
    <2> QED
      BY <1>1, <1>6, <2>4, <2>5 DEF Look, Insert
  <1>7. CASE ConfirmDraft(h)
    <2>1. Same
      BY <1>0, <1>3, <1>7, Records DEF ConfirmDraft
    <2> QED
      BY <1>1, <2>1
  <1>8. CASE FailDraft(h)
    <2> DEFINE r == [To(h, "free") EXCEPT !.draft = 0, !.owner = NULL]
    <2>1. r \in Requests /\ r.pc = "free" /\ r.update = handler[h].update
      BY <1>0 DEF Requests, Steps, To
    <2>2. Same
      BY <1>3, <1>8, <2>1 DEF FailDraft
    <2> QED
      BY <1>1, <2>2
  <1>9. CASE ReserveAiQuota(h)
    <2> DEFINE r == [To(h, "interpret") EXCEPT !.month = month]
    <2>1. r \in Requests /\ r.pc = "interpret" /\ r.update = handler[h].update
      BY <1>0 DEF Requests, Steps, To, Typed, TypeOK
    <2>2. UNCHANGED <<row, broken, post>> /\ (Throw(h, "temporary") \/ Written(h, r))
      BY <1>9 DEF ReserveAiQuota
    <2>3. Same
      BY <1>3, <2>1, <2>2
    <2> QED
      BY <1>1, <2>3
  <1>10. CASE RecordAiUsage(h)
    <2> DEFINE r == [To(h, "respond") EXCEPT !.month = 0]
    <2>1. r \in Requests /\ r.pc = "respond" /\ r.update = handler[h].update
      BY <1>0 DEF Requests, Steps, To
    <2>2. UNCHANGED <<row, broken, post>> /\ (Throw(h, "temporary") \/ Written(h, r))
      BY <1>10 DEF RecordAiUsage
    <2>3. Same
      BY <1>3, <2>1, <2>2
    <2> QED
      BY <1>1, <2>3
  <1>11. CASE RespondToAiIntent(h)
    <2>1. Same
      BY <1>0, <1>3, <1>11, Records DEF RespondToAiIntent
    <2> QED
      BY <1>1, <2>1
  <1>12. CASE Reply(h)
    <2> DEFINE r == [To(h, "mark") EXCEPT !.draft = 0]
    <2>1. r \in Requests /\ r.pc = "mark" /\ r.update = handler[h].update
      BY <1>0 DEF Requests, Steps, To
    <2>2. Same
      BY <1>3, <1>12, <2>1 DEF Reply
    <2> QED
      BY <1>1, <2>2
  <1>13. CASE MarkProcessed(h)
    <2>1. CASE Answer(h, TRUE) /\ Go(h, Idle)
      <3>1. row' = [row EXCEPT ![handler[h].update] =
                      IF TRUE \/ row[handler[h].update] = "done" THEN "done" ELSE "free"]
        BY <1>13 DEF MarkProcessed
      <3> QED
        BY <1>0, <1>13, <2>1, <3>1, WatchedEnd DEF MarkProcessed
    \* The row is done, and its mark is not known to be.
    <2>2. CASE UNCHANGED post /\ Throw(h, "temporary")
      <3>1. \A g \in Handlers : /\ handler'[g].update = handler[g].update
                                /\ handler'[g].pc = "idle" => handler[g].pc = "idle"
        BY <1>0, <2>2, SameUpdate
      <3>2. \A u \in Updates : row'[u] = row[u] \/ row'[u] = "done"
        BY <1>13 DEF MarkProcessed, Typed, TypeOK
      <3>3. UNCHANGED <<post, broken>>
        BY <1>13, <2>2 DEF MarkProcessed
      <3>4. \A u \in Updates : Kept(u) => Kept(u)'
        BY <3>1, <3>2, <3>3 DEF Kept
      <3> QED
        BY <3>1, <3>3, <3>4 DEF Watched
    <2> QED
      BY <1>13, <2>1, <2>2 DEF MarkProcessed
  <1>14. CASE Free(h)
    <2>1. CASE handler[h].ending = "permanent"
      <3>1. Go(h, To(h, "mark")) /\ UNCHANGED <<post, broken>>
        BY <1>14, <2>1 DEF Free
      <3>2. To(h, "mark") \in Requests /\ To(h, "mark").pc = "mark" /\ To(h, "mark").update = handler[h].update
        BY <1>0, Records DEF Steps
      <3>3. \A g \in Handlers : /\ handler'[g].update = handler[g].update
                                /\ handler'[g].pc = "idle" => handler[g].pc = "idle"
        BY <1>0, <3>1, <3>2, SameUpdate
      <3>4. \A u \in Updates : row'[u] = row[u] \/ (row'[u] = "free" /\ row[u] # "done")
        BY <1>14 DEF Free, Typed, TypeOK
      <3>5. \A u \in Updates : Kept(u) => Kept(u)'
        BY <3>1, <3>3, <3>4 DEF Kept
      <3> QED
        BY <3>1, <3>3, <3>5 DEF Watched
    <2>2. CASE handler[h].ending # "permanent"
      <3>1. row' = [row EXCEPT ![handler[h].update] =
                      IF FALSE \/ row[handler[h].update] = "done" THEN "done" ELSE "free"]
        BY <1>0, <1>14 DEF Free
      <3>2. Answer(h, FALSE) /\ Go(h, Idle) /\ UNCHANGED broken
        BY <1>14, <2>2 DEF Free
      <3> QED
        BY <1>0, <3>1, <3>2, WatchedEnd
    <2> QED
      BY <2>1, <2>2
  <1> QED
    BY <1>2, <1>4, <1>5, <1>6, <1>7, <1>8, <1>9, <1>10, <1>11, <1>12, <1>13, <1>14 DEF Work

\* An update that Telegram no longer delivers has been processed, or somebody
\* is at it, unless one of its requests was cut off.
THEOREM NothingIsDropped == Spec => []AcknowledgedIsHandled
  <1>1. Init => Typed /\ Watched
    <2>1. ASSUME Init
          PROVE  Watched
      <3>1. 0 \notin Updates /\ "unsent" \notin Handlers
        BY TelegramAssumption DEF TelegramAssumption
      <3> QED
        BY <2>1, <3>1 DEF Init, Watched, Kept, Idle
    <2> QED
      BY <2>1, InitTyped
  <1>2. (Typed /\ Watched) /\ [Next]_vars => (Typed /\ Watched)'
    <2> SUFFICES ASSUME Typed, Watched, [Next]_vars
                 PROVE  Watched'
      BY NextTyped
    <2>1. CASE UNCHANGED vars
      BY <2>1 DEF Watched, Kept, vars
    <2>2. CASE Elsewhere
      BY <2>2, ElsewhereWatched
    <2>3. ASSUME NEW u \in Updates, NEW expired \in BOOLEAN, Deliver(u, expired)
          PROVE  Watched'
      BY <2>3, DeliverWatched
    <2>4. ASSUME NEW h \in Handlers, Work(h) \/ Fail(h)
          PROVE  Watched'
      BY <2>4, WorkWatched
    <2>5. ASSUME NEW gone \in SUBSET Handlers, Exit(gone)
          PROVE  Watched'
      BY <2>5, ExitWatched
    <2> QED
      BY <2>1, <2>2, <2>3, <2>4, <2>5 DEF Next, Elsewhere, Busy
  <1>3. Typed /\ Watched => AcknowledgedIsHandled
    BY DEF Watched, Kept, AcknowledgedIsHandled
  <1> QED
    BY <1>1, <1>2, <1>3, PTL DEF Spec

(***************************************************************************)
(* The month's budget covers what interpretations cost.                    *)
(***************************************************************************)

\* Fewer reservations need no more budget.
LEMMA FewerReserved ==
  ASSUME NEW S \in SUBSET Handlers, NEW T \in SUBSET S
  PROVE  /\ Cardinality(S) \in Nat /\ Cardinality(T) \in Nat
         /\ Reserve * Cardinality(T) <= Reserve * Cardinality(S)
  <1>1. IsFiniteSet(S)
    BY TelegramAssumption, FS_Subset DEF TelegramAssumption
  <1>2. IsFiniteSet(T) /\ Cardinality(T) <= Cardinality(S) /\ Cardinality(S) \in Nat /\ Cardinality(T) \in Nat
    BY <1>1, FS_Subset, FS_CardinalityType
  <1>3. \A a, b, c \in Nat : b <= c => a * b <= a * c
    BY SMT
  <1> QED
    BY <1>2, <1>3, TelegramAssumption DEF TelegramAssumption

\* One more reservation.
LEMMA OneReserved ==
  ASSUME NEW S \in SUBSET Handlers, NEW h \in Handlers, h \notin S
  PROVE  /\ Cardinality(S) \in Nat /\ Cardinality(S \cup {h}) \in Nat
         /\ Reserve * Cardinality(S \cup {h}) = Reserve * Cardinality(S) + Reserve
  <1>1. IsFiniteSet(S)
    BY TelegramAssumption, FS_Subset DEF TelegramAssumption
  <1>2. Cardinality(S \cup {h}) = Cardinality(S) + 1 /\ Cardinality(S) \in Nat
    BY <1>1, FS_AddElement, FS_CardinalityType
  <1>3. \A a, b \in Nat : a * (b + 1) = a * b + a
    BY SMT
  <1>4. Reserve \in Nat
    BY TelegramAssumption DEF TelegramAssumption
  <1> QED
    BY <1>2, <1>3, <1>4

\* Nothing is booked, and nobody newly reserves.
LEMMA NothingBooked ==
  ASSUME Typed, SpendingIsBooked, UNCHANGED <<usage, spent>>,
         \A h \in Handlers : handler'[h].pc = "interpret" =>
           handler[h].pc = "interpret" /\ handler'[h].month = handler[h].month
  PROVE  SpendingIsBooked'
  <1>1. ASSUME NEW m \in Months
        PROVE  spent[m] + Reserve * Cardinality(Reserved(m)') <= usage[m]
    <2> DEFINE S == Reserved(m)
               T == Reserved(m)'
    <2>1. S \in SUBSET Handlers /\ T \in SUBSET S
      BY DEF Reserved, At
    <2>2. spent[m] \in Nat /\ usage[m] \in Int /\ Reserve \in Nat
      BY TelegramAssumption DEF Typed, TypeOK, TelegramAssumption
    <2>3. spent[m] + Reserve * Cardinality(S) <= usage[m]
      BY DEF SpendingIsBooked
    <2> HIDE DEF S, T
    <2>4. /\ Cardinality(S) \in Nat /\ Cardinality(T) \in Nat
          /\ Reserve * Cardinality(T) <= Reserve * Cardinality(S)
      BY <2>1, FewerReserved
    <2>5. \A a, b, c, d \in Int : c <= b /\ a + b <= d => a + c <= d
      BY SMT
    <2>6. Reserve * Cardinality(S) \in Int /\ Reserve * Cardinality(T) \in Int
      BY <2>2, <2>4
    <2>7. spent[m] + Reserve * Cardinality(T) <= usage[m]
      BY <2>2, <2>3, <2>4, <2>5, <2>6
    <2> QED
      BY <2>7 DEF T
  <1> QED
    BY <1>1 DEF SpendingIsBooked

\* An error leaves the interpretation.
LEMMA ThrowGoes ==
  ASSUME Typed, NEW h \in Handlers, NEW ending \in {"permanent", "temporary"}, Throw(h, ending)
  PROVE  \E q : Go(h, q) /\ q.pc # "interpret"
  <1> DEFINE lost == [To(h, "undo") EXCEPT !.ending = ending]
             freed == [Idle EXCEPT !.pc = "free", !.update = handler[h].update, !.ending = ending]
  <1>1. handler[h] \in Requests
    BY DEF Typed, TypeOK
  <1>2. lost.pc # "interpret" /\ freed.pc # "interpret"
    BY <1>1 DEF To, Requests, Idle
  <1>3. Go(h, lost) \/ Go(h, freed)
    BY DEF Throw
  <1> QED
    BY <1>2, <1>3

LEMMA ReserveSpending ==
  ASSUME Typed, SpendingIsBooked, NEW h \in Handlers, ReserveAiQuota(h)
  PROVE  SpendingIsBooked'
  <1>0. /\ handler[h] \in Requests /\ handler[h].pc = "reserve" /\ handler \in [Handlers -> Requests]
        /\ UNCHANGED <<month, spent>> /\ month \in Months
        /\ usage \in [Months -> Int] /\ spent \in [Months -> Nat] /\ Reserve \in Nat
    BY TelegramAssumption DEF ReserveAiQuota, At, Typed, TypeOK, TelegramAssumption
  <1>1. ASSUME NEW q, Go(h, q), q.pc = "interpret" => q.month = month
        PROVE  \A m \in Months : Reserved(m)' \subseteq Reserved(m) \cup (IF m = month THEN {h} ELSE {})
    BY <1>0, <1>1 DEF Go, Reserved, At
  <1>2. CASE Throw(h, "temporary") /\ UNCHANGED usage
    <2>1. \A g \in Handlers : handler'[g].pc = "interpret" =>
            handler[g].pc = "interpret" /\ handler'[g].month = handler[g].month
      BY <1>0, <1>2 DEF Throw, Go, To, Idle, Requests
    <2> QED
      BY <1>0, <1>2, <2>1, NothingBooked
  <1>3. CASE usage' = [usage EXCEPT ![month] = @ + Reserve]
    <2>1. \A m \in Months : Reserved(m)' \subseteq Reserved(m) \cup (IF m = month THEN {h} ELSE {})
      <3>1. CASE Go(h, [To(h, "interpret") EXCEPT !.month = month])
        BY <1>0, <1>1, <3>1 DEF To, Requests
      <3>2. CASE Throw(h, "temporary")
        BY <1>0, <1>1, <3>2, ThrowGoes
      <3>3. Throw(h, "temporary") \/ Go(h, [To(h, "interpret") EXCEPT !.month = month])
        BY <1>0, <1>3 DEF ReserveAiQuota, Written
      <3> QED
        BY <3>1, <3>2, <3>3
    <2>2. ASSUME NEW m \in Months
          PROVE  spent[m] + Reserve * Cardinality(Reserved(m)') <= usage'[m]
      <3> DEFINE S == Reserved(m)
                 T == Reserved(m)'
      <3>1. S \in SUBSET Handlers /\ T \in SUBSET Handlers /\ h \notin S
        BY <1>0 DEF Reserved, At
      <3>2. T \subseteq S \cup (IF m = month THEN {h} ELSE {})
        BY <2>1
      <3>3. spent[m] + Reserve * Cardinality(S) <= usage[m]
        BY DEF SpendingIsBooked
      <3>4. spent[m] \in Nat /\ usage[m] \in Int
        BY <1>0
      <3> HIDE DEF S, T
      <3>5. CASE m = month
        <4>1. S \cup {h} \in SUBSET Handlers /\ T \in SUBSET (S \cup {h})
          BY <3>1, <3>2, <3>5
        <4>2. /\ Cardinality(T) \in Nat /\ Cardinality(S) \in Nat /\ Cardinality(S \cup {h}) \in Nat
              /\ Reserve * Cardinality(T) <= Reserve * Cardinality(S \cup {h})
              /\ Reserve * Cardinality(S \cup {h}) = Reserve * Cardinality(S) + Reserve
          BY <3>1, <4>1, FewerReserved, OneReserved
        <4>3. usage'[m] = usage[m] + Reserve
          BY <1>0, <1>3, <3>5
        <4>4. \A a, b, c, d \in Int : c <= b + Reserve /\ a + b <= d => a + c <= d + Reserve
          BY <1>0
        <4>5. Reserve * Cardinality(S) \in Int /\ Reserve * Cardinality(T) \in Int
          BY <1>0, <4>2
        <4>6. Reserve * Cardinality(T) <= Reserve * Cardinality(S) + Reserve
          BY <4>2
        <4>7. spent[m] + Reserve * Cardinality(T) <= usage[m] + Reserve
          BY <3>3, <3>4, <4>4, <4>5, <4>6
        <4> QED
          BY <4>3, <4>7 DEF T
      <3>6. CASE m # month
        <4>1. T \in SUBSET S
          BY <3>2, <3>6
        <4>2. /\ Cardinality(T) \in Nat /\ Cardinality(S) \in Nat
              /\ Reserve * Cardinality(T) <= Reserve * Cardinality(S)
          BY <3>1, <4>1, FewerReserved
        <4>3. usage'[m] = usage[m]
          BY <1>0, <1>3, <3>6
        <4>4. \A a, b, c, d \in Int : c <= b /\ a + b <= d => a + c <= d
          BY SMT
        <4>5. Reserve * Cardinality(S) \in Int /\ Reserve * Cardinality(T) \in Int
          BY <1>0, <4>2
        <4>7. spent[m] + Reserve * Cardinality(T) <= usage[m]
          BY <3>3, <3>4, <4>2, <4>4, <4>5
        <4> QED
          BY <4>3, <4>7 DEF T
      <3> QED
        BY <3>5, <3>6
    <2> QED
      BY <1>0, <2>2 DEF SpendingIsBooked
  <1> QED
    BY <1>2, <1>3 DEF ReserveAiQuota

LEMMA RecordSpending ==
  ASSUME Typed, SpendingIsBooked, NEW h \in Handlers, RecordAiUsage(h)
  PROVE  SpendingIsBooked'
  <1> DEFINE k == handler[h].month
  <1>0. /\ handler[h] \in Requests /\ handler[h].pc = "interpret" /\ handler \in [Handlers -> Requests]
        /\ k \in Months /\ Costs \subseteq Nat
        /\ usage \in [Months -> Int] /\ spent \in [Months -> Nat] /\ Reserve \in Nat
    BY TelegramAssumption DEF RecordAiUsage, At, Typed, TypeOK, Fit, TelegramAssumption
  <1>1. PICK cost \in Nat : Book(h, cost)
    BY <1>0 DEF RecordAiUsage
  <1>2. PICK q : Go(h, q) /\ q.pc # "interpret"
    <2>1. CASE Go(h, [To(h, "respond") EXCEPT !.month = 0])
      <3>1. [To(h, "respond") EXCEPT !.month = 0].pc # "interpret"
        BY <1>0 DEF To, Requests
      <3> QED
        BY <2>1, <3>1
    <2>2. CASE Throw(h, "temporary")
      BY <2>2, ThrowGoes
    <2> QED
      BY <2>1, <2>2 DEF RecordAiUsage, Written
  <1>3. \A m \in Months : Reserved(m)' \subseteq Reserved(m) \ {h}
    BY <1>0, <1>2 DEF Go, Reserved, At
  <1>4. ASSUME NEW m \in Months
        PROVE  spent'[m] + Reserve * Cardinality(Reserved(m)') <= usage'[m]
    <2> DEFINE S == Reserved(m)
               T == Reserved(m)'
    <2>1. S \in SUBSET Handlers /\ T \in SUBSET (S \ {h}) /\ (m = k => h \in S)
      BY <1>0, <1>3 DEF Reserved, At
    <2>2. spent[m] + Reserve * Cardinality(S) <= usage[m]
      BY DEF SpendingIsBooked
    <2>3. spent[m] \in Nat /\ usage[m] \in Int
      BY <1>0
    <2> HIDE DEF S, T
    <2>4. CASE m = k
      <3> DEFINE R == S \ {h}
      <3>1. R \in SUBSET Handlers /\ h \notin R /\ R \cup {h} = S /\ T \in SUBSET R
        BY <2>1, <2>4
      <3> HIDE DEF R
      <3>2. /\ Cardinality(T) \in Nat /\ Cardinality(R) \in Nat /\ Cardinality(S) \in Nat
            /\ Reserve * Cardinality(T) <= Reserve * Cardinality(R)
            /\ Reserve * Cardinality(S) = Reserve * Cardinality(R) + Reserve
        BY <3>1, FewerReserved, OneReserved
      <3>3. spent'[m] = spent[m] + cost /\ usage'[m] = usage[m] + cost - Reserve
        BY <1>0, <1>1, <2>4 DEF Book
      <3>4. \A s, u, t, r, x \in Int : t <= r /\ x = r + Reserve /\ s + x <= u =>
              (s + cost) + t <= u + cost - Reserve
        BY <1>0
      <3>5. /\ Reserve * Cardinality(S) \in Int /\ Reserve * Cardinality(T) \in Int
            /\ Reserve * Cardinality(R) \in Int
        BY <1>0, <3>2
      <3>6. (spent[m] + cost) + Reserve * Cardinality(T) <= usage[m] + cost - Reserve
        BY <2>2, <2>3, <3>2, <3>4, <3>5
      <3> QED
        BY <3>3, <3>6 DEF T
    <2>5. CASE m # k
      <3>1. T \in SUBSET S
        BY <2>1
      <3>2. /\ Cardinality(T) \in Nat /\ Cardinality(S) \in Nat
            /\ Reserve * Cardinality(T) <= Reserve * Cardinality(S)
        BY <2>1, <3>1, FewerReserved
      <3>3. spent'[m] = spent[m] /\ usage'[m] = usage[m]
        BY <1>0, <1>1, <2>5 DEF Book
      <3>4. \A a, b, c, d \in Int : c <= b /\ a + b <= d => a + c <= d
        BY SMT
      <3>5. Reserve * Cardinality(S) \in Int /\ Reserve * Cardinality(T) \in Int
        BY <1>0, <3>2
      <3>6. spent[m] + Reserve * Cardinality(T) <= usage[m]
        BY <2>2, <2>3, <3>2, <3>4, <3>5
      <3> QED
        BY <3>3, <3>6 DEF T
    <2> QED
      BY <2>4, <2>5
  <1> QED
    BY <1>4 DEF SpendingIsBooked

\* Handler h, which is not interpreting, does not begin to.
LEMMA OtherSpending ==
  ASSUME Typed, SpendingIsBooked, NEW h \in Handlers,
         NEW q, Go(h, q), q.pc # "interpret", UNCHANGED <<usage, spent>>
  PROVE  SpendingIsBooked'
  <1>1. \A g \in Handlers : handler'[g].pc = "interpret" =>
          handler[g].pc = "interpret" /\ handler'[g].month = handler[g].month
    BY DEF Go, Typed, TypeOK
  <1> QED
    BY <1>1, NothingBooked

LEMMA WorkSpending ==
  ASSUME Typed, SpendingIsBooked, NEW h \in Handlers, Work(h) \/ Fail(h)
  PROVE  SpendingIsBooked'
  <1> DEFINE Leaves == UNCHANGED <<usage, spent>> /\ \E q : Go(h, q) /\ q.pc # "interpret"
  <1>0. handler[h] \in Requests
    BY DEF Typed, TypeOK
  <1>1. CASE Leaves
    BY <1>1, OtherSpending
  <1>2. \A d \in Drafts \cup {0} : Replying(h, d).pc = "reply"
    BY DEF Replying, Idle
  <1>3. \A pc \in Steps : To(h, pc).pc = pc
    BY <1>0 DEF To, Requests
  <1>4. \A pc \in {"look", "insert", "confirm", "mark"} : To(h, pc).pc # "interpret"
    BY <1>3 DEF Steps, Executing
  <1>5. ASSUME UNCHANGED <<usage, spent>>, NEW ending \in {"permanent", "temporary"}, Throw(h, ending)
        PROVE  Leaves
    BY <1>5, ThrowGoes
  <1>6. ASSUME UNCHANGED <<usage, spent>>, NEW q, Go(h, q) \/ Written(h, q), q.pc # "interpret"
        PROVE  Leaves
    BY <1>5, <1>6 DEF Written
  <1>7. CASE Refuse(h) \/ Fail(h)
    <2>1. Leaves
      BY <1>5, <1>7 DEF Refuse, Fail, store
    <2> QED
      BY <1>1, <2>1
  <1>8. CASE Begin(h)
    <2> DEFINE on == [handler[h] EXCEPT !.owner = IF connection = NULL /\ Kind(h) = "link" THEN Workspace ELSE connection]
    <2>1. /\ [on EXCEPT !.pc = "look"].pc # "interpret" /\ [on EXCEPT !.pc = "reserve"].pc # "interpret"
          /\ [on EXCEPT !.pc = "claim", !.draft = sent[handler[h].update].draft].pc # "interpret"
      BY <1>0 DEF Requests
    <2>2. \/ Go(h, [on EXCEPT !.pc = "look"]) \/ Go(h, [on EXCEPT !.pc = "reserve"])
          \/ Go(h, [on EXCEPT !.pc = "claim", !.draft = sent[handler[h].update].draft])
          \/ Go(h, Replying(h, 0))
      BY <1>8 DEF Begin
    <2> HIDE DEF on
    <2>3. Leaves
      BY <1>2, <1>6, <1>8, <2>1, <2>2 DEF Begin
    <2> QED
      BY <1>1, <2>3
  <1>9. CASE ClaimDraft(h)
    <2>1. To(h, IF draft[handler[h].draft].makes = "link" THEN "look" ELSE "insert").pc # "interpret"
      BY <1>4
    <2>2. UNCHANGED <<usage, spent>>
      BY <1>9 DEF ClaimDraft
    <2>3. \/ Written(h, To(h, IF draft[handler[h].draft].makes = "link" THEN "look" ELSE "insert"))
          \/ Go(h, Replying(h, 0)) \/ Throw(h, "permanent")
      BY <1>9 DEF ClaimDraft
    <2>4. Leaves
      BY <1>2, <1>5, <1>6, <2>1, <2>2, <2>3
    <2> QED
      BY <1>1, <2>4
  <1>10. CASE Look(h) \/ Insert(h)
    <2>1. AfterMaking(h).pc # "interpret"
      BY <1>2, <1>4 DEF AfterMaking
    <2>2. UNCHANGED <<usage, spent>>
      BY <1>10 DEF Look, Insert, store
    <2>3. Leaves
      BY <1>4, <1>5, <1>6, <1>10, <2>1, <2>2 DEF Look, Insert
    <2> QED
      BY <1>1, <2>3
  <1>11. CASE ConfirmDraft(h) \/ RespondToAiIntent(h)
    <2>1. UNCHANGED <<usage, spent>>
      BY <1>11 DEF ConfirmDraft, RespondToAiIntent
    <2>2. \E d \in Drafts \cup {0} : Go(h, Replying(h, d)) \/ Written(h, Replying(h, d))
      BY <1>11 DEF ConfirmDraft, RespondToAiIntent
    <2>3. Leaves
      BY <1>2, <1>6, <2>1, <2>2
    <2> QED
      BY <1>1, <2>3
  <1>12. CASE FailDraft(h)
    <2>1. [To(h, "free") EXCEPT !.draft = 0, !.owner = NULL].pc # "interpret"
      BY <1>0 DEF To, Requests
    <2>2. Leaves
      BY <1>6, <1>12, <2>1 DEF FailDraft
    <2> QED
      BY <1>1, <2>2
  <1>13. CASE Reply(h)
    <2>1. [To(h, "mark") EXCEPT !.draft = 0].pc # "interpret"
      BY <1>0 DEF To, Requests
    <2>2. Leaves
      BY <1>6, <1>13, <2>1 DEF Reply
    <2> QED
      BY <1>1, <2>2
  <1>14. CASE MarkProcessed(h) \/ Free(h)
    <2>1. Idle.pc # "interpret"
      BY DEF Idle
    <2>2. UNCHANGED <<usage, spent>>
      BY <1>14 DEF MarkProcessed, Free, store
    <2>3. Leaves
      BY <1>4, <1>5, <1>6, <1>14, <2>1, <2>2 DEF MarkProcessed, Free
    <2> QED
      BY <1>1, <2>3
  <1> QED
    BY <1>7, <1>8, <1>9, <1>10, <1>11, <1>12, <1>13, <1>14, ReserveSpending, RecordSpending DEF Work

\* The month's counter is never below what its interpretations have cost and
\* what those under way may, for any number of requests.
THEOREM BudgetHolds == Spec => []SpendingIsBooked
  <1>1. Init => Typed /\ SpendingIsBooked
    <2>1. ASSUME Init
          PROVE  SpendingIsBooked
      <3>1. \A m \in Months : Reserved(m) = {}
        BY <2>1 DEF Init, Reserved, At, Idle
      <3>2. Cardinality({}) = 0 /\ Reserve * 0 = 0
        BY FS_EmptySet, TelegramAssumption DEF TelegramAssumption
      <3>3. \A m \in Months : spent[m] = 0 /\ usage[m] = 0
        BY <2>1 DEF Init
      <3>4. \A m \in Months : spent[m] + Reserve * Cardinality(Reserved(m)) = 0
        BY <3>1, <3>2, <3>3
      <3> QED
        BY <3>3, <3>4 DEF SpendingIsBooked
    <2> QED
      BY <2>1, InitTyped
  <1>2. (Typed /\ SpendingIsBooked) /\ [Next]_vars => (Typed /\ SpendingIsBooked)'
    <2> SUFFICES ASSUME Typed, SpendingIsBooked, [Next]_vars
                 PROVE  SpendingIsBooked'
      BY NextTyped
    <2>1. CASE UNCHANGED vars
      BY <2>1, NothingBooked DEF vars
    <2>2. CASE Elsewhere
      BY <2>2, NothingBooked DEF Elsewhere, Send, HangUp, Connect, Expire, GiveUp, Disconnect, NextMonth, store
    <2>3. ASSUME NEW u \in Updates, NEW expired \in BOOLEAN, Deliver(u, expired)
          PROVE  SpendingIsBooked'
      <3>1. UNCHANGED handler \/ \E g \in Handlers : Go(g, [Idle EXCEPT !.pc = "begin", !.update = u])
        BY <2>3 DEF Deliver, Idlers, Go
      <3>2. [Idle EXCEPT !.pc = "begin", !.update = u].pc # "interpret"
        BY DEF Idle
      <3>3. UNCHANGED <<usage, spent>>
        BY <2>3 DEF Deliver, store
      <3>4. CASE UNCHANGED handler
        BY <3>3, <3>4, NothingBooked
      <3> QED
        BY <3>1, <3>2, <3>3, <3>4, OtherSpending
    <2>4. ASSUME NEW h \in Handlers, Work(h) \/ Fail(h)
          PROVE  SpendingIsBooked'
      BY <2>4, WorkSpending
    <2>5. ASSUME NEW gone \in SUBSET Handlers, Exit(gone)
          PROVE  SpendingIsBooked'
      BY <2>5, NothingBooked DEF Exit, Idle, store
    <2> QED
      BY <2>1, <2>2, <2>3, <2>4, <2>5 DEF Next, Elsewhere, Busy
  <1>3. Typed /\ SpendingIsBooked => SpendingIsBooked
    OBVIOUS
  <1> QED
    BY <1>1, <1>2, <1>3, PTL DEF Spec
=============================================================================
