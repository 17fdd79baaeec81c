------------------------------ MODULE Billing ------------------------------
(***************************************************************************)
(* One account's plan, as the card subscription (Stripe), the Bitcoin      *)
(* prepayment (OpenNode), the synchronisation of the billing page and the  *)
(* administrator write it concurrently: server/routes/billing/*,           *)
(* server/routes/admin/accounts, lib/billing/cardPlan.ts, lib/plan.ts and  *)
(* lib/stripe-subscription.ts.  A slot runs one HTTP request, and every    *)
(* await is a point where the other requests, Stripe and the clock may     *)
(* step.  The events of a subscription stay deliverable, in any order and  *)
(* again, until one delivery of them has been recorded.                    *)
(***************************************************************************)
EXTENDS Integers, FiniteSets, FiniteSetsExt

CONSTANTS Slots,        \* the requests that may be in flight at once
          Plans,        \* the purchasable plans in play
          MaxSubs,      \* bound: subscriptions ever created
          MaxCharges,   \* bound: OpenNode charges ever created
          MaxAsked,     \* bound: subscriptions, cancellations and charges asked for
          MaxEvents,    \* bound: events Stripe ever emits on its own account
          MaxTime,      \* bound: the last date
          Period,       \* length of a billing period of the card
          ChargeDays,   \* OPENNODE_BTC_DAYS_PER_CHARGE
          AdminDates,   \* expiry dates an administrator may grant
          MaxGrants,    \* bound: grants and revocations of an administrator
          MaxCrashes    \* bound: requests that die at an await

ASSUME BillingAssumption ==
    /\ Plans \subseteq {"standard", "premium"} /\ Plans # {}
    /\ MaxSubs \in Nat /\ MaxCharges \in Nat /\ MaxEvents \in Nat /\ MaxAsked \in Nat
    /\ MaxTime \in Nat \ {0}
    /\ Period \in Nat \ {0} /\ ChargeDays \in Nat \ {0}
    /\ AdminDates \subseteq Nat /\ MaxGrants \in Nat /\ MaxCrashes \in Nat

VARIABLES now,        \* the date
          acct,       \* the row of accounts
          subs,       \* Stripe's subscriptions
          events,     \* Stripe's events, each with the snapshot it carries
          processed,  \* stripe_events
          payments,   \* btc_payments, with what the customer did at OpenNode
          req,        \* the request each slot runs
          granted,    \* the furthest date an administrator granted
          asked, grants, crashes

vars == <<now, acct, subs, events, processed, payments, req, granted, asked, grants, crashes>>

SubIds == 1..MaxSubs
ChargeIds == 1..MaxCharges
Rank == [free |-> 0, standard |-> 1, premium |-> 2]
Later(s, t) == Max({s, t})

Statuses == {"none", "draft", "incomplete", "incomplete_expired", "active",
             "past_due", "canceled", "unpaid"}
Dead(status) == status \in {"canceled", "unpaid"}
Over(status) == Dead(status) \/ status = "incomplete_expired"
Manageable(status) == status \in {"active", "past_due"}

\* A null expiry is 0 and a null pointer is 0.
EffectivePlan == IF acct.expiry > now THEN acct.plan ELSE "free"

Live(c) == payments[c].status = "paid" /\ payments[c].until > now
AdminGranted == EffectivePlan # "free" /\ ~\E c \in ChargeIds : Live(c)

NoEvent == [sub |-> 0, status |-> "none", end |-> 0]

\* A request that is not running; an idle slot holds no memory of the last one.
Idle == [job |-> "none", pc |-> "idle", sub |-> 0, event |-> NoEvent, plan |-> "free",
         date |-> 0, seenPtr |-> 0, seenExp |-> 0]

Init ==
    /\ now = 1
    /\ acct = [plan |-> "free", expiry |-> 0, pointer |-> 0]
    /\ subs = [s \in SubIds |-> [status |-> "none", plan |-> "free", end |-> 0,
                                 billed |-> FALSE, cancelAtEnd |-> FALSE]]
    /\ events = {} /\ processed = {}
    /\ payments = [c \in ChargeIds |-> [status |-> "none", plan |-> "free",
                                        until |-> 0, settled |-> FALSE]]
    /\ req = [r \in Slots |-> Idle]
    /\ granted = 0 /\ asked = 0 /\ grants = 0 /\ crashes = 0

(***************************************************************************)
(* Stripe, OpenNode and the clock.                                         *)
(***************************************************************************)
Snapshot(s, sub) == [sub |-> s, status |-> sub.status, end |-> sub.end]

\* Stripe moves a subscription and emits the event that carries its new state.
StripeMoves(s, new) ==
    /\ subs' = [subs EXCEPT ![s] = new]
    /\ events' = events \cup {Snapshot(s, new)}

StripeSide(s) ==
    /\ Cardinality(events) < MaxEvents
    /\ UNCHANGED <<now, acct, processed, payments, req, granted, asked, grants, crashes>>
    /\ LET sub == subs[s] IN
       \/ /\ sub.status \in {"incomplete", "past_due"}           \* the card is charged
          /\ StripeMoves(s, [sub EXCEPT !.status = "active", !.billed = TRUE,
                                        !.end = Later(@, now) + Period])
       \/ /\ sub.status = "incomplete"                           \* never paid
          /\ StripeMoves(s, [sub EXCEPT !.status = "incomplete_expired"])
       \/ /\ sub.status = "active" /\ now >= sub.end /\ ~sub.cancelAtEnd
          /\ \/ StripeMoves(s, [sub EXCEPT !.end = @ + Period])  \* renewed
             \/ StripeMoves(s, [sub EXCEPT !.status = "past_due"])
       \/ /\ sub.status = "past_due"                             \* dunning gave up
          /\ \E gone \in {"canceled", "unpaid"} :
                StripeMoves(s, [sub EXCEPT !.status = gone])
       \/ /\ sub.status = "active" /\ sub.cancelAtEnd /\ now >= sub.end
          /\ StripeMoves(s, [sub EXCEPT !.status = "canceled"])

\* The customer pays the invoice of a charge.
Settle(c) ==
    /\ payments[c].status = "pending" /\ ~payments[c].settled
    /\ payments' = [payments EXCEPT ![c].settled = TRUE]
    /\ UNCHANGED <<now, acct, subs, events, processed, req, granted, asked, grants, crashes>>

Tick ==
    /\ now < MaxTime
    /\ now' = now + 1
    /\ UNCHANGED <<acct, subs, events, processed, payments, req, granted, asked, grants, crashes>>

(***************************************************************************)
(* The requests.  Begin takes an idle slot; Step moves a running request   *)
(* on; Finish ends it.                                                     *)
(***************************************************************************)
ToReq(r, new) == req' = [req EXCEPT ![r] = new]
Goto(r, pc) == req' = [req EXCEPT ![r].pc = pc]
Finish(r) == ToReq(r, Idle)
At(r, pc) == req[r].pc = pc

\* A request that has only read, or that changes only its own memory.
ReadsOnly ==
    UNCHANGED <<now, acct, subs, events, processed, payments, granted, asked, grants, crashes>>
\* A request somebody asked for on the billing page begins by reading the account.
Asked ==
    /\ asked < MaxAsked /\ asked' = asked + 1
    /\ UNCHANGED <<now, acct, subs, events, processed, payments, granted, grants, crashes>>
\* A request that writes the account's row.
WritesAccount ==
    UNCHANGED <<now, subs, events, processed, payments, granted, asked, grants, crashes>>

\* Where a request goes once its card part has written the account: a webhook
\* records its event, a subscription request goes on, a synchronisation ends.
AfterCard(r) ==
    CASE req[r].job = "webhook" -> Goto(r, "mark")
      [] req[r].job = "subscribe" -> Goto(r, "vet")
      [] OTHER -> Finish(r)

\* Mutant: only a subscription that ends incomplete counts as never billed.
OnlyClearByStatus(s, status) == status = "incomplete"

\* shouldOnlyClearSubscriptionPointer: the end of a subscription that was never billed.
OnlyClear(s, status) ==
    \/ status \in {"incomplete", "incomplete_expired"}
    \/ status = "canceled" /\ ~subs[s].billed

\* What a webhook and a synchronisation do with the state of a subscription.
Dispatch(r, q, snap) ==
    LET known == [q EXCEPT !.sub = snap.sub, !.date = snap.end, !.plan = subs[snap.sub].plan]
        go(pc) == ToReq(r, [known EXCEPT !.pc = pc])
    IN CASE snap.status = "active" -> go("extendCard")
         [] Over(snap.status) -> go(IF OnlyClear(snap.sub, snap.status) THEN "clear" ELSE "survey")
         [] OTHER -> IF q.job = "webhook" THEN go("mark") ELSE Finish(r)

\* customer.subscription.updated / deleted: an unrecorded event reaches the handler.
WebhookArrives(r, e) ==
    /\ At(r, "idle") /\ e \in events \ processed
    /\ Dispatch(r, [Idle EXCEPT !.job = "webhook", !.event = e], e)
    /\ ReadsOnly

\* The row that points at the subscription gets its plan; its expiry never goes back.
\* A webhook that matches no row falls back to the account named in the metadata.
ExtendCard(r) ==
    /\ At(r, "extendCard")
    /\ IF acct.pointer = req[r].sub
       THEN /\ acct' = [acct EXCEPT !.plan = req[r].plan, !.expiry = Later(@, req[r].date)]
            /\ AfterCard(r)
       ELSE /\ IF req[r].job = "webhook" THEN Goto(r, "relinkRead") ELSE Finish(r)
            /\ UNCHANGED acct
    /\ WritesAccount

RelinkRead(r) ==
    /\ At(r, "relinkRead")
    /\ ToReq(r, [req[r] EXCEPT !.pc = "relinkSelf", !.seenPtr = acct.pointer,
                               !.seenExp = acct.expiry])
    /\ ReadsOnly

\* No relinking unless the subscription is not over at Stripe now, the account
\* points at no other active one, and the new expiry is not an older one.
ExpirySafe(r) == req[r].date >= req[r].seenExp

RelinkSelf(r) ==
    /\ At(r, "relinkSelf")
    /\ Goto(r, CASE Over(subs[req[r].sub].status) -> "mark"
                 [] req[r].seenPtr \notin {0, req[r].sub} -> "relinkOther"
                 [] ExpirySafe(r) -> "relinkWrite"
                 [] OTHER -> "mark")
    /\ ReadsOnly

RelinkOther(r) ==
    /\ At(r, "relinkOther")
    /\ Goto(r, IF subs[req[r].seenPtr].status # "active" /\ ExpirySafe(r)
               THEN "relinkWrite" ELSE "mark")
    /\ ReadsOnly

\* Mutant: the write trusts the expiry that was read.
RelinkGuardPointerOnly(r) == acct.pointer = req[r].seenPtr

RelinkGuard(r) ==
    /\ acct.pointer = req[r].seenPtr
    /\ acct.expiry = 0 \/ acct.expiry <= req[r].date

RelinkWrite(r) ==
    /\ At(r, "relinkWrite")
    /\ acct' = IF RelinkGuard(r)
               THEN [acct EXCEPT !.plan = req[r].plan, !.expiry = req[r].date,
                                 !.pointer = req[r].sub]
               ELSE acct
    /\ Goto(r, "mark")
    /\ WritesAccount

\* clearNeverActivatedSubscriptionPointer
Clear(r) ==
    /\ At(r, "clear")
    /\ acct' = IF acct.pointer = req[r].sub THEN [acct EXCEPT !.pointer = 0] ELSE acct
    /\ AfterCard(r)
    /\ WritesAccount

\* downgradeExpiredCardPlan reads what the unspent prepayments still cover ...
Best(plans) == CHOOSE p \in plans : \A q \in plans : Rank[p] >= Rank[q]

Survey(r) ==
    /\ At(r, "survey")
    /\ IF req[r].job = "webhook" /\ acct.pointer # req[r].sub
       THEN Goto(r, "mark")
       ELSE LET kept == {c \in ChargeIds : Live(c)} IN
            ToReq(r, [req[r] EXCEPT
                !.pc = "downgrade",
                !.date = Max({now} \cup {payments[c].until : c \in kept}),
                !.plan = Best({"free"} \cup {payments[c].plan : c \in kept})])
    /\ ReadsOnly

\* ... and writes it, if the account still points at the dead subscription.
Downgrade(r) ==
    /\ At(r, "downgrade")
    /\ acct' = IF acct.pointer = req[r].sub
               THEN [acct EXCEPT !.plan = req[r].plan, !.expiry = req[r].date, !.pointer = 0]
               ELSE acct
    /\ AfterCard(r)
    /\ WritesAccount

\* The event is recorded only after it was applied.
Mark(r) ==
    /\ At(r, "mark")
    /\ processed' = processed \cup {req[r].event}
    /\ Finish(r)
    /\ UNCHANGED <<now, acct, subs, events, payments, granted, asked, grants, crashes>>

(***************************************************************************)
(* POST /api/billing/stripe/sync: the billing page was opened.             *)
(***************************************************************************)
SyncReads(r) ==
    /\ At(r, "idle") /\ acct.pointer # 0
    /\ ToReq(r, [Idle EXCEPT !.job = "sync", !.pc = "retrieve", !.sub = acct.pointer])
    /\ ReadsOnly

SyncRetrieves(r) ==
    /\ At(r, "retrieve")
    /\ Dispatch(r, req[r], Snapshot(req[r].sub, subs[req[r].sub]))
    /\ ReadsOnly

(***************************************************************************)
(* POST /api/billing/stripe/subscription                                   *)
(***************************************************************************)
SubscribeReads(r, p) ==
    /\ At(r, "idle") /\ p \in Plans
    /\ ToReq(r, [Idle EXCEPT !.job = "subscribe", !.sub = acct.pointer, !.plan = p,
                             !.seenPtr = acct.pointer,
                             !.pc = IF acct.pointer = 0 THEN "vet" ELSE "inspect"])
    /\ Asked

\* A live subscription refuses the request; one that can still be paid is cancelled first.
Inspect(r) ==
    /\ At(r, "inspect")
    /\ LET status == subs[req[r].sub].status IN
       IF Manageable(status) THEN Finish(r)
       ELSE ToReq(r, [req[r] EXCEPT
                !.pc = IF status \in {"incomplete", "unpaid"} THEN "cancel" ELSE "vet",
                !.event.status = status])
    /\ ReadsOnly

\* Stripe refuses to cancel what is over already, and the handler then goes on.
\* Only the pointer to a subscription seen incomplete is cleared here.
CancelStale(r) ==
    /\ At(r, "cancel")
    /\ LET s == req[r].sub IN
       IF subs[s].status \in {"canceled", "incomplete_expired"} THEN UNCHANGED <<subs, events>>
       ELSE StripeMoves(s, [subs[s] EXCEPT !.status = "canceled"])
    /\ Goto(r, IF req[r].event.status = "incomplete" THEN "clear" ELSE "vet")
    /\ UNCHANGED <<now, acct, processed, payments, granted, asked, grants, crashes>>

\* A plan granted by an administrator refuses the request.
Vet(r) ==
    /\ At(r, "vet")
    /\ IF AdminGranted THEN Finish(r) ELSE Goto(r, "create")
    /\ ReadsOnly

CreateSubscription(r) ==
    /\ At(r, "create")
    /\ \E s \in SubIds :
         /\ subs[s].status = "none" /\ \A t \in SubIds : t < s => subs[t].status # "none"
         /\ subs' = [subs EXCEPT ![s].status = "draft", ![s].plan = req[r].plan]
         /\ ToReq(r, [req[r] EXCEPT !.sub = s, !.pc = "link"])
    /\ UNCHANGED <<now, acct, events, processed, payments, granted, asked, grants, crashes>>

\* The row is pointed at the new subscription; the answer hands out its secret.
Link(r) ==
    /\ At(r, "link")
    /\ acct' = [acct EXCEPT !.pointer = req[r].sub]
    /\ subs' = [subs EXCEPT ![req[r].sub].status = IF @ = "draft" THEN "incomplete" ELSE @]
    /\ Finish(r)
    /\ UNCHANGED <<now, events, processed, payments, granted, asked, grants, crashes>>

(***************************************************************************)
(* POST /api/billing/stripe/cancellation: it changes Stripe only.          *)
(***************************************************************************)
CancellationReads(r) ==
    /\ At(r, "idle") /\ acct.pointer # 0
    /\ ToReq(r, [Idle EXCEPT !.job = "cancellation", !.pc = "toggle", !.sub = acct.pointer])
    /\ Asked

CancellationUpdates(r) ==
    /\ At(r, "toggle")
    /\ LET s == req[r].sub IN
       IF Manageable(subs[s].status)
       THEN \E flag \in BOOLEAN : StripeMoves(s, [subs[s] EXCEPT !.cancelAtEnd = flag])
       ELSE UNCHANGED <<subs, events>>
    /\ Finish(r)
    /\ UNCHANGED <<now, acct, processed, payments, granted, asked, grants, crashes>>

(***************************************************************************)
(* OpenNode: POST /api/billing/btc/charge and its webhook.                 *)
(***************************************************************************)
ChargeReads(r, p) ==
    /\ At(r, "idle") /\ p \in Plans
    /\ \E c \in ChargeIds : payments[c].status = "none"
    /\ ToReq(r, [Idle EXCEPT !.job = "charge", !.pc = "charge", !.plan = p, !.sub = acct.pointer])
    /\ Asked

\* Refused while an administrator's plan is in force and no card subscription is live.
ChargeCreates(r) ==
    /\ At(r, "charge")
    /\ LET live == req[r].sub # 0 /\ Manageable(subs[req[r].sub].status)
           free == {c \in ChargeIds : payments[c].status = "none"}
       IN payments' = IF (AdminGranted /\ ~live) \/ free = {} THEN payments
                      ELSE [payments EXCEPT ![Min(free)].status = "pending",
                                            ![Min(free)].plan = req[r].plan]
    /\ Finish(r)
    /\ UNCHANGED <<now, acct, subs, events, processed, granted, asked, grants, crashes>>

\* Mutant: a paid charge is applied on every delivery.
PrepaidArrivesAgain(r, c) ==
    /\ At(r, "idle") /\ payments[c].settled
    /\ payments' = [payments EXCEPT ![c].status = "paid"]
    /\ ToReq(r, [Idle EXCEPT !.job = "prepaid", !.pc = "read", !.sub = c])
    /\ UNCHANGED <<now, acct, subs, events, processed, granted, asked, grants, crashes>>

\* The first delivery turns the payment from pending to paid; a later one stops here.
PrepaidArrives(r, c) ==
    /\ At(r, "idle") /\ payments[c].settled /\ payments[c].status = "pending"
    /\ payments' = [payments EXCEPT ![c].status = "paid"]
    /\ ToReq(r, [Idle EXCEPT !.job = "prepaid", !.pc = "read", !.sub = c])
    /\ UNCHANGED <<now, acct, subs, events, processed, granted, asked, grants, crashes>>

\* extendPaidPeriod counts from the expiry read here, or from now if that has passed.
PrepaidReads(r) ==
    /\ At(r, "read")
    /\ ToReq(r, [req[r] EXCEPT
          !.pc = "extend",
          !.plan = Best({EffectivePlan, payments[req[r].sub].plan}),
          !.date = Later(now, acct.expiry) + ChargeDays])
    /\ ReadsOnly

PrepaidExtends(r) ==
    /\ At(r, "extend")
    /\ acct' = [acct EXCEPT !.plan = req[r].plan, !.expiry = req[r].date]
    /\ Goto(r, "record")
    /\ WritesAccount

PrepaidRecords(r) ==
    /\ At(r, "record")
    /\ payments' = [payments EXCEPT ![req[r].sub].until = req[r].date]
    /\ Finish(r)
    /\ UNCHANGED <<now, acct, subs, events, processed, granted, asked, grants, crashes>>

(***************************************************************************)
(* POST and DELETE /api/admin/accounts/[accountId], and requests that die. *)
(***************************************************************************)
AdminGrants(p, date) ==
    /\ grants < MaxGrants /\ date > now
    /\ acct' = [acct EXCEPT !.plan = p, !.expiry = date]
    /\ granted' = Later(granted, date) /\ grants' = grants + 1
    /\ UNCHANGED <<now, subs, events, processed, payments, req, asked, crashes>>

AdminRevokes ==
    /\ grants < MaxGrants
    /\ acct' = [acct EXCEPT !.plan = "free", !.expiry = 0]
    /\ grants' = grants + 1
    /\ UNCHANGED <<now, subs, events, processed, payments, req, granted, asked, crashes>>

\* Stripe answers with an error, D1 fails, or the worker is gone: the request ends here.
Crash(r) ==
    /\ crashes < MaxCrashes /\ ~At(r, "idle")
    /\ Finish(r) /\ crashes' = crashes + 1
    /\ UNCHANGED <<now, acct, subs, events, processed, payments, granted, asked, grants>>

Step(r) ==
    \/ ExtendCard(r) \/ RelinkRead(r) \/ RelinkSelf(r) \/ RelinkOther(r) \/ RelinkWrite(r)
    \/ Clear(r) \/ Survey(r) \/ Downgrade(r) \/ Mark(r)
    \/ SyncRetrieves(r) \/ Inspect(r) \/ CancelStale(r) \/ Vet(r) \/ CreateSubscription(r)
    \/ Link(r) \/ CancellationUpdates(r) \/ ChargeCreates(r)
    \/ PrepaidReads(r) \/ PrepaidExtends(r) \/ PrepaidRecords(r)

Webhook(r) == \E e \in events : WebhookArrives(r, e)

Begin(r) ==
    \/ Webhook(r) \/ SyncReads(r) \/ CancellationReads(r)
    \/ \E p \in Plans : SubscribeReads(r, p) \/ ChargeReads(r, p)
    \/ \E c \in ChargeIds : PrepaidArrives(r, c)

Next ==
    \/ \E r \in Slots : Begin(r) \/ Step(r) \/ Crash(r)
    \/ \E s \in SubIds : StripeSide(s)
    \/ \E c \in ChargeIds : Settle(c)
    \/ Tick
    \/ \E p \in Plans, date \in AdminDates : AdminGrants(p, date)
    \/ AdminRevokes

\* Requests run to their end; Stripe redelivers an event until it is recorded; the
\* customer comes back to the billing page, which synchronises.
Fairness == \A r \in Slots : WF_vars(Step(r)) /\ SF_vars(Webhook(r)) /\ SF_vars(SyncReads(r))

Spec == Init /\ [][Next]_vars
FairSpec == Spec /\ Fairness

(***************************************************************************)
(* Properties                                                              *)
(***************************************************************************)
TypeOK ==
    /\ now \in 1..MaxTime
    /\ acct \in [plan : DOMAIN Rank, expiry : Nat, pointer : {0} \cup SubIds]
    /\ subs \in [SubIds -> [status : Statuses, plan : DOMAIN Rank, end : Nat,
                            billed : BOOLEAN, cancelAtEnd : BOOLEAN]]
    /\ processed \subseteq events
    /\ \A e \in events : e.sub \in SubIds /\ e.status \in Statuses /\ e.end \in Nat
    /\ payments \in [ChargeIds -> [status : {"none", "pending", "paid"}, plan : DOMAIN Rank,
                                   until : Nat, settled : BOOLEAN]]
    /\ granted \in Nat /\ asked \in 0..MaxAsked /\ grants \in 0..MaxGrants /\ crashes \in 0..MaxCrashes

\* Retries, redeliveries and concurrent requests never add up to more time than was
\* billed, granted or prepaid: beyond the furthest such date there is at most one
\* ChargeDays for every charge the customer settled.
NeverOverExtended ==
    acct.expiry <= Max({now, granted} \cup {subs[s].end : s \in SubIds})
                   + ChargeDays * Cardinality({c \in ChargeIds : payments[c].settled})

\* Apart from the administrator and the writer of a prepayment, nobody takes time from
\* the account unless the very subscription it points at was billed once and is dead.
PaidTimeKept ==
    [][acct'.expiry < acct.expiry =>
         \/ grants' # grants
         \/ \E r \in Slots : PrepaidExtends(r)
         \/ /\ acct.pointer # 0 /\ acct'.pointer = 0
            /\ subs[acct.pointer].billed /\ Dead(subs[acct.pointer].status)]_vars

\* A checkout that was opened and never paid costs the customer nothing: while no
\* subscription was ever billed, only an administrator or a prepayment writes the plan.
AbandonedCheckoutHarmless ==
    [][(\A s \in SubIds : ~subs[s].billed) /\ grants' = grants
            /\ ~(\E r \in Slots : PrepaidExtends(r))
          => acct'.plan = acct.plan /\ acct'.expiry = acct.expiry]_vars

\* A customer whose card is billed has a plan in force in the end, whichever tab's
\* subscription the row points at, as long as no administrator interferes.
ChargedCustomerServed ==
    \A s \in SubIds :
        (subs[s].status = "active" /\ subs[s].end > now /\ grants = 0)
            ~> (EffectivePlan # "free" \/ subs[s].status # "active" \/ subs[s].end <= now
                \/ grants > 0)

\* A prepayment is never wasted: between requests, and while no administrator interferes,
\* the account's plan lasts at least as long as every payment recorded for it.
PrepaymentNotWasted ==
    (\A r \in Slots : At(r, "idle")) /\ grants = 0 /\ crashes = 0
        => \A c \in ChargeIds : Live(c) => acct.expiry >= payments[c].until
=============================================================================
