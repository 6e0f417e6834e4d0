-------------------------- MODULE WebhookDelivery --------------------------
(***************************************************************************)
(* notification-service: event-consumer.service.ts turns a stream entry    *)
(* into a row and a job for each webhook, webhook-delivery.service.ts      *)
(* posts it and tries again, dead-letter.service.ts starts over on request *)
(***************************************************************************)
EXTENDS Integers, FiniteSets

CONSTANTS
    Webhook,        \* webhooks of the client that match the event type
    Runner,         \* worker slots and API calls that run deliverWebhook
    MaxDeliveries,  \* bound: rows of webhook_deliveries
    RetryMax,       \* retryMaxAttempts
    MaxOrders,      \* bound: what operators ask for
    MaxMishaps      \* bound: lost answers, database errors and restarts

ASSUME WebhookAssumption ==
    /\ IsFiniteSet(Runner)
    /\ RetryMax \in Nat \ {0}      \* 5 by default, and no request sets it
    /\ MaxDeliveries \in Nat /\ MaxOrders \in Nat /\ MaxMishaps \in Nat

Delivery == 1 .. MaxDeliveries

VARIABLES
    webhookActive,  \* is_active of each webhook
    entryOpen,      \* the stream entry is not acknowledged
    consumer,       \* what createDeliveries is doing
    delivery,       \* rows of webhook_deliveries
    deliveryJobs,   \* jobs of the queue webhook-delivery, by row
    stalledJobs,    \* jobs that were handed out again once
    runner,         \* what each runner is doing
    accepted,       \* history: how often the endpoint has taken a row
    orders,         \* history: the creation, retries and resends of a row
    mishaps,        \* history: what happened to a row after it was posted
    unqueued,       \* history: rows whose job was lost
    ordersLeft, mishapsLeft

tables == <<webhookActive, entryOpen, delivery, deliveryJobs, stalledJobs>>
chronicle == <<accepted, orders, mishaps, unqueued>>
webhookVars == <<tables, consumer, runner, chronicle, ordersLeft, mishapsLeft>>

NoDelivery == [status |-> "none"]
NotRunning == [pc |-> "idle"]
Waiting == [pc |-> "waiting"]

WebhookInit ==
    /\ webhookActive = [w \in Webhook |-> TRUE]
    /\ entryOpen \in BOOLEAN
    /\ consumer = Waiting
    /\ delivery = [d \in Delivery |-> NoDelivery]
    /\ deliveryJobs = [d \in Delivery |-> 0]
    /\ stalledJobs = {}
    /\ runner = [r \in Runner |-> NotRunning]
    /\ accepted = [d \in Delivery |-> 0]
    /\ orders = [d \in Delivery |-> 0]
    /\ mishaps = [d \in Delivery |-> 0]
    /\ unqueued = {}
    /\ ordersLeft = MaxOrders /\ mishapsLeft = MaxMishaps

Exists(d) == delivery[d] # NoDelivery
Fresh(d) == ~Exists(d) /\ \A c \in Delivery : c < d => Exists(c)
Created(w) == [status |-> "queued", webhook |-> w, attempts |-> 0]

Order(d) == orders' = [orders EXCEPT ![d] = @ + 1]
Mishap == mishapsLeft > 0 /\ mishapsLeft' = mishapsLeft - 1
AddJob(d) == deliveryJobs' = [deliveryJobs EXCEPT ![d] = @ + 1]

-----------------------------------------------------------------------------
\* consumeLoop, or recoverPendingMessages for an entry handled before
ReadEntry ==
    /\ entryOpen /\ consumer = Waiting
    /\ consumer' = [pc |-> "create",
                    left |-> {w \in Webhook : webhookActive[w]}]
    /\ UNCHANGED <<tables, runner, chronicle, ordersLeft, mishapsLeft>>

CreateDelivery(w, d) ==
    /\ consumer.pc = "create" /\ w \in consumer.left
    /\ Fresh(d)
    /\ delivery' = [delivery EXCEPT ![d] = Created(w)]
    /\ consumer' = [pc |-> "queue", left |-> consumer.left \ {w}, row |-> d]
    /\ Order(d)
    /\ UNCHANGED <<webhookActive, entryOpen, deliveryJobs, stalledJobs, runner,
                   accepted, mishaps, unqueued, ordersLeft, mishapsLeft>>

QueueDelivery ==
    /\ consumer.pc = "queue"
    /\ AddJob(consumer.row)
    /\ consumer' = [pc |-> "create", left |-> consumer.left]
    /\ UNCHANGED <<webhookActive, entryOpen, delivery, stalledJobs, runner, chronicle,
                   ordersLeft, mishapsLeft>>

\* fault: the entry is acknowledged when it is read
AcknowledgeFirst ==
    /\ consumer.pc = "create"
    /\ entryOpen' = FALSE
    /\ consumer' = Waiting
    /\ UNCHANGED <<webhookActive, delivery, deliveryJobs, stalledJobs, runner, chronicle,
                   ordersLeft, mishapsLeft>>

Acknowledge ==
    /\ consumer.pc = "create" /\ consumer.left = {}
    /\ entryOpen' = FALSE
    /\ consumer' = Waiting
    /\ UNCHANGED <<webhookActive, delivery, deliveryJobs, stalledJobs, runner, chronicle,
                   ordersLeft, mishapsLeft>>

\* an error or a restart: the entry stays pending and comes again
ConsumerFails ==
    /\ consumer # Waiting
    /\ Mishap
    /\ consumer' = Waiting
    /\ unqueued' = IF consumer.pc = "queue" THEN unqueued \cup {consumer.row} ELSE unqueued
    /\ UNCHANGED <<tables, runner, accepted, orders, mishaps, ordersLeft>>

-----------------------------------------------------------------------------
Row(r) == delivery[runner[r].row]

\* deliverWebhook: an inactive webhook fails the row, whatever its status
ReadDelivery(r, d, job) ==
    /\ runner[r] = NotRunning
    /\ Exists(d)
    /\ IF webhookActive[delivery[d].webhook]
       THEN /\ runner' = [runner EXCEPT ![r] =
                              [pc |-> "post", row |-> d, job |-> job,
                               number |-> delivery[d].attempts + 1]]
            /\ UNCHANGED delivery
       ELSE /\ delivery' = [delivery EXCEPT ![d].status = "failed"]
            /\ UNCHANGED runner

\* the worker takes a job of the queue
StartJob(r, d) ==
    /\ deliveryJobs[d] > 0
    /\ deliveryJobs' = [deliveryJobs EXCEPT ![d] = @ - 1]
    /\ ReadDelivery(r, d, TRUE)
    /\ UNCHANGED <<webhookActive, entryOpen, consumer, stalledJobs, chronicle,
                   ordersLeft, mishapsLeft>>

\* a query or an update before the try throws: the job has one attempt and is gone
StartFails(r, d) ==
    /\ runner[r] = NotRunning
    /\ deliveryJobs[d] > 0
    /\ Mishap
    /\ deliveryJobs' = [deliveryJobs EXCEPT ![d] = @ - 1]
    /\ unqueued' = unqueued \cup {d}
    /\ UNCHANGED <<webhookActive, entryOpen, delivery, stalledJobs, consumer, runner,
                   accepted, orders, mishaps, ordersLeft>>

Go(r, pc, result) ==
    runner' = [runner EXCEPT ![r] = [pc |-> pc, row |-> @.row, job |-> @.job,
                                     number |-> @.number, result |-> result]]

\* axios.post: the endpoint takes the event, answers with an error, or does not
\* answer; it may have taken an event whose answer is lost
Post(r) ==
    /\ runner[r].pc = "post"
    /\ \/ /\ Go(r, "record", "success")
          /\ accepted' = [accepted EXCEPT ![runner[r].row] = @ + 1]
          /\ UNCHANGED <<mishaps, mishapsLeft>>
       \/ /\ \E result \in {"final", "again"} : Go(r, "record", result)
          /\ UNCHANGED <<accepted, mishaps, mishapsLeft>>
       \/ /\ Mishap
          /\ Go(r, "record", "again")
          /\ accepted' = [accepted EXCEPT ![runner[r].row] = @ + 1]
          /\ mishaps' = [mishaps EXCEPT ![runner[r].row] = @ + 1]
    /\ UNCHANGED <<tables, consumer, orders, unqueued, ordersLeft>>

RecordAttempt(r) ==
    /\ runner[r].pc = "record"
    /\ Go(r, "update", runner[r].result)
    /\ UNCHANGED <<tables, consumer, chronicle, ordersLeft, mishapsLeft>>

\* the database fails inside the try: the attempt is recorded again and handled
\* as one that did not reach the endpoint
RecordFails(r) ==
    /\ runner[r].pc \in {"record", "update"}
    /\ runner[r].pc = "update" => runner[r].result = "success"
    /\ Mishap
    /\ Go(r, "update", "again")
    /\ mishaps' = [mishaps EXCEPT ![runner[r].row] =
                        IF runner[r].result = "success" THEN @ + 1 ELSE @]
    /\ UNCHANGED <<tables, consumer, accepted, orders, unqueued, ordersLeft>>

SetRow(r, status) ==
    delivery' = [delivery EXCEPT ![runner[r].row].status = status,
                                 ![runner[r].row].attempts = runner[r].number]

\* shouldRetry
Retries(r) == runner[r].number < RetryMax /\ runner[r].result = "again"

\* fault: the updated row falls through to the retry
MarkSentFallsThrough(r) ==
    /\ runner[r].pc = "update" /\ runner[r].result = "success"
    /\ SetRow(r, "sent")
    /\ Go(r, "enqueue", "again")
    /\ UNCHANGED <<webhookActive, entryOpen, deliveryJobs, stalledJobs, consumer, chronicle,
                   ordersLeft, mishapsLeft>>

MarkSent(r) ==
    /\ runner[r].pc = "update" /\ runner[r].result = "success"
    /\ SetRow(r, "sent")
    /\ Go(r, "done", runner[r].result)
    /\ UNCHANGED <<webhookActive, entryOpen, deliveryJobs, stalledJobs, consumer, chronicle,
                   ordersLeft, mishapsLeft>>

\* handleFailure: the dead letter
MarkFailed(r) ==
    /\ runner[r].pc = "update" /\ runner[r].result # "success"
    /\ ~Retries(r)
    /\ SetRow(r, "failed")
    /\ Go(r, "done", runner[r].result)
    /\ UNCHANGED <<webhookActive, entryOpen, deliveryJobs, stalledJobs, consumer, chronicle,
                   ordersLeft, mishapsLeft>>

\* fault: next_retry_at is set and nobody queues the row
MarkRetryOnly(r) ==
    /\ runner[r].pc = "update" /\ runner[r].result # "success"
    /\ Retries(r)
    /\ SetRow(r, "queued")
    /\ Go(r, "done", "again")
    /\ UNCHANGED <<webhookActive, entryOpen, deliveryJobs, stalledJobs, consumer, chronicle,
                   ordersLeft, mishapsLeft>>

\* handleFailure: the row waits for another attempt
MarkRetry(r) ==
    /\ runner[r].pc = "update" /\ runner[r].result # "success"
    /\ Retries(r)
    /\ SetRow(r, "queued")
    /\ Go(r, "enqueue", "again")
    /\ UNCHANGED <<webhookActive, entryOpen, deliveryJobs, stalledJobs, consumer, chronicle,
                   ordersLeft, mishapsLeft>>

EnqueueRetry(r) ==
    /\ runner[r].pc = "enqueue"
    /\ AddJob(runner[r].row)
    /\ Go(r, "done", "again")
    /\ UNCHANGED <<webhookActive, entryOpen, delivery, stalledJobs, consumer, chronicle,
                   ordersLeft, mishapsLeft>>

\* the job is completed, the request answered
Finish(r) ==
    /\ runner[r].pc = "done"
    /\ runner' = [runner EXCEPT ![r] = NotRunning]
    /\ UNCHANGED <<tables, consumer, chronicle, ordersLeft, mishapsLeft>>

\* handleFailure or the second record throws: the job has one attempt and is gone
RunFails(r) ==
    /\ runner[r].pc \in {"update", "enqueue"} /\ runner[r].result # "success"
    /\ Mishap
    /\ unqueued' = unqueued \cup {runner[r].row}
    /\ runner' = [runner EXCEPT ![r] = NotRunning]
    /\ UNCHANGED <<tables, consumer, accepted, orders, mishaps, ordersLeft>>

\* the process restarts in the middle: a stalled job is handed out once more
RunStalls(r) ==
    /\ runner[r] # NotRunning
    /\ Mishap
    /\ LET d == runner[r].row
           again == runner[r].job /\ d \notin stalledJobs
           repeats == /\ again
                      /\ \/ runner[r].pc = "done"
                         \/ runner[r].pc # "post" /\ runner[r].result = "success"
       IN  /\ deliveryJobs' = [deliveryJobs EXCEPT ![d] = IF again THEN @ + 1 ELSE @]
           /\ stalledJobs' = IF again THEN stalledJobs \cup {d} ELSE stalledJobs
           /\ unqueued' = IF again \/ runner[r].pc = "done" THEN unqueued ELSE unqueued \cup {d}
           /\ mishaps' = [mishaps EXCEPT ![d] = IF repeats THEN @ + 1 ELSE @]
    /\ runner' = [runner EXCEPT ![r] = NotRunning]
    /\ UNCHANGED <<webhookActive, entryOpen, delivery, consumer, accepted, orders, ordersLeft>>

-----------------------------------------------------------------------------
Ordered == ordersLeft > 0 /\ ordersLeft' = ordersLeft - 1

\* retryDeliveriesBulk posts at once, whatever the status and the jobs of a row
RetryNow(r, d) ==
    /\ Ordered
    /\ ReadDelivery(r, d, FALSE)
    /\ Order(d)
    /\ UNCHANGED <<webhookActive, entryOpen, deliveryJobs, stalledJobs, consumer,
                   accepted, mishaps, unqueued, mishapsLeft>>

\* DeadLetterService.resend: the row, then the job by a runner of its own
Resend(r, d) ==
    /\ Ordered
    /\ runner[r] = NotRunning
    /\ delivery[d].status = "failed"
    /\ delivery' = [delivery EXCEPT ![d].status = "queued", ![d].attempts = 0]
    /\ runner' = [runner EXCEPT ![r] = [pc |-> "enqueue", row |-> d, job |-> FALSE,
                                        number |-> 0, result |-> "again"]]
    /\ Order(d)
    /\ UNCHANGED <<webhookActive, entryOpen, deliveryJobs, stalledJobs, consumer,
                   accepted, mishaps, unqueued, mishapsLeft>>

\* updateWebhook
SwitchWebhook(w) ==
    /\ Ordered
    /\ webhookActive' = [webhookActive EXCEPT ![w] = ~@]
    /\ UNCHANGED <<entryOpen, delivery, deliveryJobs, stalledJobs, consumer, runner,
                   chronicle, mishapsLeft>>

-----------------------------------------------------------------------------
Consumer ==
    \/ ReadEntry
    \/ \E w \in Webhook, d \in Delivery : CreateDelivery(w, d)
    \/ QueueDelivery
    \/ Acknowledge

Running(r) ==
    \/ Post(r) /\ mishapsLeft' = mishapsLeft
    \/ RecordAttempt(r) \/ MarkSent(r) \/ MarkFailed(r) \/ MarkRetry(r) \/ EnqueueRetry(r)
    \/ Finish(r)

WebhookNext ==
    \/ Consumer
    \/ ConsumerFails
    \/ \E r \in Runner :
        \/ \E d \in Delivery : StartJob(r, d) \/ StartFails(r, d)
        \/ Post(r)
        \/ RecordAttempt(r)
        \/ RecordFails(r)
        \/ MarkSent(r)
        \/ MarkFailed(r)
        \/ MarkRetry(r)
        \/ EnqueueRetry(r)
        \/ Finish(r)
        \/ RunFails(r)
        \/ RunStalls(r)
        \/ \E d \in Delivery : RetryNow(r, d) \/ Resend(r, d)
    \/ \E w \in Webhook : SwitchWebhook(w)

WebhookSpec == WebhookInit /\ [][WebhookNext]_webhookVars

\* the consumer loop and the worker slots never stop, a request is answered
WebhookFairness ==
    /\ WF_webhookVars(Consumer)
    /\ \A r \in Runner : WF_webhookVars(Running(r))
    /\ \A d \in Delivery : WF_webhookVars(\E r \in Runner : StartJob(r, d))

-----------------------------------------------------------------------------
WebhookTypeOK ==
    /\ \A d \in Delivery : Exists(d) =>
        /\ delivery[d].status \in {"queued", "sent", "failed"}
        /\ delivery[d].attempts \in 0 .. RetryMax + MaxOrders + MaxMishaps
    /\ deliveryJobs \in [Delivery -> Nat]
    /\ \A r \in Runner : runner[r] # NotRunning => Exists(runner[r].row)
    /\ unqueued \subseteq Delivery

\* The endpoint takes a row once for each time it was ordered (created, retried
\* in bulk or resent), and once more only when an answer or a database write was
\* lost after the post, or the process restarted (deliverWebhook never looks at
\* the status of the row).
AcceptedAsOrdered ==
    \A d \in Delivery : accepted[d] <= orders[d] + mishaps[d]

\* A queued row has a job, or somebody who is about to add one, so it will be
\* tried again; only a lost job leaves it alone: a restart or an error between the
\* row and the queue, which have no transaction in common, or a database error that
\* ends the one attempt of the job before the row is updated.
QueuedIsCarried ==
    \A d \in Delivery : Exists(d) /\ delivery[d].status = "queued" =>
        \/ deliveryJobs[d] > 0
        \/ \E r \in Runner : runner[r] # NotRunning /\ runner[r].row = d /\ runner[r].pc # "done"
        \/ consumer # Waiting /\ consumer.pc = "queue" /\ consumer.row = d
        \/ d \in unqueued

Ended(w) ==
    \E d \in Delivery :
        Exists(d) /\ delivery[d].webhook = w /\ delivery[d].status \in {"sent", "failed"}

\* An event reaches each webhook: a row of it ends as sent or as a dead letter,
\* whatever failed on the way, unless a job was lost or the webhook switched off.
DeliveryEnds ==
    \A w \in Webhook :
        entryOpen /\ webhookActive[w] ~> Ended(w) \/ unqueued # {} \/ ~webhookActive[w]
=============================================================================
