---------------------------- MODULE WebhookProofs ----------------------------
(***************************************************************************)
(* Proofs about the delivery of webhooks, for every set of webhooks and    *)
(* runners and every number of rows, attempts, orders and mishaps.         *)
(***************************************************************************)
EXTENDS WebhookDelivery, FiniteSetTheorems, TLAPS

-----------------------------------------------------------------------------
(* The invariants *)

ADelivery == [status : {"queued", "sent", "failed"}, webhook : Webhook, attempts : Nat]
APosting == [pc : {"post"}, row : Delivery, job : BOOLEAN, number : Nat]
AnAnswered == [pc : {"record", "update", "enqueue", "done"}, row : Delivery, job : BOOLEAN,
               number : Nat, result : {"success", "final", "again"}]
ACreating == [pc : {"create"}, left : SUBSET Webhook]
AQueueing == [pc : {"queue"}, left : SUBSET Webhook, row : Delivery]

TablesTyping ==
    /\ webhookActive \in [Webhook -> BOOLEAN]
    /\ consumer \in {Waiting} \cup ACreating \cup AQueueing
    /\ delivery \in [Delivery -> {NoDelivery} \cup ADelivery]
    /\ deliveryJobs \in [Delivery -> Nat]
    /\ accepted \in [Delivery -> Nat]
    /\ orders \in [Delivery -> Nat]
    /\ mishaps \in [Delivery -> Nat]
    /\ unqueued \subseteq Delivery
    /\ ordersLeft \in 0 .. MaxOrders /\ mishapsLeft \in 0 .. MaxMishaps

ARunner == {NotRunning} \cup APosting \cup AnAnswered

Typing == TablesTyping /\ runner \in [Runner -> ARunner]

\* what is queued, run or told of is a row
RowsExist ==
    /\ consumer.pc = "queue" => Exists(consumer.row)
    /\ \A d \in Delivery : deliveryJobs[d] > 0 \/ orders[d] > 0 => Exists(d)
    /\ \A r \in Runner : runner[r] # NotRunning => Exists(runner[r].row)

\* a retry goes on, and never after a success
EnqueuesAgain == \A r \in Runner : runner[r].pc = "enqueue" => runner[r].result = "again"

\* a row is ordered when it is made, and by requests
OrdersBound ==
    \A d \in Delivery : /\ orders[d] <= 1 + MaxOrders - ordersLeft
                        /\ mishaps[d] <= MaxMishaps - mishapsLeft

\* runner e may still post row d, or hand it on to one that does
Carries(e, d) ==
    /\ e # NotRunning
    /\ e.row = d
    /\ \/ e.pc \in {"post", "enqueue"}
       \/ e.pc \in {"record", "update"} /\ e.result # "success"

Carriers(d) == {r \in Runner : Carries(runner[r], d)}
Carried(e, d) == IF Carries(e, d) THEN 1 ELSE 0

\* the consumer has made row d and is about to queue it
Queued(c, d) == IF c.pc = "queue" /\ c.row = d THEN 1 ELSE 0

\* the orders and mishaps of a row that account for no post to come
Spare(d) ==
    orders[d] + mishaps[d] - deliveryJobs[d] - Cardinality(Carriers(d)) - Queued(consumer, d)

\* the number of an attempt, where n are spare
NumberBound(e, n) ==
    e # NotRunning /\ e.pc # "done" =>
        e.number <= RetryMax - 1 + n + Carried(e, e.row)

\* every post, and every attempt beyond the last retry, takes an order or a mishap
Ledger ==
    \A d \in Delivery :
        /\ accepted[d] <= Spare(d)
        /\ Exists(d) => delivery[d].attempts <= RetryMax - 1 + Spare(d)
        /\ \A r \in Runner : runner[r] # NotRunning /\ runner[r].row = d =>
                                NumberBound(runner[r], Spare(d))

WebhookInv ==
    /\ Typing /\ RowsExist /\ EnqueuesAgain /\ OrdersBound /\ Ledger /\ QueuedIsCarried

-----------------------------------------------------------------------------
(* Accounting *)

\* A runner that goes on changes the number of those that carry a row by its own part.
LEMMA CarrierCount ==
    ASSUME runner \in [Runner -> ARunner], NEW r \in Runner, NEW e,
           runner' = [runner EXCEPT ![r] = e], NEW d
    PROVE  /\ Cardinality(Carriers(d)) \in Nat /\ Cardinality(Carriers(d)') \in Nat
           /\ Cardinality(Carriers(d)') =
                Cardinality(Carriers(d)) + Carried(e, d) - Carried(runner[r], d)
  <1> DEFINE C == Carriers(d)
  <1>1. IsFiniteSet(C)
    <2>1. C \subseteq Runner
      BY DEF Carriers
    <2> QED BY <2>1, WebhookAssumption, FS_Subset
  <1>2. Carriers(d)' = IF Carries(e, d) THEN C \cup {r} ELSE C \ {r}
    BY DEF Carriers
  <1>3. r \in C <=> Carries(runner[r], d)
    BY DEF Carriers
  <1> HIDE DEF C
  <1>4. /\ Cardinality(C) \in Nat
        /\ Cardinality(C \cup {r}) = IF r \in C THEN Cardinality(C) ELSE Cardinality(C) + 1
        /\ Cardinality(C \ {r}) = IF r \in C THEN Cardinality(C) - 1 ELSE Cardinality(C)
    BY <1>1, FS_CardinalityType, FS_AddElement, FS_RemoveElement
  <1>5. Cardinality(C \cup {r}) \in Nat /\ Cardinality(C \ {r}) \in Nat
    BY <1>1, FS_AddElement, FS_RemoveElement, FS_CardinalityType
  <1>6. CASE Carries(e, d)
    BY <1>2, <1>3, <1>4, <1>5, <1>6 DEF Carried, C
  <1>7. CASE ~Carries(e, d)
    BY <1>2, <1>3, <1>4, <1>5, <1>7 DEF Carried, C
  <1> QED BY <1>6, <1>7

\* What is spare is a number.
LEMMA SpareIsInt ==
    ASSUME Typing, NEW d \in Delivery
    PROVE  /\ Spare(d) \in Int /\ Cardinality(Carriers(d)) \in Nat
           /\ Spare(d) <= orders[d] + mishaps[d]
  <1>1. Cardinality(Carriers(d)) \in Nat
    <2>1. Carriers(d) \subseteq Runner
      BY DEF Carriers
    <2> QED BY <2>1, WebhookAssumption, FS_Subset, FS_CardinalityType
  <1>2. orders[d] \in Nat /\ mishaps[d] \in Nat /\ deliveryJobs[d] \in Nat
    BY DEF Typing, TablesTyping
  <1>3. Queued(consumer, d) \in {0, 1}
    BY DEF Queued
  <1> QED BY <1>1, <1>2, <1>3 DEF Spare

\* A runner goes on as e, where the rows of G gain something spare.
LEMMA RunnerLedger ==
    ASSUME Typing, Ledger, TablesTyping', NEW r \in Runner, NEW e \in ARunner, NEW G,
           runner' = [runner EXCEPT ![r] = e], UNCHANGED consumer,
           \A d \in Delivery :
              /\ orders'[d] + mishaps'[d] - deliveryJobs'[d] - Carried(e, d) >=
                   orders[d] + mishaps[d] - deliveryJobs[d] - Carried(runner[r], d)
                     + (IF d \in G THEN 1 ELSE 0)
              /\ accepted'[d] <= accepted[d] + (IF d \in G THEN 1 ELSE 0)
              /\ Exists(d)' =>
                   \/ Exists(d) /\ delivery'[d].attempts <= delivery[d].attempts
                   \/ delivery'[d].attempts <= RetryMax - 1 + Spare(d)
                                                + (IF d \in G THEN 1 ELSE 0),
           e # NotRunning => NumberBound(e, Spare(e.row) + (IF e.row \in G THEN 1 ELSE 0))
    PROVE  Ledger'
  <1> SUFFICES ASSUME NEW d \in Delivery
               PROVE  /\ accepted'[d] <= Spare(d)'
                      /\ Exists(d)' => delivery'[d].attempts <= RetryMax - 1 + Spare(d)'
                      /\ \A q \in Runner : runner'[q] # NotRunning /\ runner'[q].row = d =>
                                              NumberBound(runner'[q], Spare(d)')
    BY DEF Ledger, NumberBound, Carried, Carries
  <1> DEFINE g == IF d \in G THEN 1 ELSE 0
             new == Spare(d)'
  <1>1. runner \in [Runner -> ARunner]
    BY DEF Typing
  <1>2. /\ orders[d] \in Nat /\ mishaps[d] \in Nat /\ deliveryJobs[d] \in Nat
        /\ orders'[d] \in Nat /\ mishaps'[d] \in Nat /\ deliveryJobs'[d] \in Nat
        /\ accepted[d] \in Nat /\ accepted'[d] \in Nat
    BY DEF Typing, TablesTyping
  <1>3. Queued(consumer, d) \in {0, 1} /\ Queued(consumer', d) = Queued(consumer, d)
    BY DEF Queued
  <1>4. Carried(e, d) \in {0, 1} /\ Carried(runner[r], d) \in {0, 1}
    BY DEF Carried
  <1>5. new = orders'[d] + mishaps'[d] - deliveryJobs'[d] - Cardinality(Carriers(d)')
                - Queued(consumer', d)
    BY DEF Spare
  <1>6. Spare(d) \in Int
    BY SpareIsInt
  <1>7. new \in Int /\ new >= Spare(d) + g /\ g \in {0, 1}
    <2> HIDE DEF new
    <2>1. /\ Cardinality(Carriers(d)) \in Nat /\ Cardinality(Carriers(d)') \in Nat
          /\ Cardinality(Carriers(d)') =
               Cardinality(Carriers(d)) + Carried(e, d) - Carried(runner[r], d)
      BY <1>1, CarrierCount
    <2>2. /\ orders'[d] + mishaps'[d] - deliveryJobs'[d] - Carried(e, d) >=
               orders[d] + mishaps[d] - deliveryJobs[d] - Carried(runner[r], d) + g
          /\ g \in {0, 1}
      OBVIOUS
    <2> HIDE DEF g
    <2> QED BY <1>2, <1>3, <1>4, <1>5, <2>1, <2>2 DEF Spare
  <1>8. accepted'[d] <= accepted[d] + g
    OBVIOUS
  <1>9. /\ Exists(d) => delivery[d].attempts \in Nat
        /\ Exists(d)' => delivery'[d].attempts \in Nat
    BY DEF Typing, TablesTyping, Exists, ADelivery
  <1>10. Exists(d)' => \/ Exists(d) /\ delivery'[d].attempts <= delivery[d].attempts
                       \/ delivery'[d].attempts <= RetryMax - 1 + Spare(d) + g
    OBVIOUS
  <1>11. e # NotRunning /\ e.row = d => NumberBound(e, Spare(d) + g)
    OBVIOUS
  <1>12. RetryMax \in Nat
    BY WebhookAssumption
  <1> HIDE DEF new, g
  <1>13. accepted'[d] <= new
    BY <1>2, <1>6, <1>7, <1>8 DEF Ledger
  <1>14. Exists(d)' => delivery'[d].attempts <= RetryMax - 1 + new
    <2> SUFFICES ASSUME Exists(d)' PROVE delivery'[d].attempts <= RetryMax - 1 + new
      OBVIOUS
    <2>1. CASE Exists(d) /\ delivery'[d].attempts <= delivery[d].attempts
      <3>1. delivery[d].attempts <= RetryMax - 1 + Spare(d)
        BY <2>1 DEF Ledger
      <3> QED BY <1>6, <1>7, <1>9, <1>12, <2>1, <3>1
    <2>2. CASE delivery'[d].attempts <= RetryMax - 1 + Spare(d) + g
      BY <1>6, <1>7, <1>9, <1>12, <2>2
    <2> QED BY <1>10, <2>1, <2>2
  <1>15. ASSUME NEW q \in Runner, runner'[q] # NotRunning, runner'[q].row = d
         PROVE  NumberBound(runner'[q], new)
    <2>1. PICK f : f = runner'[q]
      OBVIOUS
    <2>2. f \in ARunner
      BY <1>1, <2>1
    <2>3. f.pc # "done" => f.number \in Nat
      BY <1>15, <2>1, <2>2 DEF ARunner, APosting, AnAnswered
    <2>4. NumberBound(f, Spare(d) + g) \/ NumberBound(f, Spare(d))
      <3>1. CASE q = r
        BY <1>1, <1>11, <1>15, <2>1, <3>1
      <3>2. CASE q # r
        BY <1>1, <1>15, <2>1, <3>2 DEF Ledger
      <3> QED BY <3>1, <3>2
    <2>5. Carried(f, f.row) \in {0, 1}
      BY DEF Carried
    <2>6. NumberBound(f, new)
      BY <1>6, <1>7, <1>12, <2>3, <2>4, <2>5 DEF NumberBound
    <2> QED BY <2>1, <2>6
  <1> QED BY <1>13, <1>14, <1>15 DEF new

\* A runner goes on as e, and accounts for what it takes.
LEMMA LedgerStays ==
    ASSUME Typing, Ledger, TablesTyping', NEW r \in Runner, NEW e \in ARunner,
           runner' = [runner EXCEPT ![r] = e], UNCHANGED consumer,
           \A d \in Delivery :
              /\ orders'[d] + mishaps'[d] - deliveryJobs'[d] - Carried(e, d) >=
                   orders[d] + mishaps[d] - deliveryJobs[d] - Carried(runner[r], d)
              /\ accepted'[d] <= accepted[d]
              /\ Exists(d)' =>
                   \/ Exists(d) /\ delivery'[d].attempts <= delivery[d].attempts
                   \/ delivery'[d].attempts <= RetryMax - 1 + Spare(d),
           e # NotRunning => NumberBound(e, Spare(e.row))
    PROVE  Ledger'
  <1>1. \A d \in Delivery :
            /\ orders[d] \in Nat /\ mishaps[d] \in Nat /\ deliveryJobs[d] \in Nat
            /\ accepted[d] \in Nat /\ Carried(runner[r], d) \in {0, 1} /\ Spare(d) \in Int
    BY SpareIsInt DEF Typing, TablesTyping, Carried
  <1>2. e # NotRunning => e.row \in Delivery
    BY DEF ARunner, APosting, AnAnswered
  <1>3. PICK G : G = {}
    OBVIOUS
  <1>4. e # NotRunning => NumberBound(e, Spare(e.row) + (IF e.row \in G THEN 1 ELSE 0))
    BY <1>1, <1>2, <1>3
  <1>5. RetryMax \in Nat
    BY WebhookAssumption
  <1>6. \A d \in Delivery :
            /\ orders[d] + mishaps[d] - deliveryJobs[d] - Carried(runner[r], d)
                 + (IF d \in G THEN 1 ELSE 0) =
               orders[d] + mishaps[d] - deliveryJobs[d] - Carried(runner[r], d)
            /\ accepted[d] + (IF d \in G THEN 1 ELSE 0) = accepted[d]
            /\ RetryMax - 1 + Spare(d) + (IF d \in G THEN 1 ELSE 0) = RetryMax - 1 + Spare(d)
    BY <1>1, <1>3, <1>5
  <1>7. \A d \in Delivery :
            /\ orders'[d] + mishaps'[d] - deliveryJobs'[d] - Carried(e, d) >=
                 orders[d] + mishaps[d] - deliveryJobs[d] - Carried(runner[r], d)
                   + (IF d \in G THEN 1 ELSE 0)
            /\ accepted'[d] <= accepted[d] + (IF d \in G THEN 1 ELSE 0)
            /\ Exists(d)' =>
                 \/ Exists(d) /\ delivery'[d].attempts <= delivery[d].attempts
                 \/ delivery'[d].attempts <= RetryMax - 1 + Spare(d)
                                              + (IF d \in G THEN 1 ELSE 0)
    BY <1>6
  <1> QED BY <1>4, <1>7, RunnerLedger

-----------------------------------------------------------------------------
(* Steps *)

\* runner e is at work on row d
WorksOn(e, d) == e # NotRunning /\ e.row = d /\ e.pc # "done"

\* row d is to be tried again
InQueue(d) == Exists(d) /\ delivery[d].status = "queued"

\* A step of a runner, which goes on as e.
LEMMA RunnerKeeps ==
    ASSUME WebhookInv, TablesTyping', NEW r \in Runner, NEW e \in ARunner,
           runner' = [runner EXCEPT ![r] = e], UNCHANGED consumer, Ledger', OrdersBound',
           e # NotRunning => Exists(e.row)',
           e.pc = "enqueue" => e.result = "again",
           unqueued \subseteq unqueued',
           \A d \in Delivery :
              /\ Exists(d) => Exists(d)'
              /\ deliveryJobs'[d] > 0 \/ orders'[d] > 0 => Exists(d)'
              /\ InQueue(d)' =>
                   \/ deliveryJobs'[d] > 0 \/ WorksOn(e, d) \/ d \in unqueued'
                   \/ InQueue(d) /\ ~WorksOn(runner[r], d) /\ deliveryJobs'[d] >= deliveryJobs[d]
    PROVE  WebhookInv'
  <1>1. /\ runner \in [Runner -> ARunner]
        /\ runner'[r] = e /\ \A q \in Runner : q # r => runner'[q] = runner[q]
    BY DEF WebhookInv, Typing
  <1>2. Typing'
    BY <1>1 DEF Typing
  <1>3. RowsExist'
    <2>1. consumer.pc = "queue" => Exists(consumer.row)'
      <3>1. consumer.pc = "queue" => consumer.row \in Delivery
        BY DEF WebhookInv, Typing, TablesTyping, Waiting, ACreating, AQueueing
      <3> QED BY <3>1 DEF WebhookInv, RowsExist
    <2>2. ASSUME NEW q \in Runner, runner'[q] # NotRunning
          PROVE  delivery'[runner'[q].row] # NoDelivery
      <3>1. CASE q = r
        BY <1>1, <2>2, <3>1 DEF Exists
      <3>2. CASE q # r
        <4>1. runner[q].row \in Delivery
          BY <1>1, <2>2, <3>2 DEF ARunner, APosting, AnAnswered
        <4> QED BY <1>1, <2>2, <3>2, <4>1 DEF WebhookInv, RowsExist, Exists
      <3> QED BY <3>1, <3>2
    <2> QED BY <2>1, <2>2 DEF RowsExist, Exists
  <1>4. EnqueuesAgain'
    BY <1>1 DEF WebhookInv, EnqueuesAgain
  <1>5. QueuedIsCarried'
    <2> SUFFICES ASSUME NEW d \in Delivery, InQueue(d)'
                 PROVE  \/ deliveryJobs'[d] > 0
                        \/ \E q \in Runner : WorksOn(runner'[q], d)
                        \/ consumer # Waiting /\ consumer.pc = "queue" /\ consumer.row = d
                        \/ d \in unqueued'
      BY DEF QueuedIsCarried, WorksOn, InQueue
    <2>1. CASE deliveryJobs'[d] > 0 \/ WorksOn(e, d) \/ d \in unqueued'
      BY <1>1, <2>1
    <2>2. CASE InQueue(d) /\ ~WorksOn(runner[r], d) /\ deliveryJobs'[d] >= deliveryJobs[d]
      <3>1. deliveryJobs[d] \in Nat /\ deliveryJobs'[d] \in Nat
        BY DEF WebhookInv, Typing, TablesTyping
      <3>2. \/ deliveryJobs[d] > 0
            \/ \E q \in Runner : WorksOn(runner[q], d)
            \/ consumer # Waiting /\ consumer.pc = "queue" /\ consumer.row = d
            \/ d \in unqueued
        BY <2>2 DEF WebhookInv, QueuedIsCarried, WorksOn, InQueue
      <3> QED BY <1>1, <2>2, <3>1, <3>2
    <2> QED BY <2>1, <2>2
  <1> QED BY <1>2, <1>3, <1>4, <1>5 DEF WebhookInv

\* What a runner becomes while it works on its row.
LEMMA GoForm ==
    ASSUME Typing, NEW r \in Runner, runner[r] # NotRunning,
           NEW pc \in {"record", "update", "enqueue", "done"},
           NEW result \in {"success", "final", "again"}, Go(r, pc, result)
    PROVE  \E e \in AnAnswered :
              /\ runner' = [runner EXCEPT ![r] = e]
              /\ e.pc = pc /\ e.result = result /\ e.row = runner[r].row
              /\ e.number = runner[r].number
  <1> DEFINE e == [pc |-> pc, row |-> runner[r].row, job |-> runner[r].job,
                   number |-> runner[r].number, result |-> result]
  <1>1. runner \in [Runner -> ARunner] /\ runner[r] \in APosting \cup AnAnswered
    BY DEF Typing, ARunner
  <1>2. /\ runner[r].row \in Delivery /\ runner[r].job \in BOOLEAN /\ runner[r].number \in Nat
    BY <1>1 DEF APosting, AnAnswered
  <1>3. e \in AnAnswered
    BY <1>2 DEF AnAnswered
  <1>4. runner' = [runner EXCEPT ![r] = e]
    BY DEF Go
  <1> QED BY <1>3, <1>4

\* A runner that works on a row that exists.
LEMMA RunnerAt ==
    ASSUME WebhookInv, NEW r \in Runner, runner[r] # NotRunning
    PROVE  /\ runner[r] \in ARunner /\ runner[r] \in APosting \cup AnAnswered
           /\ runner[r].row \in Delivery
           /\ Exists(runner[r].row) /\ delivery[runner[r].row] \in ADelivery
           /\ runner[r].number \in Nat
           /\ runner[r].pc = "post" <=> runner[r] \in APosting
           /\ NumberBound(runner[r], Spare(runner[r].row))
  <1>1. runner[r] \in APosting \cup AnAnswered
    BY DEF WebhookInv, Typing, ARunner
  <1>2. runner[r].row \in Delivery /\ runner[r].number \in Nat
    BY <1>1 DEF APosting, AnAnswered
  <1>3. Exists(runner[r].row)
    BY DEF WebhookInv, RowsExist
  <1>4. delivery[runner[r].row] \in ADelivery
    BY <1>2, <1>3 DEF WebhookInv, Typing, TablesTyping, Exists
  <1>5. runner[r].pc = "post" <=> runner[r] \in APosting
    BY <1>1 DEF APosting, AnAnswered
  <1>6. NumberBound(runner[r], Spare(runner[r].row))
    BY <1>2 DEF WebhookInv, Ledger
  <1> QED BY <1>1, <1>2, <1>3, <1>4, <1>5, <1>6 DEF ARunner

\* The bounds stay as long as nothing is ordered and nothing goes wrong.
LEMMA BoundsStay ==
    ASSUME OrdersBound, UNCHANGED <<orders, mishaps, ordersLeft, mishapsLeft>>
    PROVE  OrdersBound'
  BY DEF OrdersBound

\* A step that changes the runner alone and neither ends nor gains a post.
LEMMA PlainStep ==
    ASSUME WebhookInv, NEW r \in Runner, NEW e \in ARunner, runner[r] # NotRunning,
           runner' = [runner EXCEPT ![r] = e],
           UNCHANGED <<tables, consumer, chronicle, ordersLeft, mishapsLeft>>,
           e # NotRunning => e.row = runner[r].row /\ e.number = runner[r].number,
           e.pc = "enqueue" => e.result = "again",
           \A d \in Delivery : Carried(e, d) = Carried(runner[r], d),
           \A d \in Delivery : WorksOn(runner[r], d) => WorksOn(e, d),
           e # NotRunning /\ e.pc # "done" => runner[r].pc # "done"
    PROVE  WebhookInv'
  <1>1. /\ UNCHANGED <<webhookActive, delivery, deliveryJobs, accepted, orders, mishaps, unqueued>>
        /\ TablesTyping
    BY DEF tables, chronicle, WebhookInv, Typing
  <1>2. TablesTyping'
    BY <1>1 DEF TablesTyping
  <1>3. \A d \in Delivery : orders[d] \in Nat /\ mishaps[d] \in Nat /\ deliveryJobs[d] \in Nat
                             /\ accepted[d] \in Nat /\ Carried(e, d) \in {0, 1}
    BY <1>1 DEF TablesTyping, Carried
  <1>4. \A d \in Delivery : Exists(d) => delivery[d].attempts \in Nat
    BY <1>1 DEF TablesTyping, Exists, ADelivery
  <1>5. runner[r].row \in Delivery /\ NumberBound(runner[r], Spare(runner[r].row))
    BY RunnerAt
  <1>6. Spare(runner[r].row) \in Int
    BY <1>5, SpareIsInt DEF WebhookInv
  <1>7. e # NotRunning => NumberBound(e, Spare(e.row))
    BY <1>5 DEF NumberBound
  <1>8. Ledger'
    <2>1. \A d \in Delivery :
              /\ orders'[d] + mishaps'[d] - deliveryJobs'[d] - Carried(e, d) >=
                   orders[d] + mishaps[d] - deliveryJobs[d] - Carried(runner[r], d)
              /\ accepted'[d] <= accepted[d]
              /\ Exists(d)' => Exists(d) /\ delivery'[d].attempts <= delivery[d].attempts
      BY <1>1, <1>3, <1>4 DEF Exists
    <2> QED BY <1>2, <1>7, <2>1, LedgerStays DEF WebhookInv
  <1>9. OrdersBound'
    BY BoundsStay DEF WebhookInv, chronicle
  <1>10. e # NotRunning => Exists(e.row)'
    BY <1>1, RunnerAt DEF Exists
  <1>11. \A d \in Delivery :
              /\ Exists(d) => Exists(d)'
              /\ deliveryJobs'[d] > 0 \/ orders'[d] > 0 => Exists(d)'
              /\ InQueue(d)' =>
                   \/ WorksOn(e, d)
                   \/ InQueue(d) /\ ~WorksOn(runner[r], d) /\ deliveryJobs'[d] >= deliveryJobs[d]
    BY <1>1, <1>3 DEF Exists, InQueue, WebhookInv, RowsExist
  <1> QED BY <1>1, <1>2, <1>8, <1>9, <1>10, <1>11, RunnerKeeps

\* Something goes wrong, once.
LEMMA MishapBounds ==
    ASSUME WebhookInv, Mishap, UNCHANGED <<orders, ordersLeft>>,
           \A d \in Delivery : mishaps'[d] \in Nat /\ mishaps'[d] <= mishaps[d] + 1
    PROVE  OrdersBound' /\ mishapsLeft' \in 0 .. MaxMishaps
  <1>1. /\ mishapsLeft \in 0 .. MaxMishaps /\ ordersLeft \in 0 .. MaxOrders
        /\ MaxMishaps \in Nat /\ MaxOrders \in Nat
        /\ \A d \in Delivery : mishaps[d] \in Nat /\ orders[d] \in Nat
    BY WebhookAssumption DEF WebhookInv, Typing, TablesTyping
  <1>2. mishapsLeft > 0 /\ mishapsLeft' = mishapsLeft - 1
    BY DEF Mishap
  <1>3. \A d \in Delivery : /\ orders[d] <= 1 + MaxOrders - ordersLeft
                            /\ mishaps[d] <= MaxMishaps - mishapsLeft
    BY DEF WebhookInv, OrdersBound
  <1>4. \A d \in Delivery : mishaps'[d] <= MaxMishaps - mishapsLeft'
    BY <1>1, <1>2, <1>3
  <1> QED BY <1>1, <1>2, <1>3, <1>4 DEF OrdersBound

\* The row a runner works on is updated.
LEMMA SetRowForm ==
    ASSUME WebhookInv, NEW r \in Runner, runner[r] # NotRunning,
           NEW status \in {"queued", "sent", "failed"}, SetRow(r, status)
    PROVE  /\ delivery' \in [Delivery -> {NoDelivery} \cup ADelivery]
           /\ \A d \in Delivery : (Exists(d) => Exists(d)') /\ (Exists(d)' => Exists(d))
           /\ \A d \in Delivery : d # runner[r].row => delivery'[d] = delivery[d]
           /\ delivery'[runner[r].row].status = status
           /\ delivery'[runner[r].row].attempts = runner[r].number
  <1> DEFINE c == runner[r].row
             n == [delivery[c] EXCEPT !.status = status, !.attempts = runner[r].number]
  <1>1. c \in Delivery /\ delivery[c] \in ADelivery /\ runner[r].number \in Nat /\ Exists(c)
    BY RunnerAt
  <1>2. delivery' = [delivery EXCEPT ![c] = n]
    BY DEF SetRow
  <1>3. n \in ADelivery /\ n.status = status /\ n.attempts = runner[r].number
    BY <1>1 DEF ADelivery
  <1>4. n # NoDelivery
    <2>1. NoDelivery.status = "none"
      BY DEF NoDelivery
    <2> QED BY <1>3, <2>1
  <1>5. delivery \in [Delivery -> {NoDelivery} \cup ADelivery]
    BY DEF WebhookInv, Typing, TablesTyping
  <1> HIDE DEF n, c
  <1>6. /\ delivery'[c] = n /\ \A d \in Delivery : d # c => delivery'[d] = delivery[d]
        /\ delivery' \in [Delivery -> {NoDelivery} \cup ADelivery]
    BY <1>1, <1>2, <1>3, <1>5
  <1> QED BY <1>1, <1>3, <1>4, <1>6 DEF c, Exists

\* The endpoint takes the event, or not.
LEMMA PostKeeps ==
    ASSUME WebhookInv, NEW r \in Runner, Post(r)
    PROVE  WebhookInv'
  <1> DEFINE c == runner[r].row
  <1>1. runner[r] # NotRunning /\ runner[r].pc = "post"
    BY DEF Post, NotRunning
  <1>2. /\ c \in Delivery /\ Exists(c) /\ runner[r].number \in Nat
        /\ NumberBound(runner[r], Spare(c)) /\ Spare(c) \in Int
    BY <1>1, RunnerAt, SpareIsInt DEF WebhookInv
  <1>3. /\ UNCHANGED <<webhookActive, delivery, deliveryJobs, consumer, orders, unqueued, ordersLeft>>
        /\ TablesTyping
    BY DEF Post, tables, WebhookInv, Typing
  <1>4. PICK result \in {"success", "final", "again"} :
            /\ Go(r, "record", result)
            /\ \/ /\ result = "success"
                  /\ accepted' = [accepted EXCEPT ![c] = @ + 1]
                  /\ UNCHANGED <<mishaps, mishapsLeft>>
               \/ /\ result # "success" /\ UNCHANGED <<accepted, mishaps, mishapsLeft>>
               \/ /\ result # "success" /\ Mishap
                  /\ accepted' = [accepted EXCEPT ![c] = @ + 1]
                  /\ mishaps' = [mishaps EXCEPT ![c] = @ + 1]
    BY DEF Post
  <1>5. PICK e \in AnAnswered :
            /\ runner' = [runner EXCEPT ![r] = e]
            /\ e.pc = "record" /\ e.result = result /\ e.row = c /\ e.number = runner[r].number
    BY <1>1, <1>4, GoForm DEF WebhookInv
  <1>6. e \in ARunner /\ e # NotRunning
    <2>1. NotRunning.pc = "idle"
      BY DEF NotRunning
    <2> QED BY <1>5, <2>1 DEF ARunner
  <1> HIDE DEF c
  <1>7. \A d \in Delivery :
            /\ orders[d] \in Nat /\ mishaps[d] \in Nat /\ deliveryJobs[d] \in Nat
            /\ accepted[d] \in Nat /\ (Exists(d) => delivery[d].attempts \in Nat)
    BY <1>3 DEF TablesTyping, Exists, ADelivery
  <1>8. \A d \in Delivery :
            /\ Carried(runner[r], d) = IF d = c THEN 1 ELSE 0
            /\ Carried(e, d) = IF d = c /\ result # "success" THEN 1 ELSE 0
    BY <1>1, <1>5, <1>6 DEF Carried, Carries, c
  <1>9. /\ accepted' \in [Delivery -> Nat] /\ mishaps' \in [Delivery -> Nat]
        /\ \A d \in Delivery : mishaps'[d] <= mishaps[d] + 1 /\ mishaps'[d] \in Nat
        /\ OrdersBound' /\ mishapsLeft' \in 0 .. MaxMishaps
    <2>1. /\ accepted' \in [Delivery -> Nat] /\ mishaps' \in [Delivery -> Nat]
          /\ \A d \in Delivery : mishaps'[d] <= mishaps[d] + 1 /\ mishaps'[d] \in Nat
      BY <1>2, <1>3, <1>4 DEF TablesTyping
    <2>2. CASE UNCHANGED <<mishaps, mishapsLeft>>
      BY <1>3, <2>1, <2>2, BoundsStay DEF WebhookInv, TablesTyping
    <2>3. CASE Mishap
      BY <1>3, <2>1, <2>3, MishapBounds
    <2> QED BY <1>4, <2>1, <2>2, <2>3
  <1>10. TablesTyping'
    BY <1>3, <1>9 DEF TablesTyping
  <1>11. Ledger'
    <2>1. CASE UNCHANGED <<accepted, mishaps>> /\ result # "success"
      <3>1. NumberBound(e, Spare(e.row))
        <4>1. Carried(e, c) = 1 /\ Carried(runner[r], c) = 1
          BY <1>2, <1>8, <2>1
        <4>2. runner[r].number <= RetryMax - 1 + Spare(c) + 1
          BY <1>1, <1>2, <4>1 DEF NumberBound, c
        <4> QED BY <1>5, <4>1, <4>2 DEF NumberBound
      <3>2. \A d \in Delivery :
              /\ orders'[d] + mishaps'[d] - deliveryJobs'[d] - Carried(e, d) >=
                   orders[d] + mishaps[d] - deliveryJobs[d] - Carried(runner[r], d)
              /\ accepted'[d] <= accepted[d]
              /\ Exists(d)' => Exists(d) /\ delivery'[d].attempts <= delivery[d].attempts
        BY <1>3, <1>7, <1>8, <2>1 DEF Exists
      <3> QED BY <1>5, <1>6, <1>10, <1>3, <3>1, <3>2, LedgerStays DEF WebhookInv
    <2>2. CASE \/ result = "success" /\ accepted' = [accepted EXCEPT ![c] = @ + 1]
                  /\ UNCHANGED mishaps
               \/ result # "success" /\ accepted' = [accepted EXCEPT ![c] = @ + 1]
                  /\ mishaps' = [mishaps EXCEPT ![c] = @ + 1]
      <3>1. PICK G : G = {c}
        OBVIOUS
      <3>2. NumberBound(e, Spare(e.row) + (IF e.row \in G THEN 1 ELSE 0))
        <4>1. RetryMax \in Nat
          BY WebhookAssumption
        <4>2. runner[r].number <= RetryMax - 1 + Spare(c) + 1
          BY <1>1, <1>2, <1>8 DEF NumberBound, c
        <4>3. Carried(e, e.row) \in {0, 1}
          BY DEF Carried
        <4> QED BY <1>2, <1>5, <3>1, <4>1, <4>2, <4>3 DEF NumberBound
      <3>3. \A d \in Delivery :
              /\ orders'[d] + mishaps'[d] - deliveryJobs'[d] - Carried(e, d) >=
                   orders[d] + mishaps[d] - deliveryJobs[d] - Carried(runner[r], d)
                     + (IF d \in G THEN 1 ELSE 0)
              /\ accepted'[d] <= accepted[d] + (IF d \in G THEN 1 ELSE 0)
              /\ Exists(d)' => Exists(d) /\ delivery'[d].attempts <= delivery[d].attempts
        <4>1. \A d \in Delivery : Exists(d)' =>
                  Exists(d) /\ delivery'[d].attempts <= delivery[d].attempts
          BY <1>3, <1>7 DEF Exists
        <4>2. \A d \in Delivery : orders'[d] = orders[d] /\ deliveryJobs'[d] = deliveryJobs[d]
          BY <1>3
        <4>3. CASE result = "success"
          <5>1. \A d \in Delivery : /\ mishaps'[d] = mishaps[d]
                                    /\ accepted'[d] = IF d = c THEN accepted[d] + 1 ELSE accepted[d]
            BY <1>3, <2>2, <4>3 DEF TablesTyping
          <5> QED BY <1>7, <1>8, <3>1, <4>1, <4>2, <4>3, <5>1
        <4>4. CASE result # "success"
          <5>1. \A d \in Delivery :
                    /\ mishaps'[d] = IF d = c THEN mishaps[d] + 1 ELSE mishaps[d]
                    /\ accepted'[d] = IF d = c THEN accepted[d] + 1 ELSE accepted[d]
            BY <1>3, <2>2, <4>4 DEF TablesTyping
          <5> QED BY <1>7, <1>8, <3>1, <4>1, <4>2, <4>4, <5>1
        <4> QED BY <4>3, <4>4
      <3> QED BY <1>5, <1>6, <1>10, <1>3, <3>2, <3>3, RunnerLedger DEF WebhookInv
    <2> QED BY <1>4, <2>1, <2>2 DEF c
  <1>12. \A d \in Delivery :
              /\ Exists(d) => Exists(d)'
              /\ deliveryJobs'[d] > 0 \/ orders'[d] > 0 => Exists(d)'
              /\ InQueue(d)' =>
                   \/ WorksOn(e, d)
                   \/ InQueue(d) /\ ~WorksOn(runner[r], d) /\ deliveryJobs'[d] >= deliveryJobs[d]
    BY <1>3, <1>5, <1>6, <1>7 DEF Exists, InQueue, WebhookInv, RowsExist, WorksOn, c
  <1>13. Exists(e.row)'
    BY <1>2, <1>3, <1>5 DEF Exists
  <1> QED BY <1>3, <1>5, <1>6, <1>9, <1>10, <1>11, <1>12, <1>13, RunnerKeeps

\* The attempt is recorded, or the runner is through.
LEMMA RecordKeeps ==
    ASSUME WebhookInv, NEW r \in Runner, RecordAttempt(r) \/ Finish(r)
    PROVE  WebhookInv'
  <1>1. /\ runner[r] # NotRunning /\ runner[r].pc \in {"record", "done"}
        /\ runner \in [Runner -> ARunner]
    BY DEF RecordAttempt, Finish, NotRunning, WebhookInv, Typing
  <1>2. runner[r] \in AnAnswered
    BY <1>1 DEF ARunner, APosting
  <1>3. NotRunning.pc = "idle" /\ NotRunning \in ARunner
    BY DEF NotRunning, ARunner
  <1>4. CASE RecordAttempt(r)
    <2>1. runner[r].pc = "record" /\ Go(r, "update", runner[r].result)
          /\ UNCHANGED <<tables, consumer, chronicle, ordersLeft, mishapsLeft>>
      BY <1>4 DEF RecordAttempt
    <2>2. runner[r].result \in {"success", "final", "again"}
      BY <1>2 DEF AnAnswered
    <2>3. PICK e \in AnAnswered :
              /\ runner' = [runner EXCEPT ![r] = e]
              /\ e.pc = "update" /\ e.result = runner[r].result /\ e.row = runner[r].row
              /\ e.number = runner[r].number
      BY <1>1, <2>1, <2>2, GoForm DEF WebhookInv
    <2>4. e # NotRunning /\ e \in ARunner
      BY <1>3, <2>3 DEF ARunner
    <2>5. \A d \in Delivery : Carried(e, d) = Carried(runner[r], d)
      BY <1>1, <2>1, <2>3, <2>4 DEF Carried, Carries
    <2>6. \A d \in Delivery : WorksOn(runner[r], d) => WorksOn(e, d)
      BY <2>3, <2>4 DEF WorksOn
    <2> QED BY <1>1, <2>1, <2>3, <2>4, <2>5, <2>6, PlainStep
  <1>5. CASE Finish(r)
    <2>1. /\ runner[r].pc = "done" /\ runner' = [runner EXCEPT ![r] = NotRunning]
          /\ UNCHANGED <<tables, consumer, chronicle, ordersLeft, mishapsLeft>>
      BY <1>5 DEF Finish
    <2>2. \A d \in Delivery : Carried(NotRunning, d) = Carried(runner[r], d)
                               /\ ~WorksOn(runner[r], d)
      BY <2>1 DEF Carried, Carries, WorksOn
    <2> QED BY <1>1, <1>3, <2>1, <2>2, PlainStep
  <1> QED BY <1>4, <1>5

\* The database fails: the attempt counts as one that did not reach the endpoint.
LEMMA RecordFailsKeeps ==
    ASSUME WebhookInv, NEW r \in Runner, RecordFails(r)
    PROVE  WebhookInv'
  <1> DEFINE c == runner[r].row
             success == runner[r].result = "success"
  <1>1. runner[r] # NotRunning /\ runner[r].pc \in {"record", "update"}
    BY DEF RecordFails, NotRunning
  <1>2. /\ c \in Delivery /\ Exists(c) /\ runner[r].number \in Nat
        /\ NumberBound(runner[r], Spare(c)) /\ Spare(c) \in Int
    BY <1>1, RunnerAt, SpareIsInt DEF WebhookInv
  <1>3. /\ UNCHANGED <<webhookActive, delivery, deliveryJobs, consumer, accepted, orders, unqueued,
                       ordersLeft>>
        /\ TablesTyping
    BY DEF RecordFails, tables, WebhookInv, Typing
  <1>4. /\ Go(r, "update", "again") /\ Mishap
        /\ mishaps' = [mishaps EXCEPT ![c] = IF success THEN @ + 1 ELSE @]
    BY DEF RecordFails
  <1>5. PICK e \in AnAnswered :
            /\ runner' = [runner EXCEPT ![r] = e]
            /\ e.pc = "update" /\ e.result = "again" /\ e.row = c /\ e.number = runner[r].number
    BY <1>1, <1>4, GoForm DEF WebhookInv
  <1>6. e \in ARunner /\ e # NotRunning
    <2>1. NotRunning.pc = "idle"
      BY DEF NotRunning
    <2> QED BY <1>5, <2>1 DEF ARunner
  <1>7. \A d \in Delivery :
            /\ Carried(runner[r], d) = IF d = c /\ ~success THEN 1 ELSE 0
            /\ Carried(e, d) = IF d = c THEN 1 ELSE 0
    BY <1>1, <1>5, <1>6 DEF Carried, Carries
  <1> HIDE DEF c, success
  <1>8. \A d \in Delivery :
            /\ orders[d] \in Nat /\ mishaps[d] \in Nat /\ deliveryJobs[d] \in Nat
            /\ accepted[d] \in Nat /\ (Exists(d) => delivery[d].attempts \in Nat)
    BY <1>3 DEF TablesTyping, Exists, ADelivery
  <1>9. /\ mishaps' \in [Delivery -> Nat]
        /\ \A d \in Delivery :
              /\ mishaps'[d] = IF d = c /\ success THEN mishaps[d] + 1 ELSE mishaps[d]
              /\ mishaps'[d] <= mishaps[d] + 1 /\ mishaps'[d] \in Nat
    <2>1. CASE success
      BY <1>2, <1>3, <1>4, <2>1 DEF TablesTyping
    <2>2. CASE ~success
      BY <1>2, <1>3, <1>4, <2>2 DEF TablesTyping
    <2> QED BY <2>1, <2>2
  <1>10. OrdersBound' /\ mishapsLeft' \in 0 .. MaxMishaps
    BY <1>3, <1>4, <1>9, MishapBounds
  <1>11. TablesTyping'
    BY <1>3, <1>9, <1>10 DEF TablesTyping
  <1>12. NumberBound(e, Spare(e.row))
    <2>1. Carried(e, c) = 1 /\ Carried(runner[r], c) \in {0, 1}
      BY <1>2, <1>7
    <2>2. runner[r].number <= RetryMax - 1 + Spare(c) + Carried(runner[r], c)
      BY <1>1, <1>2 DEF NumberBound, c
    <2>3. RetryMax \in Nat
      BY WebhookAssumption
    <2> QED BY <1>2, <1>5, <2>1, <2>2, <2>3 DEF NumberBound
  <1>13. Ledger'
    <2>1. \A d \in Delivery :
              /\ orders'[d] + mishaps'[d] - deliveryJobs'[d] - Carried(e, d) >=
                   orders[d] + mishaps[d] - deliveryJobs[d] - Carried(runner[r], d)
              /\ accepted'[d] <= accepted[d]
              /\ Exists(d)' => Exists(d) /\ delivery'[d].attempts <= delivery[d].attempts
      <3>1. \A d \in Delivery :
              /\ orders'[d] = orders[d] /\ deliveryJobs'[d] = deliveryJobs[d]
              /\ accepted'[d] <= accepted[d]
              /\ Exists(d)' => Exists(d) /\ delivery'[d].attempts <= delivery[d].attempts
        BY <1>3, <1>8 DEF Exists
      <3> QED BY <1>7, <1>8, <1>9, <3>1
    <2> QED BY <1>3, <1>5, <1>6, <1>11, <1>12, <2>1, LedgerStays DEF WebhookInv
  <1>14. \A d \in Delivery :
              /\ Exists(d) => Exists(d)'
              /\ deliveryJobs'[d] > 0 \/ orders'[d] > 0 => Exists(d)'
              /\ InQueue(d)' =>
                   \/ WorksOn(e, d)
                   \/ InQueue(d) /\ ~WorksOn(runner[r], d) /\ deliveryJobs'[d] >= deliveryJobs[d]
    BY <1>3, <1>5, <1>6, <1>8 DEF Exists, InQueue, WebhookInv, RowsExist, WorksOn, c
  <1>15. Exists(e.row)'
    BY <1>2, <1>3, <1>5 DEF Exists
  <1> QED BY <1>3, <1>5, <1>6, <1>10, <1>11, <1>13, <1>14, <1>15, RunnerKeeps

\* The row is sent, failed, or waits for another attempt.
LEMMA MarkKeeps ==
    ASSUME WebhookInv, NEW r \in Runner, MarkSent(r) \/ MarkFailed(r) \/ MarkRetry(r)
    PROVE  WebhookInv'
  <1> DEFINE c == runner[r].row
  <1>1. runner[r] # NotRunning /\ runner[r].pc = "update"
    BY DEF MarkSent, MarkFailed, MarkRetry, NotRunning
  <1>2. /\ c \in Delivery /\ Exists(c) /\ runner[r].number \in Nat
        /\ NumberBound(runner[r], Spare(c)) /\ Spare(c) \in Int
        /\ runner[r] \in AnAnswered
    BY <1>1, RunnerAt, SpareIsInt DEF WebhookInv
  <1>3. /\ UNCHANGED <<webhookActive, deliveryJobs, consumer, accepted, orders, mishaps, unqueued,
                       ordersLeft, mishapsLeft>>
        /\ TablesTyping
    BY DEF MarkSent, MarkFailed, MarkRetry, chronicle, WebhookInv, Typing
  <1>4. PICK st \in {"queued", "sent", "failed"}, pc \in {"enqueue", "done"},
             result \in {"success", "final", "again"} :
            /\ SetRow(r, st) /\ Go(r, pc, result)
            /\ \/ st = "sent" /\ pc = "done" /\ runner[r].result = "success"
               \/ st = "failed" /\ pc = "done" /\ runner[r].result # "success"
               \/ /\ st = "queued" /\ pc = "enqueue" /\ result = "again"
                  /\ runner[r].result # "success" /\ runner[r].number < RetryMax
    <2>1. runner[r].result \in {"success", "final", "again"}
      BY <1>2 DEF AnAnswered
    <2>2. CASE MarkSent(r)
      BY <2>1, <2>2 DEF MarkSent
    <2>3. CASE MarkFailed(r)
      BY <2>1, <2>3 DEF MarkFailed
    <2>4. CASE MarkRetry(r)
      BY <2>4 DEF MarkRetry, Retries
    <2> QED BY <2>2, <2>3, <2>4
  <1>5. PICK e \in AnAnswered :
            /\ runner' = [runner EXCEPT ![r] = e]
            /\ e.pc = pc /\ e.result = result /\ e.row = c /\ e.number = runner[r].number
    BY <1>1, <1>4, GoForm DEF WebhookInv
  <1>6. e \in ARunner /\ e # NotRunning
    <2>1. NotRunning.pc = "idle"
      BY DEF NotRunning
    <2> QED BY <1>5, <2>1 DEF ARunner
  <1>7. /\ delivery' \in [Delivery -> {NoDelivery} \cup ADelivery]
        /\ \A d \in Delivery : (Exists(d) => Exists(d)') /\ (Exists(d)' => Exists(d))
        /\ \A d \in Delivery : d # c => delivery'[d] = delivery[d]
        /\ delivery'[c].status = st /\ delivery'[c].attempts = runner[r].number
    BY <1>1, <1>4, SetRowForm
  <1>8. \A d \in Delivery :
            /\ Carried(runner[r], d) = IF d = c /\ st # "sent" THEN 1 ELSE 0
            /\ Carried(e, d) = IF d = c /\ st = "queued" THEN 1 ELSE 0
    BY <1>1, <1>4, <1>5, <1>6 DEF Carried, Carries
  <1>9. WorksOn(e, c) <=> st = "queued"
    BY <1>4, <1>5, <1>6 DEF WorksOn
  <1>10. \A d \in Delivery : WorksOn(runner[r], d) => d = c
    BY DEF WorksOn
  <1>11. runner[r].number <= RetryMax - 1 + Spare(c) + Carried(runner[r], c)
    BY <1>1, <1>2 DEF NumberBound
  <1> HIDE DEF c
  <1>12. \A d \in Delivery :
            /\ orders[d] \in Nat /\ mishaps[d] \in Nat /\ deliveryJobs[d] \in Nat
            /\ accepted[d] \in Nat /\ (Exists(d) => delivery[d].attempts \in Nat)
            /\ accepted[d] <= Spare(d)
    BY <1>3 DEF TablesTyping, Exists, ADelivery, WebhookInv, Ledger
  <1>13. TablesTyping' /\ OrdersBound'
    BY <1>3, <1>7, BoundsStay DEF TablesTyping, WebhookInv
  <1>14. RetryMax \in Nat
    BY WebhookAssumption
  <1>15. Ledger'
    <2>1. PICK G : G = IF st = "failed" THEN {c} ELSE {}
      OBVIOUS
    <2>2. NumberBound(e, Spare(e.row) + (IF e.row \in G THEN 1 ELSE 0))
      <3>1. CASE pc = "done"
        BY <1>5, <3>1 DEF NumberBound
      <3>2. CASE pc = "enqueue"
        <4>1. st = "queued" /\ Carried(e, c) = 1 /\ Carried(runner[r], c) = 1 /\ G = {}
          BY <1>2, <1>4, <1>8, <2>1, <3>2
        <4> QED BY <1>2, <1>5, <1>11, <1>14, <4>1 DEF NumberBound
      <3> QED BY <1>4, <3>1, <3>2
    <2>3. \A d \in Delivery :
              /\ orders'[d] + mishaps'[d] - deliveryJobs'[d] - Carried(e, d) >=
                   orders[d] + mishaps[d] - deliveryJobs[d] - Carried(runner[r], d)
                     + (IF d \in G THEN 1 ELSE 0)
              /\ accepted'[d] <= accepted[d] + (IF d \in G THEN 1 ELSE 0)
      <3>1. \A d \in Delivery : /\ orders'[d] = orders[d] /\ mishaps'[d] = mishaps[d]
                                /\ deliveryJobs'[d] = deliveryJobs[d] /\ accepted'[d] = accepted[d]
        BY <1>3
      <3> QED BY <1>8, <1>12, <2>1, <3>1
    <2>4. ASSUME NEW d \in Delivery, Exists(d)'
          PROVE  \/ Exists(d) /\ delivery'[d].attempts <= delivery[d].attempts
                 \/ delivery'[d].attempts <= RetryMax - 1 + Spare(d)
                                              + (IF d \in G THEN 1 ELSE 0)
      <3>1. CASE d # c
        BY <1>7, <1>12, <2>4, <3>1
      <3>2. CASE d = c
        <4>1. CASE st = "sent"
          <5>1. Carried(runner[r], c) = 0 /\ G = {}
            BY <1>2, <1>8, <2>1, <4>1
          <5> QED BY <1>2, <1>7, <1>11, <1>14, <3>2, <5>1
        <4>2. CASE st = "failed"
          <5>1. Carried(runner[r], c) = 1 /\ G = {c}
            BY <1>2, <1>8, <2>1, <4>2
          <5> QED BY <1>2, <1>7, <1>11, <1>14, <3>2, <5>1
        <4>3. CASE st = "queued"
          <5>1. runner[r].number < RetryMax /\ G = {}
            BY <1>4, <2>1, <4>3
          <5>2. Spare(c) >= 0
            BY <1>2, <1>12
          <5> QED BY <1>2, <1>7, <1>14, <3>2, <5>1, <5>2
        <4> QED BY <4>1, <4>2, <4>3
      <3> QED BY <3>1, <3>2
    <2> QED BY <1>3, <1>5, <1>6, <1>13, <2>2, <2>3, <2>4, RunnerLedger DEF WebhookInv
  <1>16. ASSUME NEW d \in Delivery
         PROVE  /\ Exists(d) => Exists(d)'
                /\ deliveryJobs'[d] > 0 \/ orders'[d] > 0 => Exists(d)'
                /\ InQueue(d)' =>
                     \/ WorksOn(e, d)
                     \/ InQueue(d) /\ ~WorksOn(runner[r], d) /\ deliveryJobs'[d] >= deliveryJobs[d]
    <2>1. deliveryJobs'[d] = deliveryJobs[d] /\ orders'[d] = orders[d] /\ deliveryJobs[d] \in Nat
      BY <1>3, <1>12
    <2>2. InQueue(d)' => WorksOn(e, d) \/ (InQueue(d) /\ ~WorksOn(runner[r], d))
      <3>1. CASE d = c
        <4>1. InQueue(d)' => delivery'[d].status = "queued"
          BY DEF InQueue
        <4>2. delivery'[d].status = st
          BY <1>7, <3>1
        <4>3. st = "queued" => WorksOn(e, d)
          BY <1>9, <3>1
        <4> QED BY <4>1, <4>2, <4>3
      <3>2. CASE d # c
        BY <1>7, <1>10, <3>2 DEF InQueue
      <3> QED BY <3>1, <3>2
    <2> QED BY <1>7, <2>1, <2>2 DEF WebhookInv, RowsExist
  <1>17. Exists(e.row)'
    <2>1. delivery'[c] # NoDelivery
      BY <1>2, <1>7 DEF Exists
    <2> QED BY <1>5, <2>1 DEF Exists
  <1> QED BY <1>3, <1>4, <1>5, <1>6, <1>13, <1>15, <1>16, <1>17, RunnerKeeps

\* A runner that stops hands its row on, or its job is lost.
LEMMA StopKeeps ==
    ASSUME WebhookInv, NEW r \in Runner, runner[r] # NotRunning, NEW e \in ARunner,
           runner' = [runner EXCEPT ![r] = e],
           e = NotRunning \/ (e.row = runner[r].row /\ e.pc = "done"),
           UNCHANGED <<delivery, consumer, accepted, orders>>,
           TablesTyping', OrdersBound', unqueued \subseteq unqueued',
           \A d \in Delivery : d # runner[r].row =>
              deliveryJobs'[d] = deliveryJobs[d] /\ mishaps'[d] = mishaps[d],
           /\ deliveryJobs'[runner[r].row] >= deliveryJobs[runner[r].row]
           /\ deliveryJobs'[runner[r].row] - deliveryJobs[runner[r].row] <=
                mishaps'[runner[r].row] - mishaps[runner[r].row] + Carried(runner[r], runner[r].row),
           runner[r].pc # "done" =>
              deliveryJobs'[runner[r].row] > 0 \/ runner[r].row \in unqueued'
    PROVE  WebhookInv'
  <1> DEFINE c == runner[r].row
  <1>1. c \in Delivery /\ Exists(c) /\ TablesTyping
    BY RunnerAt DEF WebhookInv, Typing
  <1>2. \A d \in Delivery : d # c => Carried(runner[r], d) = 0 /\ ~WorksOn(runner[r], d)
    BY DEF Carried, Carries, WorksOn
  <1>3. e.pc \in {"idle", "done"}
    BY DEF NotRunning
  <1>4. \A d \in Delivery : Carried(e, d) = 0
    BY <1>3 DEF Carried, Carries
  <1>5. WorksOn(runner[r], c) => deliveryJobs'[c] > 0 \/ c \in unqueued'
    BY DEF WorksOn
  <1>6. \A d \in Delivery : d # c => deliveryJobs'[d] = deliveryJobs[d] /\ mishaps'[d] = mishaps[d]
    OBVIOUS
  <1>7. /\ deliveryJobs'[c] >= deliveryJobs[c]
        /\ deliveryJobs'[c] - deliveryJobs[c] <= mishaps'[c] - mishaps[c] + Carried(runner[r], c)
    OBVIOUS
  <1>8. e # NotRunning => Exists(e.row)'
    BY <1>1 DEF Exists
  <1> HIDE DEF c
  <1>9. \A d \in Delivery :
            /\ orders[d] \in Nat /\ mishaps[d] \in Nat /\ deliveryJobs[d] \in Nat
            /\ mishaps'[d] \in Nat /\ deliveryJobs'[d] \in Nat
            /\ accepted[d] \in Nat /\ (Exists(d) => delivery[d].attempts \in Nat)
            /\ Carried(runner[r], d) \in {0, 1}
    BY <1>1 DEF TablesTyping, Exists, ADelivery, Carried
  <1>10. Ledger'
    <2>1. e # NotRunning => NumberBound(e, Spare(e.row))
      BY <1>3 DEF NumberBound, NotRunning
    <2>2. ASSUME NEW d \in Delivery
          PROVE  /\ orders'[d] + mishaps'[d] - deliveryJobs'[d] - Carried(e, d) >=
                      orders[d] + mishaps[d] - deliveryJobs[d] - Carried(runner[r], d)
                 /\ accepted'[d] <= accepted[d]
                 /\ Exists(d)' => Exists(d) /\ delivery'[d].attempts <= delivery[d].attempts
      <3>1. orders'[d] = orders[d] /\ Carried(e, d) = 0
        BY <1>4
      <3>2. CASE d = c
        BY <1>7, <1>9, <3>1, <3>2 DEF Exists
      <3>3. CASE d # c
        BY <1>2, <1>6, <1>9, <3>1, <3>3 DEF Exists
      <3> QED BY <3>2, <3>3
    <2> QED BY <2>1, <2>2, LedgerStays DEF WebhookInv
  <1>11. ASSUME NEW d \in Delivery
         PROVE  /\ Exists(d) => Exists(d)'
                /\ deliveryJobs'[d] > 0 \/ orders'[d] > 0 => Exists(d)'
                /\ InQueue(d)' =>
                     \/ deliveryJobs'[d] > 0 \/ WorksOn(e, d) \/ d \in unqueued'
                     \/ InQueue(d) /\ ~WorksOn(runner[r], d) /\ deliveryJobs'[d] >= deliveryJobs[d]
    <2>1. (Exists(d) => Exists(d)') /\ (InQueue(d)' => InQueue(d))
      BY DEF Exists, InQueue
    <2>2. deliveryJobs'[d] >= deliveryJobs[d]
      BY <1>6, <1>7, <1>9
    <2>3. deliveryJobs'[d] > 0 \/ orders'[d] > 0 => Exists(d)'
      <3>1. CASE d = c
        BY <1>1, <3>1 DEF Exists
      <3>2. CASE d # c
        BY <1>6, <2>1, <3>2 DEF WebhookInv, RowsExist
      <3> QED BY <3>1, <3>2
    <2>4. WorksOn(runner[r], d) => deliveryJobs'[d] > 0 \/ d \in unqueued'
      BY <1>2, <1>5
    <2> QED BY <2>1, <2>2, <2>3, <2>4
  <1>12. e.pc = "enqueue" => e.result = "again"
    BY <1>3
  <1> QED BY <1>8, <1>10, <1>11, <1>12, RunnerKeeps

\* The retry is queued; or the runner stops, with an error or its process.
LEMMA StopsKeep ==
    ASSUME WebhookInv, NEW r \in Runner, EnqueueRetry(r) \/ RunFails(r) \/ RunStalls(r)
    PROVE  WebhookInv'
  <1> DEFINE c == runner[r].row
  <1>1. runner[r] # NotRunning /\ NotRunning \in ARunner
    BY DEF EnqueueRetry, RunFails, RunStalls, NotRunning, ARunner
  <1>2. /\ c \in Delivery /\ Exists(c) /\ runner[r] \in APosting \cup AnAnswered
        /\ TablesTyping
        /\ runner[r].pc = "post" <=> runner[r] \in APosting
    BY <1>1, RunnerAt DEF WebhookInv, Typing
  <1>3. Carried(runner[r], c) = IF \/ runner[r].pc \in {"post", "enqueue"}
                                   \/ runner[r].pc \in {"record", "update"}
                                      /\ runner[r].result # "success"
                                THEN 1 ELSE 0
    BY <1>1 DEF Carried, Carries
  <1> HIDE DEF c
  <1>4. /\ deliveryJobs \in [Delivery -> Nat] /\ mishaps \in [Delivery -> Nat]
        /\ deliveryJobs[c] \in Nat /\ mishaps[c] \in Nat /\ unqueued \subseteq Delivery
    BY <1>2 DEF TablesTyping
  <1>5. CASE EnqueueRetry(r)
    <2>1. /\ runner[r].pc = "enqueue" /\ Go(r, "done", "again")
          /\ deliveryJobs' = [deliveryJobs EXCEPT ![c] = @ + 1]
          /\ UNCHANGED <<webhookActive, delivery, consumer, accepted, orders, mishaps, unqueued,
                         ordersLeft, mishapsLeft>>
      BY <1>5 DEF EnqueueRetry, AddJob, chronicle, c
    <2>2. PICK e \in AnAnswered :
              /\ runner' = [runner EXCEPT ![r] = e]
              /\ e.pc = "done" /\ e.result = "again" /\ e.row = runner[r].row
              /\ e.number = runner[r].number
      BY <1>1, <2>1, GoForm DEF WebhookInv
    <2>3. /\ deliveryJobs' \in [Delivery -> Nat] /\ deliveryJobs'[c] = deliveryJobs[c] + 1
          /\ \A d \in Delivery : d # c => deliveryJobs'[d] = deliveryJobs[d]
      BY <1>2, <1>4, <2>1
    <2>4. TablesTyping' /\ OrdersBound'
      BY <1>2, <2>1, <2>3, BoundsStay DEF TablesTyping, WebhookInv
    <2>5. e \in ARunner
      BY DEF ARunner
    <2>6. /\ deliveryJobs'[c] - deliveryJobs[c] <= mishaps'[c] - mishaps[c] + Carried(runner[r], c)
          /\ deliveryJobs'[c] >= deliveryJobs[c] /\ deliveryJobs'[c] > 0
      BY <1>3, <1>4, <2>1, <2>3
    <2> QED BY <1>1, <2>1, <2>2, <2>3, <2>4, <2>5, <2>6, StopKeeps DEF c
  <1>6. CASE RunFails(r)
    <2>1. /\ runner[r].pc # "done" /\ runner' = [runner EXCEPT ![r] = NotRunning] /\ Mishap
          /\ unqueued' = unqueued \cup {c}
          /\ UNCHANGED <<webhookActive, deliveryJobs, delivery, consumer, accepted, orders, mishaps,
                         ordersLeft>>
      BY <1>6 DEF RunFails, tables, c
    <2>2. \A d \in Delivery : mishaps'[d] \in Nat /\ mishaps'[d] <= mishaps[d] + 1
      BY <1>4, <2>1
    <2>3. OrdersBound' /\ mishapsLeft' \in 0 .. MaxMishaps
      BY <2>1, <2>2, MishapBounds
    <2>4. TablesTyping'
      BY <1>2, <2>1, <2>3 DEF TablesTyping
    <2>5. /\ deliveryJobs'[c] - deliveryJobs[c] <= mishaps'[c] - mishaps[c] + Carried(runner[r], c)
          /\ deliveryJobs'[c] >= deliveryJobs[c]
      <3>1. Carried(runner[r], c) \in {0, 1}
        BY DEF Carried
      <3> QED BY <1>4, <2>1, <3>1
    <2> QED BY <1>1, <2>1, <2>3, <2>4, <2>5, StopKeeps DEF c
  <1>7. CASE RunStalls(r)
    <2> DEFINE again == runner[r].job /\ c \notin stalledJobs
               repeats == /\ again
                          /\ \/ runner[r].pc = "done"
                             \/ runner[r].pc # "post" /\ runner[r].result = "success"
    <2>1. /\ runner' = [runner EXCEPT ![r] = NotRunning] /\ Mishap
          /\ deliveryJobs' = [deliveryJobs EXCEPT ![c] = IF again THEN @ + 1 ELSE @]
          /\ unqueued' = IF again \/ runner[r].pc = "done" THEN unqueued ELSE unqueued \cup {c}
          /\ mishaps' = [mishaps EXCEPT ![c] = IF repeats THEN @ + 1 ELSE @]
          /\ UNCHANGED <<webhookActive, delivery, consumer, accepted, orders, ordersLeft>>
      BY <1>7 DEF RunStalls, c
    <2>2. again /\ ~repeats => Carried(runner[r], c) = 1
      <3>1. runner[r].pc \in {"post", "record", "update", "enqueue", "done"}
        BY <1>2 DEF APosting, AnAnswered
      <3> QED BY <1>3, <3>1
    <2> HIDE DEF again, repeats
    <2>3. /\ deliveryJobs' \in [Delivery -> Nat]
          /\ deliveryJobs'[c] = IF again THEN deliveryJobs[c] + 1 ELSE deliveryJobs[c]
          /\ \A d \in Delivery : d # c => deliveryJobs'[d] = deliveryJobs[d]
      <3>1. CASE again
        BY <1>2, <1>4, <2>1, <3>1
      <3>2. CASE ~again
        BY <1>2, <1>4, <2>1, <3>2
      <3> QED BY <3>1, <3>2
    <2>4. /\ mishaps' \in [Delivery -> Nat]
          /\ mishaps'[c] = IF repeats THEN mishaps[c] + 1 ELSE mishaps[c]
          /\ \A d \in Delivery : d # c => mishaps'[d] = mishaps[d]
      <3>1. CASE repeats
        BY <1>2, <1>4, <2>1, <3>1
      <3>2. CASE ~repeats
        BY <1>2, <1>4, <2>1, <3>2
      <3> QED BY <3>1, <3>2
    <2>5. \A d \in Delivery : mishaps'[d] \in Nat /\ mishaps'[d] <= mishaps[d] + 1
      BY <1>4, <2>4
    <2>6. OrdersBound' /\ mishapsLeft' \in 0 .. MaxMishaps
      BY <2>1, <2>5, MishapBounds
    <2>7. TablesTyping'
      BY <1>2, <1>4, <2>1, <2>3, <2>4, <2>6 DEF TablesTyping
    <2>8. /\ deliveryJobs'[c] - deliveryJobs[c] <= mishaps'[c] - mishaps[c] + Carried(runner[r], c)
          /\ deliveryJobs'[c] >= deliveryJobs[c]
      <3>1. Carried(runner[r], c) \in {0, 1}
        BY DEF Carried
      <3>2. repeats => again
        BY DEF repeats
      <3> QED BY <1>4, <2>2, <2>3, <2>4, <3>1, <3>2
    <2>9. runner[r].pc # "done" => deliveryJobs'[c] > 0 \/ c \in unqueued'
      BY <1>4, <2>1, <2>3
    <2>10. unqueued \subseteq unqueued'
      BY <2>1
    <2> QED BY <1>1, <2>1, <2>3, <2>4, <2>6, <2>7, <2>8, <2>9, <2>10, StopKeeps DEF c
  <1> QED BY <1>5, <1>6, <1>7

\* An operator asks for something, once.
LEMMA OrderBounds ==
    ASSUME WebhookInv, Ordered, UNCHANGED <<mishaps, mishapsLeft>>,
           \A d \in Delivery : orders'[d] \in Nat /\ orders'[d] <= orders[d] + 1
    PROVE  OrdersBound' /\ ordersLeft' \in 0 .. MaxOrders
  <1>1. /\ ordersLeft \in 0 .. MaxOrders /\ MaxOrders \in Nat
        /\ \A d \in Delivery : mishaps[d] \in Nat /\ orders[d] \in Nat
    BY WebhookAssumption DEF WebhookInv, Typing, TablesTyping
  <1>2. ordersLeft > 0 /\ ordersLeft' = ordersLeft - 1
    BY DEF Ordered
  <1>3. \A d \in Delivery : /\ orders[d] <= 1 + MaxOrders - ordersLeft
                            /\ mishaps[d] <= MaxMishaps - mishapsLeft
    BY DEF WebhookInv, OrdersBound
  <1>4. \A d \in Delivery : orders'[d] <= 1 + MaxOrders - ordersLeft'
    BY <1>1, <1>2, <1>3
  <1> QED BY <1>1, <1>2, <1>3, <1>4 DEF OrdersBound

\* A runner takes row d, for a job or for an order.
LEMMA ReadKeeps ==
    ASSUME WebhookInv, NEW r \in Runner, NEW d \in Delivery, NEW job \in BOOLEAN,
           ReadDelivery(r, d, job),
           UNCHANGED <<webhookActive, consumer, accepted, mishaps, unqueued, mishapsLeft>>,
           deliveryJobs' \in [Delivery -> Nat], orders' \in [Delivery -> Nat],
           ordersLeft' \in 0 .. MaxOrders, OrdersBound',
           \A q \in Delivery : q # d =>
              deliveryJobs'[q] = deliveryJobs[q] /\ orders'[q] = orders[q],
           orders'[d] - deliveryJobs'[d] >= orders[d] - deliveryJobs[d] + 1
    PROVE  WebhookInv'
  <1>1. /\ runner[r] = NotRunning /\ Exists(d) /\ TablesTyping
        /\ runner \in [Runner -> ARunner] /\ delivery \in [Delivery -> {NoDelivery} \cup ADelivery]
        /\ delivery[d] \in ADelivery
    BY DEF ReadDelivery, WebhookInv, Typing, TablesTyping, Exists
  <1>2. \A q \in Delivery :
            /\ orders[q] \in Nat /\ mishaps[q] \in Nat /\ deliveryJobs[q] \in Nat
            /\ orders'[q] \in Nat /\ deliveryJobs'[q] \in Nat
            /\ accepted[q] \in Nat /\ (Exists(q) => delivery[q].attempts \in Nat)
            /\ accepted[q] <= Spare(q)
    BY <1>1 DEF TablesTyping, Exists, ADelivery, WebhookInv, Ledger
  <1>3. Spare(d) \in Int /\ delivery[d].attempts <= RetryMax - 1 + Spare(d) /\ RetryMax \in Nat
    BY <1>1, SpareIsInt, WebhookAssumption DEF WebhookInv, Ledger
  <1>4. \A q \in Delivery : Carried(runner[r], q) = 0 /\ ~WorksOn(runner[r], q)
    BY <1>1 DEF Carried, Carries, WorksOn
  <1>5. CASE webhookActive[delivery[d].webhook]
    <2>1. UNCHANGED delivery
      BY <1>5 DEF ReadDelivery
    <2>2. PICK e \in APosting :
              /\ runner' = [runner EXCEPT ![r] = e]
              /\ e.pc = "post" /\ e.row = d /\ e.number = delivery[d].attempts + 1
      <3> DEFINE f == [pc |-> "post", row |-> d, job |-> job, number |-> delivery[d].attempts + 1]
      <3>1. runner' = [runner EXCEPT ![r] = f]
        BY <1>5 DEF ReadDelivery
      <3>2. f \in APosting
        BY <1>1, <1>2 DEF APosting
      <3> QED BY <3>1, <3>2
    <2>3. e.pc = "post" /\ e.row = d /\ e.number = delivery[d].attempts + 1
      BY <2>2
    <2>4. e \in ARunner /\ e # NotRunning
      BY <2>2, <2>3 DEF ARunner, NotRunning
    <2>5. \A q \in Delivery : Carried(e, q) = IF q = d THEN 1 ELSE 0
      BY <2>3, <2>4 DEF Carried, Carries
    <2>6. TablesTyping'
      BY <1>1, <2>1 DEF TablesTyping
    <2>7. NumberBound(e, Spare(e.row))
      BY <1>1, <1>2, <1>3, <2>3, <2>5 DEF NumberBound
    <2>8. Ledger'
      <3>1. ASSUME NEW q \in Delivery
            PROVE  /\ orders'[q] + mishaps'[q] - deliveryJobs'[q] - Carried(e, q) >=
                         orders[q] + mishaps[q] - deliveryJobs[q] - Carried(runner[r], q)
                   /\ accepted'[q] <= accepted[q]
                   /\ Exists(q)' => Exists(q) /\ delivery'[q].attempts <= delivery[q].attempts
        <4>1. /\ accepted'[q] <= accepted[q]
              /\ Exists(q)' => Exists(q) /\ delivery'[q].attempts <= delivery[q].attempts
          BY <1>2, <2>1 DEF Exists
        <4>2. CASE q = d
          BY <1>2, <1>4, <2>5, <4>1, <4>2
        <4>3. CASE q # d
          BY <1>2, <1>4, <2>5, <4>1, <4>3
        <4> QED BY <4>2, <4>3
      <3> QED BY <2>2, <2>4, <2>6, <2>7, <3>1, LedgerStays DEF WebhookInv
    <2>9. ASSUME NEW q \in Delivery
          PROVE  /\ Exists(q) => Exists(q)'
                 /\ deliveryJobs'[q] > 0 \/ orders'[q] > 0 => Exists(q)'
                 /\ InQueue(q)' =>
                      \/ WorksOn(e, q)
                      \/ InQueue(q) /\ ~WorksOn(runner[r], q) /\ deliveryJobs'[q] >= deliveryJobs[q]
      <3>1. (Exists(q) => Exists(q)') /\ (InQueue(q)' => InQueue(q))
        BY <2>1 DEF Exists, InQueue
      <3>2. CASE q = d
        BY <1>1, <2>3, <2>4, <3>1, <3>2 DEF WorksOn
      <3>3. CASE q # d
        BY <1>2, <1>4, <3>1, <3>3 DEF WebhookInv, RowsExist
      <3> QED BY <3>2, <3>3
    <2>10. Exists(e.row)'
      BY <1>1, <2>1, <2>3 DEF Exists
    <2> QED BY <2>2, <2>3, <2>4, <2>6, <2>8, <2>9, <2>10, RunnerKeeps
  <1>6. CASE ~webhookActive[delivery[d].webhook]
    <2> DEFINE n == [delivery[d] EXCEPT !.status = "failed"]
    <2>1. UNCHANGED runner /\ delivery' = [delivery EXCEPT ![d] = n]
      BY <1>6 DEF ReadDelivery
    <2>2. n \in ADelivery /\ n.status = "failed" /\ n.attempts = delivery[d].attempts
      BY <1>1 DEF ADelivery
    <2>3. n # NoDelivery
      BY <2>2 DEF NoDelivery
    <2> HIDE DEF n
    <2>4. /\ delivery' \in [Delivery -> {NoDelivery} \cup ADelivery] /\ delivery'[d] = n
          /\ \A q \in Delivery : q # d => delivery'[q] = delivery[q]
      BY <1>1, <2>1, <2>2
    <2>5. TablesTyping'
      BY <1>1, <2>4 DEF TablesTyping
    <2>6. runner' = [runner EXCEPT ![r] = NotRunning] /\ NotRunning \in ARunner
          /\ NotRunning.pc = "idle"
      BY <1>1, <2>1 DEF ARunner, NotRunning
    <2>7. \A q \in Delivery : Carried(NotRunning, q) = 0
      BY DEF Carried, Carries
    <2>8. Ledger'
      <3>1. ASSUME NEW q \in Delivery
            PROVE  /\ orders'[q] + mishaps'[q] - deliveryJobs'[q] - Carried(NotRunning, q) >=
                         orders[q] + mishaps[q] - deliveryJobs[q] - Carried(runner[r], q)
                   /\ accepted'[q] <= accepted[q]
                   /\ Exists(q)' => Exists(q) /\ delivery'[q].attempts <= delivery[q].attempts
        <4>1. CASE q = d
          BY <1>1, <1>2, <1>4, <2>2, <2>4, <2>7, <4>1 DEF Exists
        <4>2. CASE q # d
          BY <1>2, <1>4, <2>4, <2>7, <4>2 DEF Exists
        <4> QED BY <4>1, <4>2
      <3> QED BY <2>5, <2>6, <3>1, LedgerStays DEF WebhookInv
    <2>9. ASSUME NEW q \in Delivery
          PROVE  /\ Exists(q) => Exists(q)'
                 /\ deliveryJobs'[q] > 0 \/ orders'[q] > 0 => Exists(q)'
                 /\ InQueue(q)' =>
                      InQueue(q) /\ ~WorksOn(runner[r], q) /\ deliveryJobs'[q] >= deliveryJobs[q]
      <3>1. CASE q = d
        BY <2>2, <2>3, <2>4, <3>1 DEF Exists, InQueue
      <3>2. CASE q # d
        BY <1>2, <1>4, <2>4, <3>2 DEF Exists, InQueue, WebhookInv, RowsExist
      <3> QED BY <3>1, <3>2
    <2> QED BY <2>5, <2>6, <2>8, <2>9, RunnerKeeps
  <1> QED BY <1>5, <1>6

\* A job is taken, or a row is retried in bulk.
LEMMA ReadsKeep ==
    ASSUME WebhookInv, NEW r \in Runner, NEW d \in Delivery, StartJob(r, d) \/ RetryNow(r, d)
    PROVE  WebhookInv'
  <1>1. /\ TablesTyping /\ deliveryJobs[d] \in Nat /\ orders[d] \in Nat
        /\ deliveryJobs \in [Delivery -> Nat] /\ orders \in [Delivery -> Nat]
    BY DEF WebhookInv, Typing, TablesTyping
  <1>2. CASE StartJob(r, d)
    <2>1. /\ deliveryJobs[d] > 0 /\ deliveryJobs' = [deliveryJobs EXCEPT ![d] = @ - 1]
          /\ ReadDelivery(r, d, TRUE)
          /\ UNCHANGED <<webhookActive, consumer, accepted, orders, mishaps, unqueued, ordersLeft,
                         mishapsLeft>>
      BY <1>2 DEF StartJob, chronicle
    <2>2. /\ deliveryJobs' \in [Delivery -> Nat] /\ deliveryJobs'[d] = deliveryJobs[d] - 1
          /\ \A q \in Delivery : q # d => deliveryJobs'[q] = deliveryJobs[q]
      <3>1. deliveryJobs[d] - 1 \in Nat
        BY <1>1, <2>1
      <3> QED BY <1>1, <2>1, <3>1
    <2>3. OrdersBound' /\ orders' \in [Delivery -> Nat] /\ ordersLeft' \in 0 .. MaxOrders
      BY <1>1, <2>1, BoundsStay DEF WebhookInv, TablesTyping
    <2>4. orders'[d] - deliveryJobs'[d] >= orders[d] - deliveryJobs[d] + 1
      BY <1>1, <2>1, <2>2
    <2> QED BY <2>1, <2>2, <2>3, <2>4, ReadKeeps
  <1>3. CASE RetryNow(r, d)
    <2>1. /\ Ordered /\ ReadDelivery(r, d, FALSE) /\ orders' = [orders EXCEPT ![d] = @ + 1]
          /\ UNCHANGED <<webhookActive, consumer, deliveryJobs, accepted, mishaps, unqueued,
                         mishapsLeft>>
      BY <1>3 DEF RetryNow, Order
    <2>2. /\ orders' \in [Delivery -> Nat] /\ orders'[d] = orders[d] + 1
          /\ \A q \in Delivery : q # d => orders'[q] = orders[q]
      BY <1>1, <2>1
    <2>3. \A q \in Delivery : orders'[q] \in Nat /\ orders'[q] <= orders[q] + 1
      BY <1>1, <2>2
    <2>4. OrdersBound' /\ ordersLeft' \in 0 .. MaxOrders
      BY <2>1, <2>3, OrderBounds
    <2>5. orders'[d] - deliveryJobs'[d] >= orders[d] - deliveryJobs[d] + 1
      BY <1>1, <2>1, <2>2
    <2> QED BY <1>1, <2>1, <2>2, <2>4, <2>5, ReadKeeps
  <1> QED BY <1>2, <1>3

\* A job that fails before its row is read is gone, and the row counts as unqueued.
LEMMA StartFailsKeeps ==
    ASSUME WebhookInv, NEW r \in Runner, NEW c \in Delivery, StartFails(r, c)
    PROVE  WebhookInv'
  <1>1. /\ TablesTyping /\ runner \in [Runner -> ARunner]
        /\ deliveryJobs \in [Delivery -> Nat] /\ unqueued \subseteq Delivery
        /\ mishaps \in [Delivery -> Nat]
    BY DEF WebhookInv, Typing, TablesTyping
  <1>2. /\ runner[r] = NotRunning /\ deliveryJobs[c] > 0 /\ Mishap
        /\ deliveryJobs' = [deliveryJobs EXCEPT ![c] = @ - 1]
        /\ unqueued' = unqueued \cup {c}
        /\ UNCHANGED <<webhookActive, delivery, consumer, runner, accepted, orders, mishaps,
                       ordersLeft>>
    BY DEF StartFails
  <1>3. /\ deliveryJobs' \in [Delivery -> Nat] /\ deliveryJobs'[c] = deliveryJobs[c] - 1
        /\ \A d \in Delivery : d # c => deliveryJobs'[d] = deliveryJobs[d]
    <2>1. deliveryJobs[c] - 1 \in Nat
      BY <1>1, <1>2
    <2> QED BY <1>1, <1>2, <2>1
  <1>4. OrdersBound' /\ mishapsLeft' \in 0 .. MaxMishaps
    BY <1>1, <1>2, MishapBounds
  <1>5. TablesTyping'
    BY <1>1, <1>2, <1>3, <1>4 DEF TablesTyping
  <1>6. runner' = [runner EXCEPT ![r] = NotRunning] /\ NotRunning \in ARunner
    BY <1>1, <1>2 DEF ARunner
  <1>7. \A d \in Delivery : Carried(NotRunning, d) = 0 /\ ~WorksOn(runner[r], d)
    BY <1>2 DEF Carried, Carries, WorksOn
  <1>8. ASSUME NEW d \in Delivery
        PROVE  /\ deliveryJobs[d] \in Nat /\ deliveryJobs'[d] \in Nat
               /\ deliveryJobs'[d] <= deliveryJobs[d]
               /\ d # c => deliveryJobs'[d] = deliveryJobs[d]
    BY <1>1, <1>3
  <1>9. Ledger'
    <2>1. ASSUME NEW d \in Delivery
          PROVE  /\ orders'[d] + mishaps'[d] - deliveryJobs'[d] - Carried(NotRunning, d) >=
                      orders[d] + mishaps[d] - deliveryJobs[d] - Carried(runner[r], d)
                 /\ accepted'[d] <= accepted[d]
                 /\ Exists(d)' => Exists(d) /\ delivery'[d].attempts <= delivery[d].attempts
      <3>1. /\ orders[d] \in Nat /\ mishaps[d] \in Nat /\ accepted[d] \in Nat
            /\ Exists(d) => delivery[d].attempts \in Nat
        BY <1>1 DEF TablesTyping, Exists, ADelivery
      <3> QED BY <1>2, <1>7, <1>8, <3>1 DEF Exists
    <2> QED BY <1>2, <1>5, <1>6, <2>1, LedgerStays DEF WebhookInv
  <1>10. ASSUME NEW d \in Delivery
         PROVE  /\ Exists(d) => Exists(d)'
                /\ deliveryJobs'[d] > 0 \/ orders'[d] > 0 => Exists(d)'
                /\ InQueue(d)' =>
                     \/ d \in unqueued'
                     \/ InQueue(d) /\ ~WorksOn(runner[r], d) /\ deliveryJobs'[d] >= deliveryJobs[d]
    <2>1. deliveryJobs'[d] > 0 \/ orders'[d] > 0 => deliveryJobs[d] > 0 \/ orders[d] > 0
      BY <1>2, <1>8
    <2> QED BY <1>2, <1>7, <1>8, <2>1 DEF WebhookInv, RowsExist, Exists, InQueue
  <1> HIDE DEF WebhookInv
  <1> QED BY <1>2, <1>4, <1>5, <1>6, <1>9, <1>10, RunnerKeeps DEF NotRunning

\* A dead letter is resent: the row first, its job later.
LEMMA ResendKeeps ==
    ASSUME WebhookInv, NEW r \in Runner, NEW c \in Delivery, Resend(r, c)
    PROVE  WebhookInv'
  <1> DEFINE e == [pc |-> "enqueue", row |-> c, job |-> FALSE, number |-> 0, result |-> "again"]
  <1>1. /\ TablesTyping /\ orders \in [Delivery -> Nat]
        /\ delivery \in [Delivery -> {NoDelivery} \cup ADelivery]
    BY DEF WebhookInv, Typing, TablesTyping
  <1>2. /\ Ordered /\ runner[r] = NotRunning /\ runner' = [runner EXCEPT ![r] = e]
        /\ orders' = [orders EXCEPT ![c] = @ + 1]
        /\ UNCHANGED <<webhookActive, consumer, deliveryJobs, accepted, mishaps, unqueued,
                       mishapsLeft>>
    BY DEF Resend, Order
  <1>3. PICK n \in ADelivery : /\ delivery' = [delivery EXCEPT ![c] = n]
                               /\ n.attempts = 0
    <2> DEFINE n == [delivery[c] EXCEPT !.status = "queued", !.attempts = 0]
    <2>1. delivery' = [delivery EXCEPT ![c] = n] /\ delivery[c].status = "failed"
      BY DEF Resend
    <2>2. delivery[c] \in ADelivery
      BY <1>1, <2>1 DEF NoDelivery
    <2>3. n \in ADelivery /\ n.attempts = 0
      BY <2>2 DEF ADelivery
    <2> QED BY <2>1, <2>3
  <1>4. e \in AnAnswered
    BY DEF AnAnswered
  <1>5. e.pc = "enqueue" /\ e.row = c /\ e.number = 0 /\ e.result = "again"
    OBVIOUS
  <1> HIDE DEF e
  <1>6. e \in ARunner /\ e # NotRunning
    BY <1>4, <1>5 DEF ARunner, NotRunning
  <1>7. n # NoDelivery
    BY DEF ADelivery, NoDelivery
  <1>8. /\ delivery' \in [Delivery -> {NoDelivery} \cup ADelivery] /\ delivery'[c] = n
        /\ \A q \in Delivery : q # c => delivery'[q] = delivery[q]
    BY <1>1, <1>3
  <1>9. /\ orders' \in [Delivery -> Nat] /\ orders'[c] = orders[c] + 1
        /\ \A q \in Delivery : q # c => orders'[q] = orders[q]
    BY <1>1, <1>2
  <1>10. \A q \in Delivery :
            /\ orders[q] \in Nat /\ mishaps[q] \in Nat /\ deliveryJobs[q] \in Nat
            /\ accepted[q] \in Nat /\ (Exists(q) => delivery[q].attempts \in Nat)
            /\ accepted[q] <= Spare(q) /\ Spare(q) \in Int
    BY <1>1, SpareIsInt DEF TablesTyping, Exists, ADelivery, WebhookInv, Ledger
  <1>11. OrdersBound' /\ ordersLeft' \in 0 .. MaxOrders
    <2>1. \A q \in Delivery : orders'[q] \in Nat /\ orders'[q] <= orders[q] + 1
      BY <1>9, <1>10
    <2> QED BY <1>2, <2>1, OrderBounds
  <1>12. TablesTyping'
    BY <1>1, <1>2, <1>8, <1>9, <1>11 DEF TablesTyping
  <1>13. /\ \A q \in Delivery : Carried(runner[r], q) = 0 /\ ~WorksOn(runner[r], q)
         /\ \A q \in Delivery : Carried(e, q) = IF q = c THEN 1 ELSE 0
    BY <1>2, <1>5, <1>6 DEF Carried, Carries, WorksOn
  <1>14. RetryMax \in Nat \ {0}
    BY WebhookAssumption
  <1>15. NumberBound(e, Spare(e.row))
    <2>1. Spare(c) >= 0 /\ Carried(e, c) = 1
      BY <1>10, <1>13
    <2> QED BY <1>5, <1>10, <1>14, <2>1 DEF NumberBound
  <1>16. Ledger'
    <2>1. ASSUME NEW q \in Delivery
          PROVE  /\ orders'[q] + mishaps'[q] - deliveryJobs'[q] - Carried(e, q) >=
                       orders[q] + mishaps[q] - deliveryJobs[q] - Carried(runner[r], q)
                 /\ accepted'[q] <= accepted[q]
                 /\ Exists(q)' =>
                      \/ Exists(q) /\ delivery'[q].attempts <= delivery[q].attempts
                      \/ delivery'[q].attempts <= RetryMax - 1 + Spare(q)
      <3>1. deliveryJobs'[q] = deliveryJobs[q] /\ mishaps'[q] = mishaps[q]
            /\ accepted'[q] = accepted[q]
        BY <1>2
      <3>2. CASE q = c
        <4>1. delivery'[q].attempts = 0 /\ orders'[q] = orders[q] + 1
              /\ Carried(e, q) = 1 /\ Carried(runner[r], q) = 0
          BY <1>3, <1>8, <1>9, <1>13, <3>2
        <4> QED BY <1>10, <1>14, <3>1, <4>1
      <3>3. CASE q # c
        BY <1>8, <1>9, <1>10, <1>13, <3>1, <3>3 DEF Exists
      <3> QED BY <3>2, <3>3
    <2> QED BY <1>2, <1>6, <1>12, <1>15, <2>1, LedgerStays DEF WebhookInv
  <1>17. ASSUME NEW q \in Delivery
         PROVE  /\ Exists(q) => Exists(q)'
                /\ deliveryJobs'[q] > 0 \/ orders'[q] > 0 => Exists(q)'
                /\ InQueue(q)' =>
                     \/ WorksOn(e, q)
                     \/ InQueue(q) /\ ~WorksOn(runner[r], q) /\ deliveryJobs'[q] >= deliveryJobs[q]
    <2>1. CASE q = c
      BY <1>5, <1>6, <1>7, <1>8, <2>1 DEF Exists, WorksOn
    <2>2. CASE q # c
      BY <1>2, <1>8, <1>9, <1>10, <1>13, <2>2 DEF Exists, InQueue, WebhookInv, RowsExist
    <2> QED BY <2>1, <2>2
  <1>18. Exists(e.row)'
    BY <1>5, <1>7, <1>8 DEF Exists
  <1> QED BY <1>2, <1>5, <1>6, <1>11, <1>12, <1>16, <1>17, <1>18, RunnerKeeps

\* A step that leaves the runners alone, and makes row c at most.
LEMMA ConsumerStep ==
    ASSUME WebhookInv, UNCHANGED <<runner, accepted, mishaps>>, TablesTyping', OrdersBound',
           unqueued \subseteq unqueued',
           consumer'.pc = "queue" => delivery'[consumer'.row] # NoDelivery,
           \A d \in Delivery :
              /\ \/ delivery'[d] = delivery[d]
                 \/ delivery'[d] # NoDelivery /\ ~Exists(d) /\ delivery'[d].attempts = 0
              /\ deliveryJobs'[d] > 0 \/ orders'[d] > 0 => Exists(d)'
              /\ deliveryJobs'[d] >= deliveryJobs[d]
              /\ orders'[d] - deliveryJobs'[d] - Queued(consumer', d) >=
                   orders[d] - deliveryJobs[d] - Queued(consumer, d)
              /\ \/ deliveryJobs'[d] > 0 \/ Queued(consumer', d) = 1 \/ d \in unqueued'
                 \/ Queued(consumer, d) = 0 /\ delivery'[d] = delivery[d]
    PROVE  WebhookInv'
  <1>1. Typing'
    BY DEF WebhookInv, Typing
  <1>2. \A d \in Delivery : Exists(d) => Exists(d)'
    BY DEF Exists
  <1>3. RowsExist'
    <2>1. \A r \in Runner : runner[r] # NotRunning => runner[r].row \in Delivery
      BY DEF WebhookInv, Typing, ARunner, APosting, AnAnswered
    <2> QED BY <1>2, <2>1 DEF WebhookInv, RowsExist, Exists
  <1>4. EnqueuesAgain'
    BY DEF WebhookInv, EnqueuesAgain
  <1>5. Ledger'
    <2> SUFFICES ASSUME NEW d \in Delivery
                 PROVE  /\ accepted'[d] <= Spare(d)'
                        /\ Exists(d)' => delivery'[d].attempts <= RetryMax - 1 + Spare(d)'
                        /\ \A q \in Runner : runner'[q] # NotRunning /\ runner'[q].row = d =>
                                                NumberBound(runner'[q], Spare(d)')
      BY DEF Ledger, NumberBound, Carried, Carries
    <2> DEFINE new == Spare(d)'
    <2>1. new = orders'[d] + mishaps'[d] - deliveryJobs'[d] - Cardinality(Carriers(d))
                  - Queued(consumer', d)
      BY DEF Spare, Carriers
    <2>2. Spare(d) \in Int /\ Cardinality(Carriers(d)) \in Nat
      BY SpareIsInt DEF WebhookInv
    <2>3. /\ orders[d] \in Nat /\ mishaps[d] \in Nat /\ deliveryJobs[d] \in Nat
          /\ orders'[d] \in Nat /\ mishaps'[d] \in Nat /\ deliveryJobs'[d] \in Nat
          /\ accepted[d] \in Nat
      BY DEF WebhookInv, Typing, TablesTyping
    <2>4. Queued(consumer, d) \in {0, 1} /\ Queued(consumer', d) \in {0, 1}
      BY DEF Queued
    <2> HIDE DEF new
    <2>5. new \in Int /\ new >= Spare(d)
      BY <2>1, <2>2, <2>3, <2>4 DEF Spare
    <2>6. RetryMax \in Nat \ {0}
      BY WebhookAssumption
    <2>7. accepted'[d] <= new
      BY <2>2, <2>3, <2>5 DEF WebhookInv, Ledger
    <2>8. Exists(d)' => delivery'[d].attempts <= RetryMax - 1 + new
      <3>1. CASE delivery'[d] = delivery[d]
        <4>1. Exists(d)' => Exists(d) /\ delivery[d].attempts \in Nat
          BY <3>1 DEF Exists, WebhookInv, Typing, TablesTyping, ADelivery
        <4>2. Exists(d) => delivery[d].attempts <= RetryMax - 1 + Spare(d)
          BY DEF WebhookInv, Ledger
        <4> QED BY <2>2, <2>5, <2>6, <3>1, <4>1, <4>2
      <3>2. CASE delivery'[d].attempts = 0
        BY <2>3, <2>5, <2>6, <2>7, <3>2
      <3> QED BY <3>1, <3>2
    <2>9. ASSUME NEW q \in Runner, runner[q] # NotRunning, runner[q].row = d
          PROVE  NumberBound(runner[q], new)
      <3>1. runner[q].number \in Nat /\ NumberBound(runner[q], Spare(d))
        BY <2>9, RunnerAt
      <3>2. Carried(runner[q], runner[q].row) \in {0, 1}
        BY DEF Carried
      <3> QED BY <2>2, <2>5, <2>6, <3>1, <3>2 DEF NumberBound
    <2> QED BY <2>7, <2>8, <2>9 DEF new
  <1>6. QueuedIsCarried'
    <2> SUFFICES ASSUME NEW d \in Delivery, InQueue(d)'
                 PROVE  \/ deliveryJobs'[d] > 0
                        \/ \E r \in Runner : WorksOn(runner[r], d)
                        \/ consumer' # Waiting /\ consumer'.pc = "queue" /\ consumer'.row = d
                        \/ d \in unqueued'
      BY DEF QueuedIsCarried, InQueue, WorksOn
    <2>1. CASE deliveryJobs'[d] > 0 \/ Queued(consumer', d) = 1 \/ d \in unqueued'
      BY <2>1 DEF Queued, Waiting
    <2>2. CASE Queued(consumer, d) = 0 /\ delivery'[d] = delivery[d]
      <3>1. Exists(d) /\ delivery[d].status = "queued"
        BY <2>2 DEF InQueue, Exists
      <3>2. \/ deliveryJobs[d] > 0
            \/ \E r \in Runner : WorksOn(runner[r], d)
            \/ d \in unqueued
        BY <2>2, <3>1 DEF WebhookInv, QueuedIsCarried, WorksOn, Queued
      <3>3. deliveryJobs[d] \in Nat /\ deliveryJobs'[d] \in Nat
        BY DEF WebhookInv, Typing, TablesTyping
      <3> QED BY <3>2, <3>3
    <2> QED BY <2>1, <2>2
  <1> QED BY <1>1, <1>3, <1>4, <1>5, <1>6 DEF WebhookInv

\* The consumer of the events, and the switch of a webhook.
LEMMA ConsumerKeeps ==
    ASSUME WebhookInv, Consumer \/ ConsumerFails \/ \E w \in Webhook : SwitchWebhook(w)
    PROVE  WebhookInv'
  <1>1. /\ TablesTyping
        /\ \A d \in Delivery : deliveryJobs[d] \in Nat /\ orders[d] \in Nat /\ mishaps[d] \in Nat
        /\ \A d \in Delivery : deliveryJobs[d] > 0 \/ orders[d] > 0 => Exists(d)
    BY DEF WebhookInv, Typing, TablesTyping, RowsExist
  <1>2. /\ Waiting.pc = "waiting"
        /\ consumer.pc = "queue" => consumer \in AQueueing /\ Exists(consumer.row)
        /\ consumer.pc = "create" => consumer \in ACreating
    BY <1>1 DEF Waiting, TablesTyping, ACreating, AQueueing, WebhookInv, RowsExist
  <1>3. CASE ReadEntry \/ Acknowledge \/ \E w \in Webhook : SwitchWebhook(w)
    <2>1. UNCHANGED <<runner, delivery, deliveryJobs, chronicle, mishapsLeft>>
      BY <1>3 DEF ReadEntry, Acknowledge, SwitchWebhook, tables
    <2>2. \/ consumer'.pc # "queue" /\ consumer' \in {Waiting} \cup ACreating \cup AQueueing
          \/ UNCHANGED consumer
      <3>1. CASE ReadEntry
        <4>1. consumer' = [pc |-> "create", left |-> {w \in Webhook : webhookActive[w]}]
          BY <3>1 DEF ReadEntry
        <4> QED BY <4>1 DEF ACreating
      <3>2. CASE Acknowledge
        BY <1>2, <3>2 DEF Acknowledge
      <3>3. CASE \E w \in Webhook : SwitchWebhook(w)
        BY <3>3 DEF SwitchWebhook
      <3> QED BY <1>3, <3>1, <3>2, <3>3
    <2>3. consumer.pc # "queue" \/ UNCHANGED consumer
      BY <1>2, <1>3 DEF ReadEntry, Acknowledge, SwitchWebhook
    <2>4. \A d \in Delivery : Queued(consumer', d) = Queued(consumer, d)
      BY <2>2, <2>3 DEF Queued
    <2>5. /\ webhookActive' \in [Webhook -> BOOLEAN] /\ ordersLeft' \in 0 .. MaxOrders
          /\ ordersLeft' <= ordersLeft
      <3>1. CASE ReadEntry \/ Acknowledge
        BY <1>1, <3>1, WebhookAssumption DEF ReadEntry, Acknowledge, tables, TablesTyping
      <3>2. CASE \E w \in Webhook : SwitchWebhook(w)
        <4>1. PICK w \in Webhook : webhookActive' = [webhookActive EXCEPT ![w] = ~@]
          BY <3>2 DEF SwitchWebhook
        <4>2. webhookActive' \in [Webhook -> BOOLEAN]
          BY <1>1, <4>1 DEF TablesTyping
        <4>3. ordersLeft > 0 /\ ordersLeft' = ordersLeft - 1
          BY <3>2 DEF SwitchWebhook, Ordered
        <4> QED BY <1>1, <4>2, <4>3, WebhookAssumption DEF TablesTyping
      <3> QED BY <1>3, <3>1, <3>2
    <2>6. TablesTyping'
      BY <1>1, <2>1, <2>2, <2>5 DEF TablesTyping, chronicle
    <2>7. OrdersBound'
      <3>1. /\ \A d \in Delivery : orders[d] <= 1 + MaxOrders - ordersLeft
            /\ ordersLeft \in Nat /\ MaxOrders \in Nat /\ ordersLeft' \in Nat
        BY <1>1, <2>5, WebhookAssumption DEF WebhookInv, OrdersBound, TablesTyping
      <3>2. \A d \in Delivery : orders[d] <= 1 + MaxOrders - ordersLeft'
        BY <1>1, <2>5, <3>1
      <3> QED BY <2>1, <3>2 DEF WebhookInv, OrdersBound, chronicle
    <2>8. consumer'.pc = "queue" => delivery'[consumer'.row] # NoDelivery
      BY <1>2, <2>1, <2>2 DEF Exists
    <2>9. \A d \in Delivery :
              /\ delivery'[d] = delivery[d]
              /\ deliveryJobs'[d] > 0 \/ orders'[d] > 0 => Exists(d)'
              /\ deliveryJobs'[d] >= deliveryJobs[d]
              /\ orders'[d] - deliveryJobs'[d] - Queued(consumer', d) >=
                   orders[d] - deliveryJobs[d] - Queued(consumer, d)
              /\ \/ Queued(consumer', d) = 1
                 \/ Queued(consumer, d) = 0 /\ delivery'[d] = delivery[d]
      <3>1. \A d \in Delivery : Queued(consumer, d) \in {0, 1}
        BY DEF Queued
      <3> QED BY <1>1, <2>1, <2>4, <3>1 DEF chronicle, Exists
    <2>10. UNCHANGED <<runner, accepted, mishaps>> /\ unqueued \subseteq unqueued'
      BY <2>1 DEF chronicle
    <2> QED BY <2>6, <2>7, <2>8, <2>9, <2>10, ConsumerStep
  <1>4. ASSUME NEW w \in Webhook, NEW c \in Delivery, CreateDelivery(w, c)
        PROVE  WebhookInv'
    <2>1. /\ consumer.pc = "create" /\ ~Exists(c)
          /\ delivery' = [delivery EXCEPT ![c] = Created(w)]
          /\ consumer' = [pc |-> "queue", left |-> consumer.left \ {w}, row |-> c]
          /\ orders' = [orders EXCEPT ![c] = @ + 1]
          /\ UNCHANGED <<webhookActive, deliveryJobs, runner, accepted, mishaps, unqueued,
                         ordersLeft, mishapsLeft>>
      BY <1>4 DEF CreateDelivery, Fresh, Order
    <2>2. Created(w) \in ADelivery /\ Created(w).attempts = 0 /\ Created(w) # NoDelivery
      BY DEF Created, ADelivery, NoDelivery
    <2>3. /\ delivery' \in [Delivery -> {NoDelivery} \cup ADelivery] /\ delivery'[c] = Created(w)
          /\ \A d \in Delivery : d # c => delivery'[d] = delivery[d]
      BY <1>1, <2>1, <2>2 DEF TablesTyping
    <2>4. /\ orders' \in [Delivery -> Nat] /\ orders'[c] = orders[c] + 1
          /\ \A d \in Delivery : d # c => orders'[d] = orders[d]
      BY <1>1, <2>1 DEF TablesTyping
    <2>5. orders[c] = 0 /\ deliveryJobs[c] = 0
      BY <1>1, <2>1
    <2>6. consumer' \in AQueueing /\ consumer'.pc = "queue" /\ consumer'.row = c
      BY <1>2, <2>1 DEF ACreating, AQueueing
    <2>7. /\ \A d \in Delivery : Queued(consumer, d) = 0
          /\ \A d \in Delivery : Queued(consumer', d) = IF d = c THEN 1 ELSE 0
      BY <2>1, <2>6 DEF Queued
    <2>8. TablesTyping'
      BY <1>1, <2>1, <2>3, <2>4, <2>6 DEF TablesTyping
    <2>9. OrdersBound'
      <3>1. ordersLeft \in 0 .. MaxOrders /\ MaxOrders \in Nat
        BY <1>1, WebhookAssumption DEF TablesTyping
      <3> QED BY <2>1, <2>4, <2>5, <3>1 DEF WebhookInv, OrdersBound
    <2>10. ASSUME NEW d \in Delivery
           PROVE  /\ \/ delivery'[d] = delivery[d]
                     \/ delivery'[d] # NoDelivery /\ ~Exists(d) /\ delivery'[d].attempts = 0
                  /\ deliveryJobs'[d] > 0 \/ orders'[d] > 0 => Exists(d)'
                  /\ deliveryJobs'[d] >= deliveryJobs[d]
                  /\ orders'[d] - deliveryJobs'[d] - Queued(consumer', d) >=
                       orders[d] - deliveryJobs[d] - Queued(consumer, d)
                  /\ \/ Queued(consumer', d) = 1
                     \/ Queued(consumer, d) = 0 /\ delivery'[d] = delivery[d]
      <3>1. deliveryJobs'[d] = deliveryJobs[d] /\ deliveryJobs[d] \in Nat /\ orders[d] \in Nat
        BY <1>1, <2>1
      <3>2. CASE d = c
        <4>1. /\ orders'[d] = orders[d] + 1
              /\ Queued(consumer', d) = 1 /\ Queued(consumer, d) = 0
          BY <2>4, <2>7, <3>2
        <4>2. /\ delivery'[d] # NoDelivery /\ delivery'[d].attempts = 0
              /\ ~Exists(d) /\ Exists(d)'
          BY <2>1, <2>2, <2>3, <3>2 DEF Exists
        <4> QED BY <3>1, <4>1, <4>2
      <3>3. CASE d # c
        <4>1. /\ orders'[d] = orders[d] /\ delivery'[d] = delivery[d]
              /\ Queued(consumer', d) = 0 /\ Queued(consumer, d) = 0
          BY <2>3, <2>4, <2>7, <3>3
        <4>2. Exists(d) => Exists(d)'
          BY <4>1 DEF Exists
        <4> QED BY <1>1, <3>1, <4>1, <4>2
      <3> QED BY <3>2, <3>3
    <2>11. delivery'[consumer'.row] # NoDelivery
      BY <2>2, <2>3, <2>6 DEF Exists
    <2> QED BY <2>1, <2>8, <2>9, <2>10, <2>11, ConsumerStep
  <1>5. CASE QueueDelivery \/ ConsumerFails
    <2> DEFINE c == consumer.row
    <2>1. /\ UNCHANGED <<webhookActive, delivery, runner, accepted, orders, mishaps, ordersLeft>>
          /\ consumer # Waiting
      BY <1>2, <1>5 DEF QueueDelivery, ConsumerFails, tables, chronicle
    <2>2. consumer.pc = "queue" => c \in Delivery /\ consumer.left \subseteq Webhook /\ Exists(c)
      BY <1>2 DEF AQueueing
    <2> HIDE DEF c
    <2>3. consumer'.pc # "queue" /\ consumer' \in {Waiting} \cup ACreating \cup AQueueing
      <3>1. CASE QueueDelivery
        <4>1. consumer.pc = "queue" /\ consumer' = [pc |-> "create", left |-> consumer.left]
          BY <3>1 DEF QueueDelivery
        <4> QED BY <2>2, <4>1 DEF ACreating
      <3>2. CASE ConsumerFails
        BY <1>2, <3>2 DEF ConsumerFails
      <3> QED BY <1>5, <3>1, <3>2
    <2>4. \A d \in Delivery : /\ Queued(consumer', d) = 0
                              /\ Queued(consumer, d) = IF consumer.pc = "queue" /\ d = c THEN 1 ELSE 0
      BY <2>3 DEF Queued, c
    <2>5. \/ /\ consumer.pc = "queue" /\ UNCHANGED <<unqueued, mishapsLeft>>
             /\ deliveryJobs' = [deliveryJobs EXCEPT ![c] = @ + 1]
          \/ /\ unqueued' = IF consumer.pc = "queue" THEN unqueued \cup {c} ELSE unqueued
             /\ UNCHANGED deliveryJobs /\ Mishap
      BY <1>5 DEF QueueDelivery, ConsumerFails, AddJob, chronicle, tables, c
    <2>6. /\ unqueued \subseteq unqueued' /\ unqueued' \subseteq Delivery
          /\ deliveryJobs' \in [Delivery -> Nat]
          /\ \A d \in Delivery :
                /\ deliveryJobs'[d] >= deliveryJobs[d]
                /\ deliveryJobs'[d] - deliveryJobs[d] <= Queued(consumer, d)
                /\ Queued(consumer, d) = 1 => deliveryJobs'[d] > 0 \/ d \in unqueued'
      <3>1. unqueued \subseteq Delivery /\ deliveryJobs \in [Delivery -> Nat]
        BY <1>1 DEF TablesTyping
      <3>2. CASE consumer.pc = "queue"
                 /\ deliveryJobs' = [deliveryJobs EXCEPT ![c] = @ + 1] /\ UNCHANGED unqueued
        <4>1. deliveryJobs' \in [Delivery -> Nat]
              /\ \A d \in Delivery : deliveryJobs'[d] = IF d = c THEN deliveryJobs[d] + 1
                                                        ELSE deliveryJobs[d]
          BY <2>2, <3>1, <3>2
        <4> QED BY <1>1, <2>4, <3>1, <3>2, <4>1
      <3>3. CASE /\ unqueued' = IF consumer.pc = "queue" THEN unqueued \cup {c} ELSE unqueued
                 /\ UNCHANGED deliveryJobs
        BY <1>1, <2>2, <2>4, <3>1, <3>3
      <3> QED BY <2>5, <3>2, <3>3
    <2>7. OrdersBound' /\ mishapsLeft' \in 0 .. MaxMishaps
      <3>1. CASE UNCHANGED mishapsLeft
        BY <1>1, <2>1, <3>1, BoundsStay DEF WebhookInv, TablesTyping
      <3>2. CASE Mishap
        BY <1>1, <2>1, <3>2, MishapBounds
      <3> QED BY <2>5, <3>1, <3>2
    <2>8. TablesTyping'
      BY <1>1, <2>1, <2>3, <2>6, <2>7 DEF TablesTyping
    <2>9. ASSUME NEW d \in Delivery
          PROVE  /\ delivery'[d] = delivery[d]
                 /\ deliveryJobs'[d] > 0 \/ orders'[d] > 0 => Exists(d)'
                 /\ deliveryJobs'[d] >= deliveryJobs[d]
                 /\ orders'[d] - deliveryJobs'[d] - Queued(consumer', d) >=
                      orders[d] - deliveryJobs[d] - Queued(consumer, d)
                 /\ \/ deliveryJobs'[d] > 0 \/ d \in unqueued'
                    \/ Queued(consumer, d) = 0 /\ delivery'[d] = delivery[d]
      <3>1. delivery'[d] = delivery[d] /\ orders'[d] = orders[d] /\ (Exists(d) => Exists(d)')
        BY <2>1 DEF Exists
      <3>2. deliveryJobs'[d] \in Nat /\ Queued(consumer', d) = 0 /\ Queued(consumer, d) \in {0, 1}
        BY <2>4, <2>6
      <3>3. Queued(consumer, d) = 1 => Exists(d)
        BY <2>2, <2>4
      <3> QED BY <1>1, <2>6, <3>1, <3>2, <3>3
    <2> QED BY <2>1, <2>3, <2>6, <2>7, <2>8, <2>9, ConsumerStep
  <1> QED BY <1>3, <1>4, <1>5 DEF Consumer

-----------------------------------------------------------------------------
(* Theorems *)

\* The initial states.
LEMMA WebhookStart == WebhookInit => WebhookInv
  <1> SUFFICES ASSUME WebhookInit PROVE WebhookInv
    OBVIOUS
  <1>1. Waiting.pc = "waiting" /\ NotRunning.pc = "idle"
    BY DEF Waiting, NotRunning
  <1>2. MaxOrders \in Nat /\ MaxMishaps \in Nat /\ RetryMax \in Nat \ {0}
    BY WebhookAssumption
  <1>3. Typing
    BY <1>2 DEF WebhookInit, Typing, TablesTyping, ARunner
  <1>4. \A d \in Delivery : ~Exists(d)
    BY DEF WebhookInit, Exists
  <1>5. RowsExist /\ EnqueuesAgain
    BY <1>1 DEF WebhookInit, RowsExist, EnqueuesAgain
  <1>6. OrdersBound
    BY <1>2 DEF WebhookInit, OrdersBound
  <1>7. Ledger
    <2> SUFFICES ASSUME NEW d \in Delivery PROVE accepted[d] <= Spare(d)
      BY <1>4 DEF WebhookInit, Ledger
    <2>1. Carriers(d) = {} /\ Queued(consumer, d) = 0
      BY <1>1 DEF WebhookInit, Carriers, Carries, Queued
    <2>2. Cardinality(Carriers(d)) = 0
      BY <2>1, FS_EmptySet
    <2> QED BY <2>1, <2>2 DEF WebhookInit, Spare
  <1>8. QueuedIsCarried
    BY <1>4 DEF QueuedIsCarried
  <1> QED BY <1>3, <1>5, <1>6, <1>7, <1>8 DEF WebhookInv

\* Every step.
LEMMA WebhookStep == WebhookInv /\ [WebhookNext]_webhookVars => WebhookInv'
  <1> SUFFICES ASSUME WebhookInv, [WebhookNext]_webhookVars PROVE WebhookInv'
    OBVIOUS
  <1>1. CASE Consumer \/ ConsumerFails \/ \E w \in Webhook : SwitchWebhook(w)
    BY <1>1, ConsumerKeeps
  <1>2. ASSUME NEW r \in Runner, Post(r)
        PROVE  WebhookInv'
    BY <1>2, PostKeeps
  <1>3. ASSUME NEW r \in Runner, RecordAttempt(r) \/ Finish(r)
        PROVE  WebhookInv'
    BY <1>3, RecordKeeps
  <1>4. ASSUME NEW r \in Runner, RecordFails(r)
        PROVE  WebhookInv'
    BY <1>4, RecordFailsKeeps
  <1>5. ASSUME NEW r \in Runner, MarkSent(r) \/ MarkFailed(r) \/ MarkRetry(r)
        PROVE  WebhookInv'
    BY <1>5, MarkKeeps
  <1>6. ASSUME NEW r \in Runner, EnqueueRetry(r) \/ RunFails(r) \/ RunStalls(r)
        PROVE  WebhookInv'
    BY <1>6, StopsKeep
  <1>7. ASSUME NEW r \in Runner, NEW d \in Delivery, StartJob(r, d) \/ RetryNow(r, d)
        PROVE  WebhookInv'
    BY <1>7, ReadsKeep
  <1>8. ASSUME NEW r \in Runner, NEW c \in Delivery, Resend(r, c) \/ StartFails(r, c)
        PROVE  WebhookInv'
    BY <1>8, ResendKeeps, StartFailsKeeps
  <1>9. CASE UNCHANGED webhookVars
    <2>1. TablesTyping' /\ RowsExist' /\ EnqueuesAgain' /\ OrdersBound' /\ QueuedIsCarried'
      BY <1>9 DEF webhookVars, tables, chronicle, WebhookInv, Typing, TablesTyping, RowsExist,
                  EnqueuesAgain, OrdersBound, QueuedIsCarried, Exists
    <2>2. Typing'
      BY <1>9, <2>1 DEF webhookVars, WebhookInv, Typing
    <2>3. Ledger'
      BY <1>9 DEF webhookVars, tables, chronicle, WebhookInv, Ledger, Spare, Carriers, Queued,
                  Exists, NumberBound, Carried, Carries
    <2> QED BY <2>1, <2>2, <2>3 DEF WebhookInv
  <1> QED BY <1>1, <1>2, <1>3, <1>4, <1>5, <1>6, <1>7, <1>8, <1>9 DEF WebhookNext

\* webhook-delivery.service.ts: the rows keep their shapes, and no row gets more attempts
\* than its retries and what operators and mishaps add.
THEOREM WebhookTypes == WebhookSpec => []WebhookTypeOK
  <1>1. WebhookInv => WebhookTypeOK
    <2> SUFFICES ASSUME WebhookInv PROVE WebhookTypeOK
      OBVIOUS
    <2>1. ASSUME NEW d \in Delivery, Exists(d)
          PROVE  /\ delivery[d].status \in {"queued", "sent", "failed"}
                 /\ delivery[d].attempts \in 0 .. RetryMax + MaxOrders + MaxMishaps
      <3>1. delivery[d] \in ADelivery
        BY <2>1 DEF WebhookInv, Typing, TablesTyping, Exists
      <3>2. /\ delivery[d].status \in {"queued", "sent", "failed"} /\ delivery[d].attempts \in Nat
        BY <3>1 DEF ADelivery
      <3>3. /\ orders[d] <= 1 + MaxOrders - ordersLeft /\ mishaps[d] <= MaxMishaps - mishapsLeft
            /\ delivery[d].attempts <= RetryMax - 1 + Spare(d)
        BY <2>1 DEF WebhookInv, OrdersBound, Ledger
      <3>4. Spare(d) \in Int /\ Spare(d) <= orders[d] + mishaps[d]
        BY SpareIsInt DEF WebhookInv
      <3>5. /\ orders[d] \in Nat /\ mishaps[d] \in Nat
            /\ ordersLeft \in 0 .. MaxOrders /\ mishapsLeft \in 0 .. MaxMishaps
            /\ RetryMax \in Nat /\ MaxOrders \in Nat /\ MaxMishaps \in Nat
        BY WebhookAssumption DEF WebhookInv, Typing, TablesTyping
      <3> QED BY <3>2, <3>3, <3>4, <3>5
    <2> QED BY <2>1 DEF WebhookTypeOK, WebhookInv, Typing, TablesTyping, RowsExist
  <1> QED BY <1>1, WebhookStart, WebhookStep, PTL DEF WebhookSpec

\* deliverWebhook: the endpoint takes a row no more often than it was ordered, lost answers,
\* failed writes and restarts apart.
THEOREM AcceptedOnce == WebhookSpec => []AcceptedAsOrdered
  <1>1. WebhookInv => AcceptedAsOrdered
    <2> SUFFICES ASSUME WebhookInv, NEW d \in Delivery
                 PROVE  accepted[d] <= orders[d] + mishaps[d]
      BY DEF AcceptedAsOrdered
    <2>1. accepted[d] <= Spare(d)
      BY DEF WebhookInv, Ledger
    <2>2. Spare(d) \in Int /\ Spare(d) <= orders[d] + mishaps[d]
      BY SpareIsInt DEF WebhookInv
    <2>3. accepted[d] \in Nat /\ orders[d] \in Nat /\ mishaps[d] \in Nat
      BY DEF WebhookInv, Typing, TablesTyping
    <2> QED BY <2>1, <2>2, <2>3
  <1> QED BY <1>1, WebhookStart, WebhookStep, PTL DEF WebhookSpec

\* handleFailure, resend and createDeliveries: who makes a row 'queued' goes on to queue it.
THEOREM QueuedGoesOn == WebhookSpec => []QueuedIsCarried
  <1>1. WebhookInv => QueuedIsCarried
    BY DEF WebhookInv
  <1> QED BY <1>1, WebhookStart, WebhookStep, PTL DEF WebhookSpec
=============================================================================
