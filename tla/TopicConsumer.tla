---------------------------- MODULE TopicConsumer ----------------------------
(***************************************************************************)
(* danube/topic_consumer.py: the consumer object of one partition, as a    *)
(* record, and the stretches of its methods between two awaits. Module     *)
(* Consumer interleaves them. Payloads, metadata other than the routing    *)
(* header, key filters, the subscription and request_id are left out.      *)
(***************************************************************************)
EXTENDS Connection

TopicConsumerType ==
    [broker_addr : Urls, connect_url : Urls, proxy : BOOLEAN,
     stub : Urls \cup {NoUrl}, consumer_id : Nat,
     stop_event : BOOLEAN, health_task : Nat]

\* TopicConsumer.__init__. health_task is the id of the session that the task
\* in self._health_task watches, 0 for None.
NewTopicConsumer ==
    [broker_addr |-> ServiceUrl, connect_url |-> ServiceUrl, proxy |-> FALSE,
     stub |-> NoUrl, consumer_id |-> 0,
     stop_event |-> FALSE, health_task |-> 0]

\* A defect to detect: the id of the first session is kept.
SubscribedKeepsId(tc, id) ==
    [tc EXCEPT !.consumer_id = IF @ = 0 THEN id ELSE @, !.health_task = id]

\* _try_subscribe after Subscribe has answered.
Subscribed(tc, id) == [tc EXCEPT !.consumer_id = id, !.health_task = id]

\* The coroutine that start_health_check creates: it captures id and address.
HealthTask(tc) == [id |-> tc.consumer_id, route |-> HealthRoute(tc)]

(***************************************************************************)
(* The stream that TopicConsumer.receive opens, as the broker and the gRPC *)
(* channel keep it: the session and the address it was opened for, the     *)
(* next message the broker sends (0 before the first) and the messages     *)
(* sent that the receive loop has not read.                                *)
(***************************************************************************)
OpenStream(tc) == [id |-> tc.consumer_id, route |-> Route(tc), next |-> 0, buf |-> <<>>]
=============================================================================
