---------------------------- MODULE TopicProducer ----------------------------
(***************************************************************************)
(* danube/topic_producer.py: the producer object of one partition, as a    *)
(* record, and the stretches of its methods between two awaits, as         *)
(* operators on that record. asyncio runs such a stretch without           *)
(* interruption; module Producer interleaves them.                         *)
(*                                                                         *)
(* Left out because no property tells them apart: payloads, attributes,    *)
(* publish times, metadata other than the routing header, and request_id   *)
(* (a counter that only makes requests distinct; here a request is told    *)
(* apart by its message and the number of the attempt).                    *)
(***************************************************************************)
EXTENDS Connection

TopicProducerType ==
    [broker_addr : Urls, connect_url : Urls, proxy : BOOLEAN,
     stub : Urls \cup {NoUrl}, producer_id : Nat,
     stop_event : BOOLEAN, health_task : Nat]

\* TopicProducer.__init__. health_task is the id of the session that the task
\* in self._health_task watches, 0 for None.
NewTopicProducer ==
    [broker_addr |-> ServiceUrl, connect_url |-> ServiceUrl, proxy |-> FALSE,
     stub |-> NoUrl, producer_id |-> 0,
     stop_event |-> FALSE, health_task |-> 0]

\* The request of TopicProducer.send: producer_id, address and channel are read
\* in one stretch, whatever other coroutines have done to the object.
SendRequest(tp, p, m, try) ==
    [msg |-> m, try |-> try, part |-> p, route |-> Route(tp),
     producer_id |-> tp.producer_id]

\* The coroutine that start_health_check creates: it captures id and address.
HealthTask(tp) == [id |-> tp.producer_id, route |-> HealthRoute(tp)]

\* _try_create after CreateProducer has answered: the id is stored and the
\* handle of the health check of an earlier session is overwritten.
Created(tp, id) == [tp EXCEPT !.producer_id = id, !.health_task = id]
=============================================================================
