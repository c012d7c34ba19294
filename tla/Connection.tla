----------------------------- MODULE Connection -----------------------------
(***************************************************************************)
(* What TopicProducer and TopicConsumer share: where an object sends its   *)
(* RPCs. Both keep the address of the owning broker (broker_addr), the     *)
(* address to dial (connect_url), whether the two differ (proxy), and a    *)
(* stub made from a cached channel. The operators are stretches of code    *)
(* between two awaits, on the object as a record.                          *)
(***************************************************************************)
EXTENDS Cluster

CONSTANT NoUrl   \* a stub that is None

ASSUME NoUrlAssumption == NoUrl \notin Brokers \cup {ServiceUrl}

\* A defect to detect: the two addresses of an answer are mixed up.
SetAddressSwapped(q, addr) ==
    [q EXCEPT !.broker_addr = addr.connect_url,
              !.connect_url = addr.broker_url,
              !.proxy = addr.proxy]

\* The assignments of _lookup_new_broker and of Producer._lookup_and_recreate.
SetAddress(q, addr) ==
    [q EXCEPT !.broker_addr = addr.broker_url,
              !.connect_url = addr.connect_url,
              !.proxy = addr.proxy]

\* ConnectionManager.get_connection: channels are cached per (broker_url,
\* connect_url), never closed, and a channel dials connect_url alone.
get_connection(broker_url, connect_url) == connect_url

\* _connect.
Connect(q) == [q EXCEPT !.stub = get_connection(q.broker_addr, q.connect_url)]

\* Channel and routing header of an RPC that the object sends now.
Route(q) == [url |-> q.stub,
             header |-> insert_proxy_header(q.broker_addr, q.proxy)]

\* Those of the health check that start_health_check creates: they are captured.
HealthRoute(q) == [url |-> get_connection(q.broker_addr, q.connect_url),
                   header |-> insert_proxy_header(q.broker_addr, q.proxy)]

RouteType == [url : Urls \cup {NoUrl}, header : Headers]

\* A defect to detect: the handle is cancelled, the event is not set.
StopCancelsOnly(q) == [q EXCEPT !.health_task = 0]

\* stop(): the loop of the health check is cancelled and forgotten.
Stop(q) == [q EXCEPT !.stop_event = TRUE, !.health_task = 0]
=============================================================================
