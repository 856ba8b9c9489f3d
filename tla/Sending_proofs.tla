---------------------------- MODULE Sending_proofs ----------------------------
(***************************************************************************)
(* The safety theorems of Sending, for any destinations, keys, workers and  *)
(* limits: type correctness, no panic, one transaction in flight for each   *)
(* destination, no event lost, and that every step is a step of Delivery or *)
(* changes nothing there.  The lemmas named ...Core say what one step of a  *)
(* worker does to the transactions in flight.                               *)
(***************************************************************************)
EXTENDS Sending, TLAPS

\* The positions of a sequence.
LEMMA Positions ==
    ASSUME NEW S, NEW s \in Seq(S)
    PROVE  Len(s) \in Nat /\ DOMAIN s = 1 .. Len(s)
BY SMTT(20)

\* An element is put at the end of a sequence: every position holds what it held, or the element.
LEMMA Appended ==
    ASSUME NEW S, NEW s \in Seq(S), NEW e \in S, NEW i \in DOMAIN Append(s, e)
    PROVE  (i \in DOMAIN s /\ Append(s, e)[i] = s[i]) \/ Append(s, e)[i] = e
OBVIOUS

\* An element of a sequence is replaced.
LEMMA Replaced ==
    ASSUME NEW S, NEW s \in Seq(S), NEW i \in DOMAIN s, NEW e \in S
    PROVE  [s EXCEPT ![i] = e] \in Seq(S) /\ Len([s EXCEPT ![i] = e]) = Len(s)
<1>1. Len(s) \in Nat /\ DOMAIN s = 1 .. Len(s) /\ s \in [1 .. Len(s) -> S]
  OBVIOUS
<1>2. [s EXCEPT ![i] = e] \in [1 .. Len(s) -> S]
  BY Zenon, <1>1
<1> QED
  BY <1>1, <1>2

\* What is cleaned up after is a destination.
LEMMA CleanedIsDest == \A d \in Appservice \cup Push : d \in Dest
BY DEF Dest

\* Taking a transaction out of a sequence of transactions.
LEMMA WithoutType ==
    ASSUME NEW S, NEW s \in Seq(S), NEW i \in DOMAIN s
    PROVE  Without(s, i) \in Seq(S)
BY Positions DEF Without

\* Removing the only element of a sequence leaves none.
LEMMA WithoutOnly ==
    ASSUME NEW S, NEW s \in Seq(S), Len(s) \in {0, 1}, NEW i \in DOMAIN s
    PROVE  Without(s, i) = <<>> /\ i = 1 /\ Len(s) = 1
<1>0. Len(s) \in Nat /\ DOMAIN s = 1 .. Len(s)
  BY Positions
<1>1. i = 1 /\ Len(s) = 1
  BY <1>0
<1>2. SubSeq(s, 1, 0) = <<>> /\ SubSeq(s, 2, 1) = <<>>
  OBVIOUS
<1> QED
  BY <1>1, <1>2 DEF Without

\* A first element.
LEMMA AppendFirst ==
    ASSUME NEW S, NEW x \in S
    PROVE  Append(<<>>, x) = <<x>> /\ <<x>> \in Seq(S)
OBVIOUS

\* FirstN selects from its argument.
LEMMA FirstNSubset == ASSUME NEW S, NEW n PROVE FirstN(S, n) \subseteq S
BY DEF FirstN

\* The netburst keeps part of the active table.
LEMMA KeptSubset == ASSUME NEW d PROVE Kept(d) \subseteq active[d]
BY FirstNSubset DEF Kept

-----------------------------------------------------------------------------
(* Type correctness.                                                       *)

\* A new transaction keeps the table of transactions in flight well typed.
LEMMA SendType ==
    ASSUME TypeOK, NEW d \in Dest, NEW ks \in SUBSET Key
    PROVE  send_events(d, ks) \in [Dest -> Seq(Txn)]
<1>1. futures \in [Dest -> Seq(Txn)]
  BY DEF TypeOK
<1>2. [keys |-> ks, arrived |-> FALSE] \in Txn
  BY DEF Txn
<1>3. Append(futures[d], [keys |-> ks, arrived |-> FALSE]) \in Seq(Txn)
  BY <1>1, <1>2
<1> QED
  BY <1>1, <1>3 DEF send_events

\* The sender starts with empty channels and nothing in flight.
LEMMA InitType == Init => TypeOK
<1> SUFFICES ASSUME Init PROVE TypeOK
  OBVIOUS
<1>1. chan \in [Worker -> Seq(Msg)] /\ futures \in [Dest -> Seq(Txn)]
  BY DEF Init
<1>2. restarts \in 0 .. MaxRestarts
  BY BoundAssumption DEF Init
<1> QED
  BY Zenon, <1>1, <1>2 DEF Init, TypeOK, Empty, Status, Pc

\* Every step keeps the state well typed.
LEMMA NextType == TypeOK /\ [Next]_vars => TypeOK'
<1> SUFFICES ASSUME TypeOK, [Next]_vars PROVE TypeOK'
  OBVIOUS
<1> USE DEF Status, Pc, db, io, worker, history
<1>1. ASSUME NEW D \in SUBSET Dest, NEW k \in Key, queue_requests(D, k) PROVE TypeOK'
  BY ZenonT(40), <1>1 DEF queue_requests, TypeOK
<1>2. ASSUME NEW d \in Dest, NEW k \in Key, dispatch(d, k) PROVE TypeOK'
  <2>1. [dest |-> d, key |-> k] \in Msg
    BY DEF Msg
  <2>2. shard_id[d] \in Worker /\ chan[shard_id[d]] \in Seq(Msg)
    BY ShardAssumption DEF TypeOK
  <2>3. chan' \in [Worker -> Seq(Msg)]
    BY <1>2, <2>1, <2>2 DEF dispatch, TypeOK
  <2> QED
    BY Zenon, <1>2, <2>3 DEF dispatch, TypeOK
<1>3. ASSUME NEW d \in Dest, flush_servers(d) PROVE TypeOK'
  <2>1. [dest |-> d, key |-> Flush] \in Msg
    BY DEF Msg
  <2>2. shard_id[d] \in Worker /\ chan[shard_id[d]] \in Seq(Msg)
    BY ShardAssumption DEF TypeOK
  <2>3. chan' \in [Worker -> Seq(Msg)]
    BY <1>3, <2>1, <2>2 DEF flush_servers, TypeOK
  <2> QED
    BY Zenon, <1>3, <2>3 DEF flush_servers, TypeOK
<1>4. ASSUME NEW d \in Dest, cleanup_active(d) \/ cleanup_queued(d) PROVE TypeOK'
  <2>1. active[d] \in SUBSET Key /\ queue[d] \in SUBSET Key
    BY DEF TypeOK
  <2>2. CASE cleanup_active(d)
    BY <2>1, <2>2 DEF cleanup_active, Note, TypeOK
  <2>3. CASE cleanup_queued(d)
    BY Zenon, <2>1, <2>3 DEF cleanup_queued, Note, TypeOK
  <2> QED
    BY <1>4, <2>2, <2>3
<1>5. CASE interrupt
  BY <1>5 DEF interrupt, TypeOK
<1>6. ASSUME NEW w \in Worker, startup_netburst_step(w) PROVE TypeOK'
  <2>1. \A d \in Dest : Kept(d) \in SUBSET Key
    BY KeptSubset DEF TypeOK
  <2>2. \A d \in Dest : send_events(d, Kept(d))[d] \in Seq(Txn)
    BY <2>1, SendType
  <2>3. futures' \in [Dest -> Seq(Txn)]
    BY Zenon, <1>6, <2>2 DEF startup_netburst_step, TypeOK
  <2> QED
    BY Zenon, <1>6, <2>1, <2>3 DEF startup_netburst_step, TypeOK, Loop
<1>7. ASSUME NEW w \in Worker, dequeue(w) PROVE TypeOK'
  <2>1. cur[w] \in Dest /\ queue[cur[w]] \in SUBSET Key
    BY Zenon, <1>7 DEF dequeue, TypeOK
  <2>2. FirstN(queue[cur[w]], DEQUEUE_LIMIT) \in SUBSET Key
    BY <2>1, FirstNSubset
  <2>3. CASE FirstN(queue[cur[w]], DEQUEUE_LIMIT) # {}
    <3>1. /\ batch' = [batch EXCEPT ![w] = FirstN(queue[cur[w]], DEQUEUE_LIMIT)]
          /\ next' = [next EXCEPT ![w] = FirstN(queue[cur[w]], DEQUEUE_LIMIT)]
          /\ pc' = [pc EXCEPT ![w] = "mark"]
          /\ UNCHANGED <<queue, active, calls, chan, closed, statuses, hot, futures, cur,
                         cleaning, restarts, accepted, received, acked, dropped>>
      BY Zenon, <1>7, <2>3 DEF dequeue
    <3>2. batch' \in [Worker -> SUBSET Key] /\ next' \in [Worker -> SUBSET Key]
      BY Zenon, <3>1, <2>2 DEF TypeOK
    <3> QED
      BY Zenon, <2>1, <3>1, <3>2 DEF TypeOK
  <2>4. CASE FirstN(queue[cur[w]], DEQUEUE_LIMIT) = {}
    BY ZenonT(40), <1>7, <2>1, <2>4 DEF dequeue, TypeOK, Loop
  <2> QED
    BY <2>3, <2>4
<1>8. ASSUME NEW w \in Worker, mark_as_active(w) PROVE TypeOK'
  <2>1. PICK k \in FirstN(batch[w], 1) :
          /\ active' = [active EXCEPT ![cur[w]] = @ \cup {k}]
          /\ queue' = [queue EXCEPT ![cur[w]] = @ \ {k}]
          /\ batch' = [batch EXCEPT ![w] = @ \ {k}]
    BY Zenon, <1>8 DEF mark_as_active
  <2>2. k \in Key
    BY FirstNSubset DEF TypeOK
  <2>3. active' \in [Dest -> SUBSET Key]
    BY ZenonT(40), <2>1, <2>2 DEF TypeOK
  <2>4. queue' \in [Dest -> SUBSET Key] /\ batch' \in [Worker -> SUBSET Key]
    BY ZenonT(40), <2>1 DEF TypeOK
  <2> QED
    BY Zenon, <1>8, <2>3, <2>4 DEF mark_as_active, TypeOK
<1>9. ASSUME NEW w \in Worker, push_future(w) PROVE TypeOK'
  <2>1. futures' \in [Dest -> Seq(Txn)]
    BY ZenonT(30), <1>9, SendType DEF push_future, TypeOK
  <2> QED
    BY Zenon, <1>9, <2>1 DEF push_future, TypeOK, Loop
<1>10. ASSUME NEW w \in Worker, handle_request(w) PROVE TypeOK'
  <2> DEFINE m == Head(chan[w])
             new == NewEvents(m)
  <2>1. chan[w] \in Seq(Msg) /\ chan[w] # <<>>
    BY Zenon, <1>10 DEF handle_request, TypeOK
  <2>2. m \in Msg /\ Tail(chan[w]) \in Seq(Msg)
    BY <2>1
  <2>3. m.dest \in Dest /\ new \in SUBSET Key
    BY <2>2 DEF Msg, NewEvents
  <2>4. chan' \in [Worker -> Seq(Msg)]
    BY Zenon, <1>10, <2>2 DEF handle_request, TypeOK
  <2>5. active[m.dest] \in SUBSET Key
    BY Zenon, <2>3 DEF TypeOK
  <2>6. send_events(m.dest, active[m.dest]) \in [Dest -> Seq(Txn)]
    BY <2>3, <2>5, SendType
  <2> HIDE DEF m
  <2>7. CASE ~Allowed(m.dest)
    BY ZenonT(40), <1>10, <2>4, <2>7 DEF handle_request, TypeOK, Loop, m
  <2>8. CASE Allowed(m.dest) /\ statuses[m.dest] = "failed"
    BY ZenonT(40), <1>10, <2>3, <2>4, <2>6, <2>8 DEF handle_request, TypeOK, Loop, StatusAfterRetry, m
  <2>9. CASE Allowed(m.dest) /\ statuses[m.dest] # "failed"
    <3>1. /\ statuses' = [statuses EXCEPT ![m.dest] = "running"]
          /\ batch' = [batch EXCEPT ![w] = new]
          /\ next' = [next EXCEPT ![w] = new]
          /\ pc' = [pc EXCEPT ![w] = "mark"] /\ cur' = [cur EXCEPT ![w] = m.dest]
          /\ UNCHANGED <<queue, active, calls, closed, hot, futures, cleaning, restarts,
                         accepted, received, acked, dropped>>
      BY Zenon, <1>10, <2>9 DEF handle_request, m
    <3> HIDE DEF new
    <3>2. batch' \in [Worker -> SUBSET Key] /\ next' \in [Worker -> SUBSET Key]
      BY Zenon, <3>1, <2>3 DEF TypeOK
    <3> QED
      BY Zenon, <2>3, <2>4, <3>1, <3>2 DEF TypeOK
  <2> QED
    BY Zenon, <1>10, <2>7, <2>8, <2>9 DEF handle_request, m
<1>11. ASSUME NEW w \in Worker, leave_work_loop(w) PROVE TypeOK'
  BY Zenon, <1>11 DEF leave_work_loop, TypeOK
<1>12. ASSUME NEW w \in Worker, finish_responses_return(w) PROVE TypeOK'
  BY <1>12 DEF finish_responses_return, TypeOK
<1>13. ASSUME NEW w \in Worker, NEW d \in Dest, NEW i \in DOMAIN futures[d],
              \/ handle_response_ok(w, d, i)
              \/ handle_response_err(w, d, i)
              \/ finish_response(w, d, i)
       PROVE  TypeOK'
  <2>1. Without(futures[d], i) \in Seq(Txn)
    BY WithoutType DEF TypeOK
  <2>0. futures[d][i] \in Txn
    BY DEF TypeOK
  <2>2. futures[d][i].keys \in SUBSET Key
    BY Zenon, <2>0 DEF Txn
  <2>3. futures' \in [Dest -> Seq(Txn)]
    BY ZenonT(40), <1>13, <2>1 DEF handle_response_ok, handle_response_err, finish_response, TypeOK
  <2>4. CASE handle_response_ok(w, d, i)
    BY Zenon, <2>2, <2>3, <2>4 DEF handle_response_ok, TypeOK, Note
  <2>5. CASE handle_response_err(w, d, i)
    BY ZenonT(40), <2>3, <2>5 DEF handle_response_err, TypeOK, Loop
  <2>6. CASE finish_response(w, d, i)
    <3>0. [active EXCEPT ![d] = {}] \in [Dest -> SUBSET Key]
          /\ Note(acked, d, futures[d][i].keys) \in [Dest -> SUBSET Key]
      BY Zenon, <2>2 DEF TypeOK, Note
    <3>1. active' \in [Dest -> SUBSET Key] /\ acked' \in [Dest -> SUBSET Key]
      BY ZenonT(40), <2>6, <3>0 DEF finish_response, TypeOK
    <3> QED
      BY Zenon, <2>3, <2>6, <3>1 DEF finish_response, TypeOK
  <2> QED
    BY <1>13, <2>4, <2>5, <2>6
<1>14. ASSUME NEW d \in Dest, NEW i \in DOMAIN futures[d], RemoteReceives(d, i) PROVE TypeOK'
  <2>1. futures[d][i] \in Txn
    BY DEF TypeOK
  <2>5. [futures[d][i] EXCEPT !.arrived = TRUE] \in Txn /\ futures[d] \in Seq(Txn)
    BY Zenon, <2>1 DEF TypeOK, Txn
  <2>2. [futures[d] EXCEPT ![i] = [@ EXCEPT !.arrived = TRUE]] \in Seq(Txn)
    BY <2>5, Replaced
  <2>3. futures' \in [Dest -> Seq(Txn)]
    BY <1>14, <2>2 DEF RemoteReceives, TypeOK
  <2> QED
    BY Zenon, <1>14, <2>1, <2>3 DEF RemoteReceives, TypeOK, Note, Txn
<1>15. ASSUME NEW d \in Dest, BackoffExpires(d) PROVE TypeOK'
  BY Zenon, <1>15 DEF BackoffExpires, TypeOK
<1>16. CASE Restart
  <2>1. active' \in [Dest -> SUBSET Key]
    BY <1>16, FirstNSubset DEF Restart, TypeOK
  <2>2. restarts' \in 0 .. MaxRestarts
    BY <1>16, BoundAssumption DEF Restart, TypeOK
  <2>3. chan' \in [Worker -> Seq(Msg)] /\ futures' \in [Dest -> Seq(Txn)]
    BY <1>16 DEF Restart
  <2> QED
    BY Zenon, <1>16, <2>1, <2>2, <2>3 DEF Restart, TypeOK
<1>17. CASE UNCHANGED vars
  BY Zenon, <1>17 DEF vars, TypeOK
<1> QED
  BY CleanedIsDest, <1>1, <1>2, <1>3, <1>4, <1>5, <1>6, <1>7, <1>8, <1>9, <1>10, <1>11, <1>12, <1>13,
     <1>14, <1>15, <1>16, <1>17 DEF Next, WorkerStep, Response

\* The sender's tables, channels, statuses and transactions keep their types in
\* every behaviour of the sending service.
THEOREM SendingTypeOK == Spec => []TypeOK
BY InitType, NextType, PTL DEF Spec

-----------------------------------------------------------------------------
(* At most one transaction in flight, and no panic.                        *)

\* A transaction sent where nothing is in flight is the only one.
LEMMA SendAlone ==
    ASSUME TypeOK, NEW d \in Dest, NEW ks \in SUBSET Key, Len(futures[d]) = 0
    PROVE  /\ Len(send_events(d, ks)[d]) = 1
           /\ send_events(d, ks)[d][1] = [keys |-> ks, arrived |-> FALSE]
           /\ \A e \in Dest : e # d => send_events(d, ks)[e] = futures[e]
<1> DEFINE t == [keys |-> ks, arrived |-> FALSE]
<1>1. futures \in [Dest -> Seq(Txn)]
  BY DEF TypeOK
<1>2. t \in Txn
  BY DEF Txn
<1>3. /\ send_events(d, ks)[d] = Append(futures[d], t)
      /\ \A e \in Dest : e # d => send_events(d, ks)[e] = futures[e]
  BY <1>1 DEF send_events
<1> HIDE DEF t
<1>4. Len(Append(futures[d], t)) = 1 /\ Append(futures[d], t)[1] = t
  BY <1>1, <1>2
<1> QED
  BY Zenon, <1>3, <1>4 DEF t

\* An answer takes the only transaction of its destination out of flight.
LEMMA AnswerAlone ==
    ASSUME TypeOK, FlightInv, NEW d \in Dest, NEW i \in DOMAIN futures[d],
           futures' = [futures EXCEPT ![d] = Without(@, i)]
    PROVE  /\ i = 1 /\ Len(futures[d]) = 1 /\ Len(futures'[d]) = 0
           /\ \A e \in Dest : e # d => futures'[e] = futures[e]
<1>1. futures[d] \in Seq(Txn) /\ Len(futures[d]) \in {0, 1}
  BY DEF TypeOK, FlightInv, DestFlight
<1>2. Without(futures[d], i) = <<>> /\ i = 1 /\ Len(futures[d]) = 1
  BY <1>1, WithoutOnly
<1>3. Len(Without(futures[d], i)) = 0
  BY <1>2
<1> QED
  BY <1>2, <1>3 DEF TypeOK

\* A step of worker w for destination d disturbs nothing of the others.
LEMMA WorkerFrame ==
    ASSUME TypeOK, FlightInv, NEW w \in Worker, NEW d \in Dest, shard_id[d] = w,
           pc[w] # "netburst", pc'[w] \notin {"netburst", "panicked"},
           cur[w] \in {d, NoDest}, cur'[w] \in {d, NoDest},
           cur'[w] = d => pc'[w] \in {"dequeue", "mark"},
           \A v \in Worker : v # w => /\ pc'[v] = pc[v] /\ cur'[v] = cur[v]
                                      /\ batch'[v] = batch[v] /\ next'[v] = next[v],
           \A e \in Dest : e # d => /\ futures'[e] = futures[e] /\ statuses'[e] = statuses[e]
                                    /\ active'[e] = active[e]
    PROVE  /\ DestFlight(d)' => FlightInv'
           /\ ActiveInv /\ DestActive(d)' => ActiveInv'
<1> USE ShardAssumption, NoDestAssumption
<1>1. \A e \in Dest : shard_id[e] \in Worker
  BY Zenon
<1>2. \A e \in Dest : e # d => cur[shard_id[e]] # e \/ shard_id[e] # w
  BY <1>1
<1>3. ASSUME DestFlight(d)' PROVE FlightInv'
  <2>1. NoPanic'
    BY DEF NoPanic, FlightInv
  <2>2. ASSUME NEW v \in Worker, cur'[v] \in Dest
        PROVE  pc'[v] \in {"dequeue", "mark"} /\ shard_id[cur'[v]] = v
    <3>1. CASE v = w
      <4>1. cur'[w] = d
        BY Zenon, <2>2, <3>1
      <4> QED
        BY Zenon, <3>1, <4>1
    <3>2. CASE v # w
      <4>1. cur'[v] = cur[v] /\ pc'[v] = pc[v]
        BY Zenon, <3>2
      <4>2. cur[v] \in Dest => pc[v] \in {"dequeue", "mark"} /\ shard_id[cur[v]] = v
        BY Zenon DEF FlightInv
      <4> QED
        BY Zenon, <2>2, <4>1, <4>2
    <3> QED
      BY Zenon, <3>1, <3>2
  <2>3. ASSUME NEW e \in Dest, e # d PROVE DestFlight(e)'
    <3>1. DestFlight(e) /\ shard_id[e] \in Worker
      BY Zenon, <1>1 DEF FlightInv
    <3> QED
      BY SMTT(20), <2>3, <3>1, <1>2 DEF DestFlight
  <2>4. ASSUME NEW e \in Dest PROVE DestFlight(e)'
    BY Zenon, <1>3, <2>3
  <2> QED
    BY Zenon, <2>1, <2>2, <2>4 DEF FlightInv
<1>4. ASSUME ActiveInv, DestActive(d)' PROVE ActiveInv'
  <2>1. ASSUME NEW e \in Dest, e # d PROVE DestActive(e)'
    <3>1. DestActive(e) /\ shard_id[e] \in Worker
      BY Zenon, <1>1, <1>4 DEF ActiveInv
    <3> QED
      BY SMTT(20), <2>1, <3>1, <1>2 DEF DestActive
  <2> QED
    BY Zenon, <1>4, <2>1 DEF ActiveInv
<1> QED
  BY <1>3, <1>4

\* Steps that leave the workers, the statuses, the transactions and the active
\* rows alone, or only delete active rows.
LEMMA OutsideFrame ==
    ASSUME FlightInv, UNCHANGED <<statuses, futures, pc, cur, batch, next>>,
           \A d \in Dest : active'[d] \subseteq active[d]
    PROVE  FlightInv' /\ (ActiveInv => ActiveInv')
<1>1. FlightInv'
  BY Zenon DEF FlightInv, DestFlight, NoPanic
<1>2. ASSUME ActiveInv, NEW d \in Dest PROVE DestActive(d)'
  <2>1. DestActive(d) /\ active'[d] \subseteq active[d]
    BY <1>2 DEF ActiveInv
  <2> QED
    BY Zenon, <2>1 DEF DestActive
<1> QED
  BY <1>1, <1>2 DEF ActiveInv

\* At the start nothing is in flight, and the active rows wait for the netburst.
LEMMA InitCore == Init => FlightInv /\ ActiveInv
BY NoDestAssumption, ShardAssumption
   DEF Init, FlightInv, DestFlight, NoPanic, ActiveInv, DestActive

\* startup_netburst starts one transaction for every destination with rows.
LEMMA NetburstCore ==
    ASSUME TypeOK, FlightInv, NEW w \in Worker, startup_netburst_step(w)
    PROVE  FlightInv' /\ (startup_netburst /\ ActiveInv => ActiveInv')
<1> USE ShardAssumption, NoDestAssumption
<1> DEFINE sent(d) == shard_id[d] = w /\ startup_netburst /\ Kept(d) # {}
<1>1. pc' = [pc EXCEPT ![w] = Loop] /\ pc[w] = "netburst" /\ Loop \in {"idle", "drain"}
      /\ UNCHANGED <<cur, batch, next>>
  BY Zenon DEF startup_netburst_step, Loop
<1>2. cur[w] \notin Dest
  BY <1>1 DEF FlightInv
<1>3. ASSUME NEW d \in Dest, shard_id[d] = w
      PROVE  /\ active'[d] = Kept(d)
             /\ sent(d) => /\ statuses'[d] = "running" /\ Len(futures'[d]) = 1
                           /\ futures'[d][1].keys = Kept(d)
             /\ ~sent(d) => statuses'[d] = "vacant" /\ Len(futures'[d]) = 0
  <2>1. Kept(d) \in SUBSET Key
    BY KeptSubset DEF TypeOK
  <2>2. Len(futures[d]) = 0 /\ statuses[d] = "vacant"
    BY ZenonT(20), <1>1, <1>3 DEF FlightInv, DestFlight, TypeOK
  <2>3. Len(send_events(d, Kept(d))[d]) = 1 /\ send_events(d, Kept(d))[d][1].keys = Kept(d)
    <3>1. /\ Len(send_events(d, Kept(d))[d]) = 1
          /\ send_events(d, Kept(d))[d][1] = [keys |-> Kept(d), arrived |-> FALSE]
      BY Zenon, <2>1, <2>2, SendAlone
    <3> QED
      BY <3>1
  <2>4. active'[d] = Kept(d)
        /\ (sent(d) => statuses'[d] = "running" /\ futures'[d] = send_events(d, Kept(d))[d])
        /\ (~sent(d) => statuses'[d] = statuses[d] /\ futures'[d] = futures[d])
    BY Zenon, <1>3 DEF startup_netburst_step
  <2> QED
    BY Zenon, <2>2, <2>3, <2>4
<1>4. \A d \in Dest : shard_id[d] # w =>
          active'[d] = active[d] /\ statuses'[d] = statuses[d] /\ futures'[d] = futures[d]
  BY Zenon DEF startup_netburst_step
<1> HIDE DEF sent
<1>5. ASSUME NEW d \in Dest PROVE DestFlight(d)'
  <2>1. CASE shard_id[d] = w
    <3>1. pc'[shard_id[d]] # "netburst" /\ cur'[shard_id[d]] # d
      BY ZenonT(20), <1>1, <1>2, <2>1 DEF TypeOK
    <3>2. \/ statuses'[d] = "running" /\ Len(futures'[d]) = 1
          \/ statuses'[d] = "vacant" /\ Len(futures'[d]) = 0
      BY Zenon, <1>3, <2>1
    <3>3. Len(futures'[d]) \in {0, 1}
      BY <3>2
    <3>4. statuses'[d] \in {"vacant", "failed"} => Len(futures'[d]) = 0
      BY <3>2
    <3> QED
      BY Zenon, <3>1, <3>3, <3>4 DEF DestFlight
  <2>2. CASE shard_id[d] # w
    <3>1. DestFlight(d) /\ pc'[shard_id[d]] = pc[shard_id[d]]
      BY Zenon, <1>1, <2>2 DEF FlightInv, TypeOK
    <3> QED
      BY Zenon, <1>1, <1>4, <2>2, <3>1 DEF DestFlight
  <2> QED
    BY <2>1, <2>2
<1>6. FlightInv'
  <2>1. NoPanic'
    BY Zenon, <1>1 DEF FlightInv, NoPanic, TypeOK
  <2>2. \A v \in Worker : cur'[v] \in Dest => pc'[v] \in {"dequeue", "mark"} /\ shard_id[cur'[v]] = v
    BY ZenonT(40), <1>1, <1>2 DEF FlightInv, TypeOK
  <2> QED
    BY Zenon, <1>5, <2>1, <2>2 DEF FlightInv
<1>7. ASSUME startup_netburst, ActiveInv, NEW d \in Dest PROVE DestActive(d)'
  <2>1. CASE shard_id[d] = w
    <3>1. Kept(d) # {} => sent(d)
      BY <1>7, <2>1 DEF sent
    <3>2. cur'[shard_id[d]] # d
      BY <1>1, <1>2, <2>1
    <3> QED
      BY Zenon, <1>3, <2>1, <3>1, <3>2 DEF DestActive
  <2>2. CASE shard_id[d] # w
    <3>1. DestActive(d) /\ pc'[shard_id[d]] = pc[shard_id[d]]
      BY ZenonT(20), <1>1, <1>7, <2>2 DEF ActiveInv, TypeOK
    <3> QED
      BY Zenon, <1>1, <1>4, <2>2, <3>1 DEF DestActive
  <2> QED
    BY ZenonT(20), <2>1, <2>2
<1> QED
  BY <1>6, <1>7 DEF ActiveInv

\* A worker that composes a transaction does so for one of its destinations,
\* which has nothing in flight.
LEMMA Composing ==
    ASSUME TypeOK, FlightInv, NEW w \in Worker, pc[w] \in {"dequeue", "mark"}
    PROVE  /\ cur[w] \in Dest /\ shard_id[cur[w]] = w
           /\ statuses[cur[w]] \in {"running", "retrying"}
           /\ Len(futures[cur[w]]) = 0
           /\ ActiveInv => DestActive(cur[w])
<1>1. cur[w] \in Dest
  BY Zenon DEF TypeOK
<1>2. shard_id[cur[w]] = w /\ DestFlight(cur[w])
  BY Zenon, <1>1 DEF FlightInv
<1> QED
  BY Zenon, <1>1, <1>2 DEF DestFlight, ActiveInv

\* handle_response_ok picks up the queued events, or makes the destination idle.
LEMMA DequeueCore ==
    ASSUME TypeOK, FlightInv, NEW w \in Worker, dequeue(w)
    PROVE  FlightInv' /\ (ActiveInv => ActiveInv')
<1> USE ShardAssumption, NoDestAssumption
<1>1. pc[w] = "dequeue"
  BY Zenon DEF dequeue
<1>2. PICK d \in Dest :
        /\ d = cur[w] /\ shard_id[d] = w /\ statuses[d] \in {"running", "retrying"}
        /\ Len(futures[d]) = 0 /\ (ActiveInv => DestActive(d))
  BY Zenon, <1>1, Composing
<1> DEFINE new_events == FirstN(queue[d], DEQUEUE_LIMIT)
<1>3. ActiveInv => active[d] = {}
  BY ZenonT(20), <1>1, <1>2 DEF DestActive
<1>4. \/ /\ batch' = [batch EXCEPT ![w] = new_events]
         /\ next' = [next EXCEPT ![w] = new_events]
         /\ pc' = [pc EXCEPT ![w] = "mark"]
         /\ UNCHANGED <<statuses, cur>>
      \/ /\ statuses' = [statuses EXCEPT ![d] = "vacant"]
         /\ pc' = [pc EXCEPT ![w] = Loop] /\ cur' = [cur EXCEPT ![w] = NoDest]
         /\ UNCHANGED <<batch, next>>
  BY Zenon, <1>2 DEF dequeue
<1>5. UNCHANGED <<futures, active>>
  BY Zenon DEF dequeue, db
<1>6. Loop \in {"idle", "drain"}
  BY DEF Loop
<1> HIDE DEF new_events
<1>7. /\ pc'[w] \in {"mark", "idle", "drain"} /\ cur'[w] \in {d, NoDest}
      /\ cur'[w] = d => pc'[w] = "mark" /\ statuses'[d] = statuses[d] /\ batch'[w] = next'[w]
      /\ cur'[w] = NoDest => pc'[w] # "mark" /\ statuses'[d] = "vacant"
  BY <1>2, <1>4, <1>6 DEF TypeOK
<1>8. /\ \A v \in Worker : v # w => /\ pc'[v] = pc[v] /\ cur'[v] = cur[v]
                                    /\ batch'[v] = batch[v] /\ next'[v] = next[v]
      /\ \A e \in Dest : e # d => statuses'[e] = statuses[e]
  BY ZenonT(40), <1>4 DEF TypeOK
<1>9. DestFlight(d)'
  BY Zenon, <1>2, <1>5, <1>7 DEF DestFlight
<1>10. ActiveInv => DestActive(d)'
  BY Zenon, <1>2, <1>3, <1>5, <1>7 DEF DestActive
<1> QED
  BY ZenonT(30), <1>1, <1>2, <1>5, <1>7, <1>8, <1>9, <1>10, WorkerFrame

\* mark_as_active moves a row of the batch of the transaction being composed.
LEMMA MarkCore ==
    ASSUME TypeOK, FlightInv, NEW w \in Worker, mark_as_active(w)
    PROVE  FlightInv' /\ (ActiveInv => ActiveInv')
<1> USE ShardAssumption, NoDestAssumption
<1>1. pc[w] = "mark" /\ UNCHANGED <<statuses, futures, pc, cur, next>>
  BY Zenon DEF mark_as_active
<1>2. PICK d \in Dest :
        /\ d = cur[w] /\ shard_id[d] = w /\ statuses[d] \in {"running", "retrying"}
        /\ Len(futures[d]) = 0 /\ (ActiveInv => DestActive(d))
  BY Zenon, <1>1, Composing
<1>3. PICK k \in batch[w] : /\ active' = [active EXCEPT ![d] = @ \cup {k}]
                            /\ batch' = [batch EXCEPT ![w] = @ \ {k}]
  BY Zenon, <1>2, FirstNSubset DEF mark_as_active
<1>4. active'[d] = active[d] \cup {k} /\ batch'[w] = batch[w] \ {k}
  BY Zenon, <1>2, <1>3 DEF TypeOK
<1>5. /\ \A v \in Worker : v # w => batch'[v] = batch[v]
      /\ \A e \in Dest : e # d => active'[e] = active[e]
  BY ZenonT(20), <1>3 DEF TypeOK
<1>6. DestFlight(d)'
  BY ZenonT(20), <1>1, <1>2 DEF DestFlight
<1>7. ActiveInv => DestActive(d)'
  <2> SUFFICES ASSUME ActiveInv PROVE DestActive(d)'
    OBVIOUS
  <2>1. active[d] \cup batch[w] \subseteq next[w]
    BY Zenon, <1>1, <1>2 DEF DestActive
  <2>2. active'[d] \cup batch'[w] \subseteq next'[w]
    BY Zenon, <1>1, <1>3, <1>4, <2>1
  <2> QED
    BY SMTT(20), <1>1, <1>2, <2>2 DEF DestActive
<1> QED
  BY Zenon, <1>1, <1>2, <1>5, <1>6, <1>7, WorkerFrame

\* All rows are marked and the transaction goes out.
LEMMA PushFutureCore ==
    ASSUME TypeOK, FlightInv, NEW w \in Worker, push_future(w)
    PROVE  FlightInv' /\ (ActiveInv => ActiveInv')
<1> USE ShardAssumption, NoDestAssumption
<1>1. /\ pc[w] = "mark" /\ UNCHANGED <<statuses, active, batch>>
      /\ futures' = send_events(cur[w], next[w]) /\ next' = [next EXCEPT ![w] = {}]
      /\ pc' = [pc EXCEPT ![w] = Loop] /\ cur' = [cur EXCEPT ![w] = NoDest]
  BY Zenon DEF push_future, db
<1>2. PICK d \in Dest :
        /\ d = cur[w] /\ shard_id[d] = w /\ statuses[d] \in {"running", "retrying"}
        /\ Len(futures[d]) = 0 /\ (ActiveInv => DestActive(d))
  BY Zenon, <1>1, Composing
<1>3. next[w] \in SUBSET Key
  BY Zenon DEF TypeOK
<1>4. /\ Len(futures'[d]) = 1
      /\ futures'[d][1] = [keys |-> next[w], arrived |-> FALSE]
      /\ \A e \in Dest : e # d => futures'[e] = futures[e]
  BY ZenonT(40), <1>1, <1>2, <1>3, SendAlone
<1>5. futures'[d][1].keys = next[w]
  BY <1>4
<1>6. /\ pc'[w] \in {"idle", "drain"} /\ cur'[w] = NoDest
      /\ \A v \in Worker : v # w => /\ pc'[v] = pc[v] /\ cur'[v] = cur[v]
                                    /\ batch'[v] = batch[v] /\ next'[v] = next[v]
  <2>1. pc \in [Worker -> Pc] /\ cur \in [Worker -> Dest \cup {NoDest}]
        /\ next \in [Worker -> SUBSET Key] /\ Loop \in {"idle", "drain"}
    BY Zenon DEF TypeOK, Loop
  <2> QED
    BY Zenon, <1>1, <2>1
<1>7. DestFlight(d)'
  <2>1. Len(futures'[d]) \in {0, 1}
    BY Zenon, <1>4
  <2>2. statuses'[d] \notin {"vacant", "failed"} /\ pc'[w] # "netburst" /\ cur'[w] # d
    BY Zenon, <1>1, <1>2, <1>6
  <2> QED
    BY Zenon, <1>2, <2>1, <2>2 DEF DestFlight
<1>8. ActiveInv => DestActive(d)'
  <2> SUFFICES ASSUME ActiveInv PROVE DestActive(d)'
    OBVIOUS
  <2>1. active[d] \subseteq next[w]
    BY Zenon, <1>1, <1>2 DEF DestActive
  <2> QED
    BY Zenon, <1>1, <1>2, <1>5, <1>6, <2>1 DEF DestActive
<1>9. /\ pc[w] # "netburst" /\ pc'[w] \notin {"netburst", "panicked"}
      /\ cur[w] \in {d, NoDest} /\ cur'[w] \in {d, NoDest} /\ cur'[w] # d
  BY Zenon, <1>1, <1>2, <1>6
<1>10. \A e \in Dest : e # d => futures'[e] = futures[e] /\ statuses'[e] = statuses[e] /\ active'[e] = active[e]
  BY Zenon, <1>1, <1>4
<1> QED
  BY ZenonT(40), <1>2, <1>6, <1>7, <1>8, <1>9, <1>10, WorkerFrame

\* A worker that is not composing works on no destination.
LEMMA NotComposing ==
    ASSUME TypeOK, FlightInv, NEW w \in Worker, pc[w] \notin {"dequeue", "mark"}
    PROVE  cur[w] = NoDest
BY ZenonT(40) DEF TypeOK, FlightInv

\* An answer is for a destination that waits for one.
LEMMA Answered ==
    ASSUME TypeOK, FlightInv, NEW d \in Dest, NEW i \in DOMAIN futures[d]
    PROVE  statuses[d] \in {"running", "retrying"} /\ Len(futures[d]) = 1
<1>1. futures[d] \in Seq(Txn) /\ Len(futures[d]) \in {0, 1} /\ statuses[d] \in Status
  BY ZenonT(40) DEF TypeOK, FlightInv, DestFlight
<1>2. Len(futures[d]) = 1
  BY Zenon, <1>1, WithoutOnly
<1>3. statuses[d] \in {"vacant", "failed"} => Len(futures[d]) = 0
  BY Zenon DEF FlightInv, DestFlight
<1>4. Len(futures[d]) # 0
  BY <1>2
<1> QED
  BY Zenon, <1>1, <1>2, <1>3, <1>4 DEF Status

\* An acknowledged transaction: the active rows go, the destination stays busy.
LEMMA ResponseOkCore ==
    ASSUME TypeOK, FlightInv, NEW w \in Worker, NEW d \in Dest, NEW i \in DOMAIN futures[d],
           handle_response_ok(w, d, i)
    PROVE  FlightInv' /\ (ActiveInv => ActiveInv')
<1> USE ShardAssumption, NoDestAssumption
<1>1. /\ pc[w] = "idle" /\ shard_id[d] = w /\ UNCHANGED <<statuses, batch, next>>
      /\ futures' = [futures EXCEPT ![d] = Without(@, i)]
      /\ active' = [active EXCEPT ![d] = {}]
      /\ pc' = [pc EXCEPT ![w] = "dequeue"] /\ cur' = [cur EXCEPT ![w] = d]
  BY Zenon DEF handle_response_ok
<1>2. cur[w] = NoDest /\ statuses[d] \in {"running", "retrying"}
  BY Zenon, <1>1, NotComposing, Answered
<1>3. Len(futures'[d]) = 0 /\ \A e \in Dest : e # d => futures'[e] = futures[e]
  BY Zenon, <1>1, AnswerAlone
<1>4. /\ pc'[w] = "dequeue" /\ cur'[w] = d /\ active'[d] = {}
      /\ \A v \in Worker : v # w => /\ pc'[v] = pc[v] /\ cur'[v] = cur[v]
                                    /\ batch'[v] = batch[v] /\ next'[v] = next[v]
      /\ \A e \in Dest : e # d => active'[e] = active[e]
  BY Zenon, <1>1 DEF TypeOK
<1>5. DestFlight(d)'
  BY Zenon, <1>1, <1>2, <1>3, <1>4 DEF DestFlight
<1>6. DestActive(d)'
  BY ZenonT(30), <1>1, <1>2, <1>3, <1>4 DEF DestActive
<1> QED
  BY ZenonT(40), <1>1, <1>2, <1>3, <1>4, <1>5, <1>6, WorkerFrame

\* A failed transaction: the destination was running or retrying, so the
\* worker does not panic, and its rows stay active.
LEMMA ResponseErrCore ==
    ASSUME TypeOK, FlightInv, NEW w \in Worker, NEW d \in Dest, NEW i \in DOMAIN futures[d],
           handle_response_err(w, d, i)
    PROVE  FlightInv' /\ (ActiveInv => ActiveInv')
<1> USE ShardAssumption, NoDestAssumption
<1>1. /\ pc[w] = "idle" /\ shard_id[d] = w /\ UNCHANGED <<active, cur, batch, next>>
      /\ futures' = [futures EXCEPT ![d] = Without(@, i)]
  BY Zenon DEF handle_response_err, db
<1>2. cur[w] = NoDest /\ statuses[d] \in {"running", "retrying"}
  <2>1. cur[w] = NoDest
    BY Zenon, <1>1, NotComposing
  <2>2. statuses[d] \in {"running", "retrying"}
    BY Zenon, Answered
  <2> QED
    BY <2>1, <2>2
<1>3. statuses' = [statuses EXCEPT ![d] = "failed"] /\ pc' = [pc EXCEPT ![w] = Loop]
  BY Zenon, <1>2 DEF handle_response_err
<1>4. Len(futures'[d]) = 0 /\ \A e \in Dest : e # d => futures'[e] = futures[e]
  BY ZenonT(30), <1>1, AnswerAlone
<1>5. /\ pc'[w] \in {"idle", "drain"} /\ cur'[w] = NoDest /\ statuses'[d] = "failed"
      /\ \A v \in Worker : v # w => pc'[v] = pc[v]
      /\ \A e \in Dest : e # d => statuses'[e] = statuses[e]
  BY Zenon, <1>1, <1>2, <1>3 DEF TypeOK, Loop
<1>6. DestFlight(d)'
  BY ZenonT(30), <1>1, <1>4, <1>5 DEF DestFlight
<1>8. Len(futures'[d]) # 1 /\ statuses'[d] # "vacant" /\ cur'[w] # d
  <2>1. Len(futures'[d]) # 1
    BY <1>4
  <2>2. statuses'[d] # "vacant" /\ cur'[w] # d
    BY Zenon, <1>5
  <2> QED
    BY Zenon, <2>1, <2>2
<1>7. DestActive(d)'
  BY Zenon, <1>1, <1>8 DEF DestActive
<1> QED
  BY ZenonT(30), <1>1, <1>2, <1>4, <1>5, <1>6, <1>7, WorkerFrame

\* A request: dropped, a retry of the active rows, or the start of a new
\* transaction for an idle destination, which has no active rows.
LEMMA RequestCore ==
    ASSUME TypeOK, FlightInv, NEW w \in Worker, handle_request(w), RouteInv
    PROVE  FlightInv' /\ (ActiveInv => ActiveInv')
<1> USE ShardAssumption, NoDestAssumption
<1>1. pc[w] = "idle" /\ chan[w] # <<>> /\ active' = active
  BY Zenon DEF handle_request, db
<1>2. cur[w] = NoDest
  BY Zenon, <1>1, NotComposing
<1>3. PICK m \in MsgOf(w) : m = Head(chan[w])
  <2>1. chan[w] \in Seq(MsgOf(w))
    BY DEF RouteInv
  <2> QED
    BY <1>1, <2>1
<1>4. PICK d \in Dest : d = m.dest
  BY DEF Msg, MsgOf
<1>5. PICK new \in SUBSET Key : new = NewEvents(m)
  BY Zenon DEF Msg, MsgOf, NewEvents
<1>6. shard_id[d] = w
  BY <1>4 DEF MsgOf
<1>7. DestFlight(d) /\ active[d] \in SUBSET Key /\ statuses[d] \in Status
  BY Zenon DEF FlightInv, TypeOK
<1>8. Loop \in {"idle", "drain"}
  BY DEF Loop
<1>9. CASE /\ pc' = [pc EXCEPT ![w] = Loop]
           /\ UNCHANGED <<statuses, futures, cur, batch, next>>
  <2>1. pc'[w] \in {"idle", "drain"} /\ \A v \in Worker : v # w => pc'[v] = pc[v]
    BY ZenonT(20), <1>8, <1>9 DEF TypeOK
  <2>2. DestFlight(d)'
    BY ZenonT(20), <1>2, <1>6, <1>7, <1>9, <2>1 DEF DestFlight
  <2>3. ActiveInv => DestActive(d)'
    BY ZenonT(20), <1>1, <1>2, <1>6, <1>9, <2>1 DEF DestActive, ActiveInv
  <2> QED
    BY ZenonT(30), <1>1, <1>2, <1>6, <1>9, <2>1, <2>2, <2>3, WorkerFrame
<1>10. CASE /\ statuses[d] = "failed" /\ active[d] = {}
            /\ statuses' = [statuses EXCEPT ![d] = "vacant"] /\ futures' = futures
            /\ pc' = [pc EXCEPT ![w] = Loop] /\ UNCHANGED <<cur, batch, next>>
  <2>1. /\ pc'[w] \in {"idle", "drain"} /\ statuses'[d] = "vacant"
        /\ \A v \in Worker : v # w => pc'[v] = pc[v]
        /\ \A e \in Dest : e # d => statuses'[e] = statuses[e]
    BY Zenon, <1>8, <1>10 DEF TypeOK
  <2>2. Len(futures'[d]) = 0
    BY Zenon, <1>7, <1>10 DEF DestFlight
  <2>3. DestFlight(d)'
    BY Zenon, <1>2, <1>6, <1>10, <2>1, <2>2 DEF DestFlight
  <2>4. DestActive(d)'
    BY Zenon, <1>1, <1>2, <1>6, <1>10, <2>1, <2>2 DEF DestActive
  <2> QED
    BY ZenonT(20), <1>1, <1>2, <1>6, <1>10, <2>1, <2>3, <2>4, WorkerFrame
<1>11. CASE /\ statuses[d] = "failed" /\ active[d] # {}
            /\ statuses' = [statuses EXCEPT ![d] = "retrying"]
            /\ futures' = send_events(d, active[d])
            /\ pc' = [pc EXCEPT ![w] = Loop] /\ UNCHANGED <<cur, batch, next>>
  <2>1. /\ pc'[w] \in {"idle", "drain"} /\ statuses'[d] = "retrying"
        /\ \A v \in Worker : v # w => pc'[v] = pc[v]
        /\ \A e \in Dest : e # d => statuses'[e] = statuses[e]
    BY ZenonT(20), <1>8, <1>11 DEF TypeOK
  <2>2. Len(futures[d]) = 0
    BY ZenonT(20), <1>7, <1>11 DEF DestFlight
  <2>3. /\ Len(futures'[d]) = 1
        /\ futures'[d][1] = [keys |-> active[d], arrived |-> FALSE]
        /\ \A e \in Dest : e # d => futures'[e] = futures[e]
    BY ZenonT(40), <1>7, <1>11, <2>2, SendAlone
  <2>4. futures'[d][1].keys = active[d]
    BY <2>3
  <2>5. DestFlight(d)'
    BY Zenon, <1>2, <1>6, <1>11, <2>1, <2>3 DEF DestFlight
  <2>6. DestActive(d)'
    BY Zenon, <1>1, <1>2, <1>6, <1>11, <2>1, <2>3, <2>4 DEF DestActive
  <2> QED
    BY ZenonT(40), <1>1, <1>2, <1>6, <1>11, <2>1, <2>3, <2>5, <2>6, WorkerFrame
<1>12. CASE /\ statuses[d] = "vacant" /\ statuses' = [statuses EXCEPT ![d] = "running"]
            /\ batch' = [batch EXCEPT ![w] = new] /\ next' = [next EXCEPT ![w] = new]
            /\ pc' = [pc EXCEPT ![w] = "mark"] /\ cur' = [cur EXCEPT ![w] = d]
            /\ UNCHANGED futures
  <2>1. /\ pc'[w] = "mark" /\ cur'[w] = d /\ statuses'[d] = "running"
        /\ batch'[w] = new /\ next'[w] = new
        /\ \A v \in Worker : v # w => /\ pc'[v] = pc[v] /\ cur'[v] = cur[v]
                                      /\ batch'[v] = batch[v] /\ next'[v] = next[v]
        /\ \A e \in Dest : e # d => statuses'[e] = statuses[e]
    BY ZenonT(20), <1>12 DEF TypeOK
  <2>2. Len(futures'[d]) = 0
    BY Zenon, <1>7, <1>12 DEF DestFlight
  <2>3. DestFlight(d)'
    BY ZenonT(20), <1>6, <2>1, <2>2 DEF DestFlight
  <2>4. ActiveInv => active'[d] = {}
    BY Zenon, <1>1, <1>6, <1>12 DEF ActiveInv, DestActive
  <2>5. ActiveInv => DestActive(d)'
    BY Zenon, <1>6, <2>1, <2>2, <2>4 DEF DestActive
  <2> QED
    BY ZenonT(30), <1>1, <1>2, <1>6, <1>12, <2>1, <2>3, <2>5, WorkerFrame
<1> QED
  BY Zenon, <1>3, <1>4, <1>5, <1>7, <1>9, <1>10, <1>11, <1>12
     DEF handle_request, Allowed, StatusAfterRetry

\* A worker that leaves its loop keeps what is in flight for finish_responses.
LEMMA LeaveCore ==
    ASSUME TypeOK, FlightInv, NEW w \in Worker, leave_work_loop(w)
    PROVE  FlightInv' /\ (ActiveInv => ActiveInv')
<1> USE ShardAssumption, NoDestAssumption
<1>1. /\ pc[w] = "idle" /\ UNCHANGED <<active, statuses, futures, cur, batch, next>>
      /\ pc' = [pc EXCEPT ![w] = "drain"]
  BY DEF leave_work_loop, db
<1>2. cur[w] = NoDest
  BY <1>1, NotComposing
<1>3. /\ pc'[w] = "drain" /\ \A v \in Worker : v # w => pc'[v] = pc[v]
      /\ \A d \in Dest : shard_id[d] \in Worker
  BY ZenonT(20), <1>1 DEF TypeOK
<1>4. FlightInv'
  <2>1. ASSUME NEW d \in Dest PROVE DestFlight(d)'
    <3>1. DestFlight(d) /\ shard_id[d] \in Worker
      BY Zenon DEF FlightInv
    <3> QED
      BY Zenon, <1>1, <1>3, <3>1 DEF DestFlight
  <2>2. NoPanic' /\ \A v \in Worker : cur'[v] \in Dest =>
                       pc'[v] \in {"dequeue", "mark"} /\ shard_id[cur'[v]] = v
    BY <1>1, <1>2, <1>3 DEF FlightInv, NoPanic
  <2> QED
    BY ZenonT(20), <2>1, <2>2 DEF FlightInv
<1>5. ActiveInv => ActiveInv'
  BY ZenonT(40), <1>1, <1>2, <1>3 DEF ActiveInv, DestActive
<1> QED
  BY <1>4, <1>5

\* A late answer during shutdown deletes active rows, or leaves them.
LEMMA FinishCore ==
    ASSUME TypeOK, FlightInv, NEW w \in Worker, NEW d \in Dest, NEW i \in DOMAIN futures[d],
           finish_response(w, d, i)
    PROVE  FlightInv' /\ (ActiveInv => ActiveInv')
<1> USE ShardAssumption, NoDestAssumption
<1>1. /\ pc[w] = "drain" /\ shard_id[d] = w /\ UNCHANGED <<statuses, pc, cur, batch, next>>
      /\ futures' = [futures EXCEPT ![d] = Without(@, i)]
      /\ active' \in {active, [active EXCEPT ![d] = {}]}
  BY Zenon DEF finish_response, worker
<1>2. cur[w] = NoDest /\ statuses[d] \in {"running", "retrying"}
  BY Zenon, <1>1, NotComposing, Answered
<1>3. Len(futures'[d]) = 0 /\ \A e \in Dest : e # d => futures'[e] = futures[e]
  BY ZenonT(30), <1>1, AnswerAlone
<1>4. \A e \in Dest : e # d => active'[e] = active[e]
  BY Zenon, <1>1 DEF TypeOK
<1>5. DestFlight(d)'
  BY ZenonT(30), <1>1, <1>2, <1>3 DEF DestFlight
<1>7. Len(futures'[d]) # 1
  BY <1>3
<1>8. statuses'[d] # "vacant" /\ cur'[w] # d
  BY Zenon, <1>1, <1>2
<1>6. DestActive(d)'
  BY Zenon, <1>1, <1>7, <1>8 DEF DestActive
<1> QED
  BY Zenon, <1>1, <1>2, <1>3, <1>4, <1>5, <1>6, WorkerFrame

\* The shutdown deadline forgets the transactions of the worker.
LEMMA ReturnCore ==
    ASSUME TypeOK, FlightInv, NEW w \in Worker, finish_responses_return(w)
    PROVE  FlightInv' /\ (ActiveInv => ActiveInv')
<1> USE ShardAssumption, NoDestAssumption
<1>1. /\ pc[w] = "drain" /\ UNCHANGED <<active, statuses, cur, batch, next>>
      /\ pc' = [pc EXCEPT ![w] = "stopped"]
      /\ futures' = [d \in Dest |-> IF shard_id[d] = w THEN <<>> ELSE futures[d]]
  BY Zenon DEF finish_responses_return, db
<1>2. cur[w] = NoDest
  BY ZenonT(30), <1>1, NotComposing
<1>3. /\ pc'[w] = "stopped" /\ \A v \in Worker : v # w => pc'[v] = pc[v]
      /\ \A d \in Dest : shard_id[d] \in Worker
  BY Zenon, <1>1 DEF TypeOK
<1>4. \A d \in Dest : \/ shard_id[d] = w /\ Len(futures'[d]) = 0
                      \/ shard_id[d] # w /\ futures'[d] = futures[d]
  <2>1. Len(<<>>) = 0
    OBVIOUS
  <2> QED
    BY Zenon, <1>1, <2>1
<1>5. FlightInv'
  <2>1. ASSUME NEW d \in Dest PROVE DestFlight(d)'
    <3>1. DestFlight(d) /\ shard_id[d] \in Worker
      BY ZenonT(20) DEF FlightInv
    <3>2. CASE shard_id[d] = w
      BY ZenonT(20), <1>1, <1>2, <1>3, <1>4, <3>1, <3>2 DEF DestFlight
    <3>3. CASE shard_id[d] # w
      BY ZenonT(20), <1>1, <1>3, <1>4, <3>1, <3>3 DEF DestFlight
    <3> QED
      BY <3>2, <3>3
  <2>2. NoPanic' /\ \A v \in Worker : cur'[v] \in Dest =>
                       pc'[v] \in {"dequeue", "mark"} /\ shard_id[cur'[v]] = v
    BY SMTT(20), <1>1, <1>2, <1>3 DEF FlightInv, NoPanic
  <2> QED
    BY Zenon, <2>1, <2>2 DEF FlightInv
<1>6. ASSUME ActiveInv, NEW d \in Dest PROVE DestActive(d)'
  <2>1. DestActive(d) /\ shard_id[d] \in Worker
    BY <1>6 DEF ActiveInv
  <2>2. CASE shard_id[d] = w
    <3>1. Len(futures'[d]) # 1
      BY <1>4, <2>2
    <3>2. pc[w] # "netburst" /\ cur'[w] # d /\ UNCHANGED <<statuses, active>>
      BY ZenonT(20), <1>1, <1>2
    <3> QED
      BY ZenonT(30), <2>1, <2>2, <3>1, <3>2 DEF DestActive
  <2>3. CASE shard_id[d] # w
    BY Zenon, <1>1, <1>3, <1>4, <2>1, <2>3 DEF DestActive
  <2> QED
    BY <2>2, <2>3
<1> QED
  BY <1>5, <1>6 DEF ActiveInv

\* The remote side only marks a transaction as arrived.
LEMMA ReceiveCore ==
    ASSUME TypeOK, FlightInv, NEW d \in Dest, NEW i \in DOMAIN futures[d], RemoteReceives(d, i)
    PROVE  FlightInv' /\ (ActiveInv => ActiveInv')
<1>1. UNCHANGED <<active, statuses, pc, cur, batch, next>>
  BY DEF RemoteReceives, db, worker
<1>2. /\ futures'[d] = [futures[d] EXCEPT ![i] = [futures[d][i] EXCEPT !.arrived = TRUE]]
      /\ \A e \in Dest : e # d => futures'[e] = futures[e]
  BY DEF RemoteReceives, TypeOK
<1>3. futures[d] \in Seq(Txn) /\ futures[d][i] \in Txn
  BY DEF TypeOK
<1>4. /\ Len(futures'[d]) = Len(futures[d])
      /\ \A j \in DOMAIN futures[d] : futures'[d][j].keys = futures[d][j].keys
      /\ \A e \in Dest : e # d => futures'[e] = futures[e]
  <2>2. \A j \in DOMAIN futures[d] : futures'[d][j].keys = futures[d][j].keys
    BY <1>2, <1>3 DEF Txn
  <2>3. Len(futures'[d]) = Len(futures[d])
    BY <1>2, <1>3, Replaced DEF Txn
  <2> QED
    BY <1>2, <2>2, <2>3
<1>5. FlightInv'
  <2>1. ASSUME NEW e \in Dest PROVE DestFlight(e)'
    <3>1. Len(futures'[e]) = Len(futures[e]) /\ DestFlight(e)
      BY ZenonT(20), <1>4 DEF FlightInv
    <3> QED
      BY ZenonT(30), <1>1, <3>1 DEF DestFlight
  <2> QED
    BY Zenon, <1>1, <2>1 DEF FlightInv, NoPanic
<1>6. ASSUME ActiveInv PROVE DestActive(d)'
  <2>1. Len(futures[d]) = 1 => futures'[d][1].keys = futures[d][1].keys
    BY <1>3, <1>4
  <2> QED
    BY ZenonT(20), <1>1, <1>4, <1>6, <2>1 DEF ActiveInv, DestActive
<1>7. ASSUME ActiveInv, NEW e \in Dest, e # d PROVE DestActive(e)'
  BY Zenon, <1>1, <1>4, <1>7 DEF ActiveInv, DestActive
<1> QED
  BY <1>5, <1>6, <1>7 DEF ActiveInv

\* After a restart every worker is before its netburst.
LEMMA RestartCore ==
    ASSUME Restart
    PROVE  FlightInv' /\ ActiveInv'
<1>1. /\ statuses' = [d \in Dest |-> "vacant"] /\ futures' = [d \in Dest |-> <<>>]
      /\ pc' = [w \in Worker |-> "netburst"] /\ cur' = [w \in Worker |-> NoDest]
  BY Zenon DEF Restart
<1>2. Len(<<>>) = 0
  OBVIOUS
<1>3. \A d \in Dest : /\ statuses'[d] = "vacant" /\ Len(futures'[d]) = 0
                      /\ pc'[shard_id[d]] = "netburst" /\ cur'[shard_id[d]] = NoDest
  BY <1>1, <1>2, ShardAssumption
<1>4. NoPanic' /\ \A w \in Worker : cur'[w] \notin Dest
  BY ZenonT(20), <1>1, NoDestAssumption DEF NoPanic
<1>5. \A d \in Dest : DestFlight(d)' /\ DestActive(d)'
  BY <1>3, NoDestAssumption DEF DestFlight, DestActive
<1> QED
  BY Zenon, <1>4, <1>5 DEF FlightInv, ActiveInv

\* dispatch and flush_servers announce an event to the owner of its
\* destination.
LEMMA RouteStep == TypeOK /\ RouteInv /\ [Next]_vars => RouteInv'
<1> SUFFICES ASSUME TypeOK, RouteInv, [Next]_vars PROVE RouteInv'
  BY ZenonT(20)
<1> USE ShardAssumption
<1>1. ASSUME NEW d \in Dest, NEW k \in Key \cup {Flush},
             chan' = [chan EXCEPT ![shard_id[d]] = Append(@, [dest |-> d, key |-> k])]
      PROVE  RouteInv'
  <2>1. [dest |-> d, key |-> k] \in MsgOf(shard_id[d])
    BY Zenon DEF MsgOf, Msg
  <2>2. chan[shard_id[d]] \in Seq(MsgOf(shard_id[d])) /\ shard_id[d] \in Worker
    BY DEF RouteInv
  <2>3. Append(chan[shard_id[d]], [dest |-> d, key |-> k]) \in Seq(MsgOf(shard_id[d]))
    BY <2>1, <2>2
  <2> QED
    BY ZenonT(40), <1>1, <2>2, <2>3 DEF RouteInv, TypeOK, MsgOf
<1>2. ASSUME NEW w \in Worker, handle_request(w) PROVE RouteInv'
  <2>1. chan[w] \in Seq(MsgOf(w)) /\ chan[w] # <<>> /\ chan' = [chan EXCEPT ![w] = Tail(@)]
    BY Zenon, <1>2 DEF RouteInv, handle_request
  <2>2. Tail(chan[w]) \in Seq(MsgOf(w))
    BY <2>1
  <2> QED
    BY Zenon, <2>1, <2>2 DEF RouteInv, TypeOK, MsgOf
<1>3. CASE Restart
  <2>1. \A w \in Worker : chan'[w] = <<>>
    BY Zenon, <1>3 DEF Restart
  <2>2. \A w \in Worker : <<>> \in Seq(MsgOf(w))
    OBVIOUS
  <2> QED
    BY ZenonT(30), <2>1, <2>2 DEF RouteInv, MsgOf
<1>4. CASE UNCHANGED chan
  BY <1>4 DEF RouteInv, MsgOf
<1>5. ASSUME NEW d \in Dest, NEW k \in Key, dispatch(d, k) PROVE RouteInv'
  BY Zenon, <1>1, <1>4, <1>5 DEF dispatch
<1>6. ASSUME NEW d \in Dest, flush_servers(d) PROVE RouteInv'
  BY ZenonT(30), <1>1, <1>6 DEF flush_servers
<1>7. ASSUME NEW w \in Worker, NEW d \in Dest, Response(w, d) PROVE UNCHANGED chan
  BY Zenon, <1>7 DEF Response, handle_response_ok, handle_response_err, finish_response, io
<1>8. ASSUME NEW w \in Worker, WorkerStep(w), ~handle_request(w) PROVE UNCHANGED chan
  BY Zenon, <1>8 DEF WorkerStep, startup_netburst_step, dequeue, mark_as_active, push_future,
              leave_work_loop, finish_responses_return, io
<1>9. ASSUME NEW d \in Dest, cleanup_active(d) \/ cleanup_queued(d) \/ BackoffExpires(d)
      PROVE  UNCHANGED chan
  BY Zenon, <1>9 DEF cleanup_active, cleanup_queued, BackoffExpires, io
<1>10. ASSUME NEW D \in SUBSET Dest, NEW k \in Key, queue_requests(D, k) PROVE UNCHANGED chan
  BY Zenon, <1>10 DEF queue_requests
<1>11. ASSUME NEW d \in Dest, NEW i \in DOMAIN futures[d], RemoteReceives(d, i)
       PROVE  UNCHANGED chan
  BY <1>11 DEF RemoteReceives, io
<1>12. ASSUME interrupt \/ UNCHANGED vars PROVE UNCHANGED chan
  BY Zenon, <1>12 DEF interrupt, vars, io
<1> QED
  BY ZenonT(20), CleanedIsDest, <1>2, <1>3, <1>4, <1>5, <1>6, <1>7, <1>8, <1>9, <1>10, <1>11, <1>12 DEF Next

\* Every step keeps at most one transaction per destination, and keeps the
\* active rows inside it when the netburst is on.
LEMMA CoreStep ==
    ASSUME TypeOK, RouteInv, FlightInv, [Next]_vars
    PROVE  FlightInv' /\ (startup_netburst /\ ActiveInv => ActiveInv')
<1>1. ASSUME NEW w \in Worker, WorkerStep(w)
      PROVE  FlightInv' /\ (startup_netburst /\ ActiveInv => ActiveInv')
  BY Zenon, <1>1, NetburstCore, DequeueCore, MarkCore, PushFutureCore, RequestCore, LeaveCore, ReturnCore
     DEF WorkerStep
<1>2. ASSUME NEW w \in Worker, NEW d \in Dest, Response(w, d)
      PROVE  FlightInv' /\ (ActiveInv => ActiveInv')
  BY Zenon, <1>2, ResponseOkCore, ResponseErrCore, FinishCore DEF Response
<1>3. ASSUME NEW d \in Dest, NEW i \in DOMAIN futures[d], RemoteReceives(d, i)
      PROVE  FlightInv' /\ (ActiveInv => ActiveInv')
  BY <1>3, ReceiveCore
<1>4. CASE Restart
  BY <1>4, RestartCore
<1>5. ASSUME UNCHANGED <<statuses, futures, pc, cur, batch, next>>,
             \A d \in Dest : active'[d] \subseteq active[d]
      PROVE  FlightInv' /\ (ActiveInv => ActiveInv')
  BY ZenonT(20), <1>5, OutsideFrame
<1>6. ASSUME NEW D \in SUBSET Dest, NEW k \in Key, queue_requests(D, k)
      PROVE  FlightInv' /\ (ActiveInv => ActiveInv')
  BY ZenonT(20), <1>5, <1>6 DEF queue_requests, worker
<1>7. ASSUME NEW d \in Dest, NEW k \in Key, dispatch(d, k)
      PROVE  FlightInv' /\ (ActiveInv => ActiveInv')
  BY Zenon, <1>5, <1>7 DEF dispatch, worker, db
<1>8. ASSUME NEW d \in Dest, flush_servers(d) \/ cleanup_queued(d) \/ BackoffExpires(d)
      PROVE  FlightInv' /\ (ActiveInv => ActiveInv')
  BY Zenon, <1>5, <1>8 DEF flush_servers, cleanup_queued, BackoffExpires, worker, db
<1>9. ASSUME NEW d \in Dest, cleanup_active(d)
      PROVE  FlightInv' /\ (ActiveInv => ActiveInv')
  <2>1. active' = [active EXCEPT ![d] = {}] /\ active \in [Dest -> SUBSET Key]
    BY Zenon, <1>9 DEF cleanup_active, TypeOK
  <2>2. \A e \in Dest : active'[e] \subseteq active[e]
    BY ZenonT(20), <2>1
  <2> QED
    BY ZenonT(30), <1>5, <1>9, <2>2 DEF cleanup_active, worker
<1>10. ASSUME interrupt \/ UNCHANGED vars PROVE FlightInv' /\ (ActiveInv => ActiveInv')
  BY Zenon, <1>5, <1>10 DEF interrupt, vars, worker, db
<1> QED
  BY ZenonT(20), CleanedIsDest, <1>1, <1>2, <1>3, <1>4, <1>6, <1>7, <1>8, <1>9, <1>10 DEF Next

\* At the start the channels are empty.
LEMMA InitRoute == Init => RouteInv
BY DEF Init, RouteInv, MsgOf

\* Every message is in the channel of the worker of its destination, and every destination has at
\* most one transaction in flight, always.
LEMMA FlightInvariant == Spec => [](RouteInv /\ FlightInv)
<1>1. Init => RouteInv /\ FlightInv
  BY InitRoute, InitCore
<1>2. TypeOK /\ RouteInv /\ FlightInv /\ [Next]_vars => (RouteInv /\ FlightInv)'
  BY RouteStep, CoreStep
<1> QED
  BY <1>1, <1>2, SendingTypeOK, PTL DEF Spec

\* The panic!("Request that was not even running failed?!") in
\* handle_response_err is unreachable, for every set of destinations, workers
\* and events and every configuration of the netburst.
THEOREM SenderNeverPanics == Spec => []NoPanic
<1>1. FlightInv => NoPanic
  BY Zenon DEF FlightInv
<1> QED
  BY <1>1, FlightInvariant, PTL

\* A destination never has two transactions in flight.
THEOREM OneInFlight == Spec => []OneTransactionPerDest
<1>1. TypeOK /\ FlightInv => OneTransactionPerDest
  <2> SUFFICES ASSUME TypeOK, FlightInv, NEW d \in Dest PROVE Len(futures[d]) <= 1
    BY DEF OneTransactionPerDest
  <2>1. Len(futures[d]) \in {0, 1}
    BY Zenon DEF FlightInv, DestFlight
  <2>2. CASE Len(futures[d]) = 0
    BY <2>2
  <2>3. CASE Len(futures[d]) = 1
    BY <2>3
  <2> QED
    BY <2>1, <2>2, <2>3
<1> QED
  BY <1>1, FlightInvariant, SendingTypeOK, PTL

-----------------------------------------------------------------------------
(* No event is lost.                                                       *)

\* The transaction that an answer is for holds every active row of its
\* destination, so that deleting them all forgets nothing else.
LEMMA AnswerCoversActive ==
    ASSUME TypeOK, FlightInv, ActiveInv, NEW d \in Dest, NEW i \in DOMAIN futures[d]
    PROVE  active[d] \subseteq futures[d][i].keys
<1>1. futures[d] \in Seq(Txn) /\ Len(futures[d]) \in {0, 1}
  BY ZenonT(40) DEF TypeOK, FlightInv, DestFlight
<1>2. i = 1 /\ Len(futures[d]) = 1
  BY Zenon, <1>1, WithoutOnly
<1>3. DestActive(d)
  BY DEF ActiveInv
<1> QED
  BY ZenonT(30), <1>2, <1>3 DEF DestActive

\* A step that only moves rows between the tables and the history variables,
\* or adds some, keeps every event accounted for.
LEMMA AccountFrame ==
    ASSUME EventsAccounted, accepted' = accepted,
           \A d \in Dest : queue[d] \cup active[d] \cup acked[d] \cup dropped[d]
                             \subseteq queue'[d] \cup active'[d] \cup acked'[d] \cup dropped'[d]
    PROVE  EventsAccounted'
BY ZenonT(20) DEF EventsAccounted

\* No step of the sender forgets an accepted event: a row is deleted only when it is acknowledged or
\* dropped.
LEMMA AccountStep ==
    ASSUME TypeOK, FlightInv, ActiveInv, EventsAccounted, [Next]_vars
    PROVE  EventsAccounted'
<1>1. ASSUME UNCHANGED <<queue, active, accepted, acked, dropped>> PROVE EventsAccounted'
  BY Zenon, <1>1 DEF EventsAccounted
<1>2. ASSUME NEW D \in SUBSET Dest, NEW k \in Key, queue_requests(D, k) PROVE EventsAccounted'
  <2>1. /\ queue' = [d \in Dest |-> IF d \in D THEN queue[d] \cup {k} ELSE queue[d]]
        /\ accepted' = [d \in Dest |-> IF d \in D THEN accepted[d] \cup {k} ELSE accepted[d]]
        /\ UNCHANGED <<active, acked, dropped>>
    BY ZenonT(20), <1>2 DEF queue_requests
  <2> QED
    BY ZenonT(20), <2>1 DEF EventsAccounted
<1>3. ASSUME NEW d \in Dest, cleanup_active(d) PROVE EventsAccounted'
  <2>1. /\ active' = [active EXCEPT ![d] = {}]
        /\ dropped' = [dropped EXCEPT ![d] = @ \cup active[d]]
        /\ UNCHANGED <<queue, accepted, acked>>
    BY ZenonT(30), <1>3 DEF cleanup_active, Note
  <2> QED
    BY Zenon, <2>1, AccountFrame DEF TypeOK
<1>4. ASSUME NEW d \in Dest, cleanup_queued(d) PROVE EventsAccounted'
  <2>1. /\ queue' = [queue EXCEPT ![d] = {}]
        /\ dropped' = [dropped EXCEPT ![d] = @ \cup queue[d]]
        /\ UNCHANGED <<active, accepted, acked>>
    BY Zenon, <1>4 DEF cleanup_queued, Note
  <2> QED
    BY Zenon, <2>1, AccountFrame DEF TypeOK
<1>5. ASSUME NEW w \in Worker, startup_netburst_step(w) PROVE EventsAccounted'
  <2>1. /\ \A d \in Dest : active[d] \cup dropped[d] \subseteq active'[d] \cup dropped'[d]
        /\ UNCHANGED <<queue, accepted, acked>>
    BY ZenonT(20), <1>5 DEF startup_netburst_step
  <2> QED
    BY ZenonT(20), <2>1, AccountFrame
<1>6. ASSUME NEW w \in Worker, mark_as_active(w) PROVE EventsAccounted'
  <2>1. cur[w] \in Dest
    BY Zenon, <1>6 DEF mark_as_active, TypeOK
  <2>2. \E k : /\ active' = [active EXCEPT ![cur[w]] = @ \cup {k}]
               /\ queue' = [queue EXCEPT ![cur[w]] = @ \ {k}]
    BY ZenonT(30), <1>6 DEF mark_as_active
  <2>3. UNCHANGED <<accepted, acked, dropped>>
    BY Zenon, <1>6 DEF mark_as_active, history
  <2> QED
    BY SMTT(20), <2>1, <2>2, <2>3, AccountFrame DEF TypeOK
<1>7. ASSUME NEW d \in Dest, NEW i \in DOMAIN futures[d],
             active' = [active EXCEPT ![d] = {}],
             acked' = Note(acked, d, futures[d][i].keys),
             UNCHANGED <<queue, accepted, dropped>>
      PROVE  EventsAccounted'
  <2>1. active[d] \subseteq futures[d][i].keys
    BY Zenon, AnswerCoversActive
  <2> QED
    BY ZenonT(40), <1>7, <2>1, AccountFrame DEF TypeOK, Note
<1>8. ASSUME NEW w \in Worker, NEW d \in Dest, NEW i \in DOMAIN futures[d],
             handle_response_ok(w, d, i)
      PROVE  EventsAccounted'
  BY Zenon, <1>7, <1>8 DEF handle_response_ok
<1>9. ASSUME NEW w \in Worker, NEW d \in Dest, NEW i \in DOMAIN futures[d],
             finish_response(w, d, i)
      PROVE  EventsAccounted'
  BY ZenonT(30), <1>1, <1>7, <1>9 DEF finish_response
<1>10. ASSUME NEW w \in Worker, NEW d \in Dest, NEW i \in DOMAIN futures[d],
              handle_response_err(w, d, i)
       PROVE  EventsAccounted'
  BY Zenon, <1>1, <1>10 DEF handle_response_err, db, history
<1>11. CASE Restart
  <2>1. /\ \A d \in Dest : active[d] \subseteq active'[d]
        /\ UNCHANGED <<queue, accepted, acked, dropped>>
    BY Zenon, <1>11 DEF Restart, history
  <2> QED
    BY Zenon, <2>1, AccountFrame
<1>12. ASSUME NEW w \in Worker, dequeue(w) \/ push_future(w) \/ handle_request(w)
                 \/ leave_work_loop(w) \/ finish_responses_return(w)
       PROVE  EventsAccounted'
  BY ZenonT(30), <1>1, <1>12 DEF dequeue, push_future, handle_request, leave_work_loop,
                     finish_responses_return, db, history
<1>13. ASSUME NEW d \in Dest, flush_servers(d) \/ BackoffExpires(d) PROVE EventsAccounted'
  BY ZenonT(20), <1>1, <1>13 DEF flush_servers, BackoffExpires, db, history
<1>14. ASSUME NEW d \in Dest, NEW k \in Key, dispatch(d, k) PROVE EventsAccounted'
  BY Zenon, <1>1, <1>14 DEF dispatch, db, history
<1>15. ASSUME NEW d \in Dest, NEW i \in DOMAIN futures[d], RemoteReceives(d, i)
       PROVE  EventsAccounted'
  BY <1>1, <1>15 DEF RemoteReceives, db
<1>16. ASSUME interrupt \/ UNCHANGED vars PROVE EventsAccounted'
  BY Zenon, <1>1, <1>16 DEF interrupt, vars, db, history
<1> QED
  BY ZenonT(20), CleanedIsDest, <1>2, <1>3, <1>4, <1>5, <1>6, <1>8, <1>9, <1>10, <1>11, <1>12, <1>13, <1>14, <1>15, <1>16
     DEF Next, WorkerStep, Response

\* With the netburst on, the sender loses no event, however many failures,
\* crashes in mark_as_active and shutdowns there are: an accepted event is in a
\* table, acknowledged, or was dropped by the trim or by cleanup_events.
THEOREM NoEventLost ==
    ASSUME startup_netburst
    PROVE  Spec => []EventsAccounted
<1>1. Init => ActiveInv /\ EventsAccounted
  BY Zenon, InitCore DEF Init, EventsAccounted, Empty
<1>2. TypeOK /\ RouteInv /\ FlightInv /\ ActiveInv /\ EventsAccounted /\ [Next]_vars
         => ActiveInv' /\ EventsAccounted'
  BY CoreStep, AccountStep
<1> QED
  BY <1>1, <1>2, SendingTypeOK, FlightInvariant, PTL DEF Spec

-----------------------------------------------------------------------------
(* Sending implements Delivery.                                           *)

\* Nothing but queue_requests changes what was accepted, and it only adds.
LEMMA AcceptedGrows ==
    ASSUME [Next]_vars
    PROVE  \A d \in Dest : accepted[d] \subseteq accepted'[d]
<1>1. ASSUME NEW D \in SUBSET Dest, NEW k \in Key, queue_requests(D, k)
      PROVE  \A d \in Dest : accepted[d] \subseteq accepted'[d]
  BY Zenon, <1>1 DEF queue_requests
<1>2. ASSUME NEW w \in Worker, WorkerStep(w) PROVE UNCHANGED accepted
  BY Zenon, <1>2 DEF WorkerStep, startup_netburst_step, dequeue, mark_as_active, push_future,
              handle_request, leave_work_loop, finish_responses_return, history
<1>3. ASSUME NEW w \in Worker, NEW d \in Dest, Response(w, d) PROVE UNCHANGED accepted
  BY Zenon, <1>3 DEF Response, handle_response_ok, handle_response_err, finish_response, history
<1>4. ASSUME NEW d \in Dest, NEW k \in Key, dispatch(d, k) PROVE UNCHANGED accepted
  BY Zenon, <1>4 DEF dispatch, history
<1>5. ASSUME NEW d \in Dest, \/ flush_servers(d) \/ cleanup_active(d) \/ cleanup_queued(d)
                             \/ BackoffExpires(d)
      PROVE  UNCHANGED accepted
  BY Zenon, <1>5 DEF flush_servers, cleanup_active, cleanup_queued, BackoffExpires, history
<1>6. ASSUME NEW d \in Dest, NEW i \in DOMAIN futures[d], RemoteReceives(d, i)
      PROVE  UNCHANGED accepted
  BY <1>6 DEF RemoteReceives
<1>7. ASSUME interrupt \/ Restart \/ UNCHANGED vars PROVE UNCHANGED accepted
  BY Zenon, <1>7 DEF interrupt, Restart, vars, history
<1> QED
  BY Zenon, CleanedIsDest, <1>1, <1>2, <1>3, <1>4, <1>5, <1>6, <1>7 DEF Next

\* Where the messages of a channel are when its first one was taken.
LEMMA TailShift ==
    ASSUME NEW S, NEW s \in Seq(S), s # <<>>, NEW i \in DOMAIN Tail(s)
    PROVE  i + 1 \in DOMAIN s /\ Tail(s)[i] = s[i + 1]
<1>1. Len(s) \in Nat /\ Len(s) > 0 /\ DOMAIN s = 1 .. Len(s)
  OBVIOUS
<1>2. Tail(s) \in Seq(S) /\ Len(Tail(s)) = Len(s) - 1
  OBVIOUS
<1>3. DOMAIN Tail(s) = 1 .. Len(s) - 1
  BY <1>1, <1>2
<1> QED
  BY <1>1, <1>3

\* Only accepted events are sent through the channels.
LEMMA KnownMsgsStep ==
    ASSUME TypeOK, KnownRows, KnownMsgs, [Next]_vars
    PROVE  KnownMsgs'
<1> USE ShardAssumption
<1>0. \A d \in Dest : accepted[d] \subseteq accepted'[d]
  BY Zenon, AcceptedGrows
<1>1. ASSUME NEW w \in Worker, NEW i \in DOMAIN chan[w]
      PROVE  chan[w][i].key = Flush \/ chan[w][i].key \in accepted'[chan[w][i].dest]
  <2>1. chan[w] \in Seq(Msg)
    BY Zenon DEF TypeOK
  <2>2. chan[w][i] \in Msg
    BY <2>1
  <2>3. chan[w][i].dest \in Dest
    BY Zenon, <2>2 DEF Msg
  <2> QED
    BY Zenon, <1>0, <2>3 DEF KnownMsgs
<1>13. CASE UNCHANGED chan
  BY Zenon, <1>1, <1>13 DEF KnownMsgs
<1>2. ASSUME NEW d \in Dest, NEW k \in Key \cup {Flush}, k = Flush \/ k \in accepted[d],
             chan' = [chan EXCEPT ![shard_id[d]] = Append(@, [dest |-> d, key |-> k])]
      PROVE  KnownMsgs'
  <2>1. PICK m \in Msg : m = [dest |-> d, key |-> k]
    BY Zenon DEF Msg
  <2>2. m.dest = d /\ m.key = k
    BY Zenon, <2>1
  <2>3. ASSUME NEW w \in Worker, NEW i \in DOMAIN chan'[w]
        PROVE  chan'[w][i].key = Flush \/ chan'[w][i].key \in accepted'[chan'[w][i].dest]
    <3>1. CASE i \in DOMAIN chan[w] /\ chan'[w][i] = chan[w][i]
      BY Zenon, <1>1, <3>1
    <3>2. CASE chan'[w][i] = m
      BY Zenon, <1>0, <1>2, <2>2, <3>2
    <3>3. CASE w = shard_id[d]
      <4>1. chan[w] \in Seq(Msg) /\ chan'[w] = Append(chan[w], m)
        BY Zenon, <1>2, <2>1, <3>3 DEF TypeOK
      <4>2. i \in DOMAIN Append(chan[w], m)
        BY Zenon, <2>3, <4>1
      <4>3. (i \in DOMAIN chan[w] /\ Append(chan[w], m)[i] = chan[w][i]) \/ Append(chan[w], m)[i] = m
        BY SMTT(20), <4>1, <4>2, Appended
      <4> QED
        BY Zenon, <3>1, <3>2, <4>1, <4>3
    <3>4. CASE w # shard_id[d]
      <4>1. chan'[w] = chan[w]
        BY Zenon, <1>2, <3>4 DEF TypeOK
      <4> QED
        BY ZenonT(30), <2>3, <3>1, <4>1
    <3> QED
      BY Zenon, <3>3, <3>4
  <2> QED
    BY Zenon, <2>3 DEF KnownMsgs
<1>3. ASSUME NEW w \in Worker, handle_request(w) PROVE KnownMsgs'
  <2>1. chan[w] \in Seq(Msg) /\ chan[w] # <<>> /\ chan' = [chan EXCEPT ![w] = Tail(@)]
    BY Zenon, <1>3 DEF handle_request, TypeOK
  <2>2. ASSUME NEW v \in Worker, NEW i \in DOMAIN chan'[v]
        PROVE  \E j \in DOMAIN chan[v] : chan'[v][i] = chan[v][j]
    <3>1. CASE v = w
      <4>1. chan'[w] = Tail(chan[w])
        BY Zenon, <2>1 DEF TypeOK
      <4>2. i \in DOMAIN Tail(chan[w])
        BY Zenon, <2>2, <3>1, <4>1
      <4>3. i + 1 \in DOMAIN chan[w] /\ Tail(chan[w])[i] = chan[w][i + 1]
        BY Zenon, <2>1, <4>2, TailShift
      <4> QED
        BY Zenon, <3>1, <4>1, <4>3
    <3>2. CASE v # w
      <4>1. chan'[v] = chan[v]
        BY Zenon, <2>1, <3>2 DEF TypeOK
      <4> QED
        BY Zenon, <2>2, <4>1
    <3> QED
      BY Zenon, <3>1, <3>2
  <2>3. ASSUME NEW v \in Worker, NEW i \in DOMAIN chan'[v]
        PROVE  chan'[v][i].key = Flush \/ chan'[v][i].key \in accepted'[chan'[v][i].dest]
    <3>1. PICK j \in DOMAIN chan[v] : chan'[v][i] = chan[v][j]
      BY Zenon, <2>2
    <3> QED
      BY Zenon, <1>1, <3>1
  <2> QED
    BY Zenon, <2>3 DEF KnownMsgs
<1>4. CASE Restart
  <2>1. \A w \in Worker : chan'[w] = <<>>
    BY Zenon, <1>4 DEF Restart
  <2> QED
    BY SMTT(20), <2>1 DEF KnownMsgs
<1>5. ASSUME NEW d \in Dest, NEW k \in Key, dispatch(d, k) PROVE KnownMsgs'
  <2>1. k \in accepted[d]
    BY Zenon, <1>5 DEF dispatch, KnownRows
  <2> QED
    BY Zenon, <1>2, <1>5, <1>13, <2>1 DEF dispatch
<1>6. ASSUME NEW d \in Dest, flush_servers(d) PROVE KnownMsgs'
  BY Zenon, <1>2, <1>6 DEF flush_servers
<1>7. ASSUME NEW w \in Worker, NEW d \in Dest, Response(w, d) PROVE UNCHANGED chan
  BY Zenon, <1>7 DEF Response, handle_response_ok, handle_response_err, finish_response, io
<1>8. ASSUME NEW w \in Worker, WorkerStep(w), ~handle_request(w) PROVE UNCHANGED chan
  BY ZenonT(30), <1>8 DEF WorkerStep, startup_netburst_step, dequeue, mark_as_active, push_future,
              leave_work_loop, finish_responses_return, io
<1>9. ASSUME NEW d \in Dest, cleanup_active(d) \/ cleanup_queued(d) \/ BackoffExpires(d)
      PROVE  UNCHANGED chan
  BY Zenon, <1>9 DEF cleanup_active, cleanup_queued, BackoffExpires, io
<1>10. ASSUME NEW D \in SUBSET Dest, NEW k \in Key, queue_requests(D, k) PROVE UNCHANGED chan
  BY Zenon, <1>10 DEF queue_requests
<1>11. ASSUME NEW d \in Dest, NEW i \in DOMAIN futures[d], RemoteReceives(d, i)
       PROVE  UNCHANGED chan
  BY <1>11 DEF RemoteReceives, io
<1>12. ASSUME interrupt \/ UNCHANGED vars PROVE UNCHANGED chan
  BY Zenon, <1>12 DEF interrupt, vars, io
<1> QED
  BY Zenon, CleanedIsDest, <1>3, <1>4, <1>5, <1>6, <1>7, <1>8, <1>9, <1>10, <1>11, <1>12, <1>13 DEF Next

\* Only accepted events are in the tables and in the hands of a worker.
LEMMA KnownRowsStep ==
    ASSUME TypeOK, KnownRows, KnownMsgs, [Next]_vars
    PROVE  KnownRows'
<1>0. \A d \in Dest : accepted[d] \subseteq accepted'[d]
  BY Zenon, AcceptedGrows
<1>1. \A w \in Worker : pc[w] \in {"dequeue", "mark"} => cur[w] \in Dest
  BY Zenon DEF TypeOK
<1>2. ASSUME \A d \in Dest : queue'[d] \subseteq accepted'[d] /\ active'[d] \subseteq accepted'[d],
             calls' \subseteq calls, UNCHANGED <<pc, cur, batch, next>>
      PROVE  KnownRows'
  <2>1. \A c \in calls : c[1] \in Dest
    BY Zenon DEF TypeOK
  <2> QED
    BY Zenon, <1>0, <1>1, <1>2, <2>1 DEF KnownRows
<1>3. ASSUME \A d \in Dest : queue'[d] \subseteq queue[d] /\ active'[d] \subseteq active[d]
      PROVE  \A d \in Dest : queue'[d] \subseteq accepted'[d] /\ active'[d] \subseteq accepted'[d]
  BY Zenon, <1>0, <1>3 DEF KnownRows
<1>4. ASSUME \A d \in Dest : queue'[d] \subseteq queue[d] /\ active'[d] \subseteq active[d],
             UNCHANGED calls, NEW w \in Worker, pc'[w] # "mark",
             \A v \in Worker : v # w => /\ pc'[v] = pc[v] /\ cur'[v] = cur[v]
                                        /\ batch'[v] = batch[v] /\ next'[v] = next[v]
      PROVE  KnownRows'
  <2>1. \A c \in calls : c[1] \in Dest
    BY Zenon DEF TypeOK
  <2>2. \A d \in Dest : queue'[d] \subseteq accepted'[d] /\ active'[d] \subseteq accepted'[d]
    BY Zenon, <1>3, <1>4
  <2>3. \A c \in calls' : c[2] \in accepted'[c[1]]
    BY Zenon, <1>0, <1>4, <2>1 DEF KnownRows
  <2>4. ASSUME NEW v \in Worker, pc'[v] = "mark"
        PROVE  batch'[v] \subseteq accepted'[cur'[v]] /\ next'[v] \subseteq accepted'[cur'[v]]
    <3>1. /\ v # w /\ pc[v] = "mark" /\ cur'[v] = cur[v] /\ batch'[v] = batch[v]
          /\ next'[v] = next[v] /\ cur[v] \in Dest
      BY Zenon, <1>1, <1>4, <2>4
    <3> QED
      BY Zenon, <1>0, <3>1 DEF KnownRows
  <2> QED
    BY Zenon, <2>2, <2>3, <2>4 DEF KnownRows
<1>5. ASSUME NEW D \in SUBSET Dest, NEW k \in Key, queue_requests(D, k) PROVE KnownRows'
  <2>1. /\ queue' = [d \in Dest |-> IF d \in D THEN queue[d] \cup {k} ELSE queue[d]]
        /\ accepted' = [d \in Dest |-> IF d \in D THEN accepted[d] \cup {k} ELSE accepted[d]]
        /\ calls' = calls \cup (D \X {k}) /\ UNCHANGED <<active, pc, cur, batch, next>>
    BY Zenon, <1>5 DEF queue_requests, worker
  <2>2. \A d \in Dest : queue'[d] \subseteq accepted'[d] /\ active'[d] \subseteq accepted'[d]
    BY Zenon, <2>1 DEF KnownRows
  <2>3. \A c \in calls' : c[2] \in accepted'[c[1]]
    <3>1. \A c \in calls : c[1] \in Dest /\ c[2] \in accepted[c[1]]
      BY Zenon DEF TypeOK, KnownRows
    <3>2. \A c \in D \X {k} : c[1] \in D /\ c[2] = k
      BY SMTT(30)
    <3> QED
      BY Zenon, <1>0, <2>1, <3>1, <3>2
  <2> QED
    BY Zenon, <1>0, <1>1, <2>1, <2>2, <2>3 DEF KnownRows
<1>6. ASSUME NEW d \in Dest, NEW k \in Key, dispatch(d, k) PROVE KnownRows'
  BY Zenon, <1>2, <1>3, <1>6 DEF dispatch, db, worker
<1>7. ASSUME NEW d \in Dest, flush_servers(d) \/ BackoffExpires(d) PROVE KnownRows'
  BY Zenon, <1>2, <1>3, <1>7 DEF flush_servers, BackoffExpires, db, worker, io
<1>8. ASSUME NEW d \in Dest, cleanup_active(d) \/ cleanup_queued(d) PROVE KnownRows'
  <2>1. \A e \in Dest : queue'[e] \subseteq queue[e] /\ active'[e] \subseteq active[e]
    BY Zenon, <1>8 DEF cleanup_active, cleanup_queued, TypeOK
  <2> QED
    BY Zenon, <1>2, <1>3, <1>8, <2>1 DEF cleanup_active, cleanup_queued, worker, io
<1>9. ASSUME NEW d \in Dest, NEW i \in DOMAIN futures[d], RemoteReceives(d, i) PROVE KnownRows'
  BY <1>2, <1>3, <1>9 DEF RemoteReceives, db, worker, io
<1>10. ASSUME interrupt \/ UNCHANGED vars PROVE KnownRows'
  BY Zenon, <1>2, <1>3, <1>10 DEF interrupt, vars, db, worker, io
<1>11. ASSUME NEW w \in Worker, startup_netburst_step(w) PROVE KnownRows'
  <2>1. \A d \in Dest : queue'[d] \subseteq queue[d] /\ active'[d] \subseteq active[d]
    BY Zenon, <1>11, KeptSubset DEF startup_netburst_step
  <2>2. pc'[w] # "mark" /\ \A v \in Worker : v # w => pc'[v] = pc[v]
    BY ZenonT(30), <1>11 DEF startup_netburst_step, TypeOK, Loop
  <2> QED
    BY ZenonT(30), <1>4, <1>11, <2>1, <2>2 DEF startup_netburst_step, io
<1>12. ASSUME NEW w \in Worker, dequeue(w) PROVE KnownRows'
  <2>1. PICK ks \in SUBSET Key :
           /\ ks = FirstN(queue[cur[w]], DEQUEUE_LIMIT)
           /\ ks \subseteq accepted[cur[w]] /\ cur[w] \in Dest
    BY SMTT(20), <1>12, <1>1, FirstNSubset DEF dequeue, KnownRows, TypeOK
  <2>2. /\ pc'[w] = "mark" => cur'[w] = cur[w] /\ batch'[w] = ks /\ next'[w] = ks
        /\ \A v \in Worker : v # w => /\ pc'[v] = pc[v] /\ cur'[v] = cur[v]
                                      /\ batch'[v] = batch[v] /\ next'[v] = next[v]
    BY ZenonT(40), <1>12, <2>1 DEF dequeue, TypeOK, Loop
  <2>3. UNCHANGED <<queue, active, calls, accepted>>
    BY Zenon, <1>12 DEF dequeue, db, io, history
  <2> QED
    BY ZenonT(40), <2>1, <2>2, <2>3 DEF KnownRows
<1>13. ASSUME NEW w \in Worker, mark_as_active(w) PROVE KnownRows'
  <2>1. cur[w] \in Dest /\ batch[w] \subseteq accepted[cur[w]]
    BY Zenon, <1>1, <1>13 DEF mark_as_active, KnownRows
  <2>2. PICK k \in batch[w] : /\ active' = [active EXCEPT ![cur[w]] = @ \cup {k}]
                              /\ queue' = [queue EXCEPT ![cur[w]] = @ \ {k}]
                              /\ batch' = [batch EXCEPT ![w] = @ \ {k}]
    BY ZenonT(30), <1>13, FirstNSubset DEF mark_as_active
  <2>3. UNCHANGED <<calls, accepted, pc, cur, next>>
    BY Zenon, <1>13 DEF mark_as_active, io, history
  <2>4. \A d \in Dest : queue'[d] \subseteq accepted'[d] /\ active'[d] \subseteq accepted'[d]
    BY ZenonT(40), <2>1, <2>2, <2>3 DEF KnownRows, TypeOK
  <2>5. \A v \in Worker : batch'[v] \subseteq batch[v]
    BY Zenon, <2>2 DEF TypeOK
  <2> QED
    BY ZenonT(30), <2>3, <2>4, <2>5 DEF KnownRows
<1>14. ASSUME NEW w \in Worker, push_future(w) \/ leave_work_loop(w) \/ finish_responses_return(w)
       PROVE  KnownRows'
  <2>1. /\ pc'[w] # "mark"
        /\ \A v \in Worker : v # w => /\ pc'[v] = pc[v] /\ cur'[v] = cur[v]
                                      /\ batch'[v] = batch[v] /\ next'[v] = next[v]
    BY ZenonT(40), <1>14 DEF push_future, leave_work_loop, finish_responses_return, TypeOK, Loop
  <2>2. UNCHANGED <<queue, active, calls>>
    BY Zenon, <1>14 DEF push_future, leave_work_loop, finish_responses_return, db, io
  <2> QED
    BY Zenon, <1>4, <2>1, <2>2
<1>15. ASSUME NEW w \in Worker, NEW d \in Dest, NEW i \in DOMAIN futures[d],
              \/ handle_response_ok(w, d, i) \/ handle_response_err(w, d, i)
       PROVE  KnownRows'
  <2>1. /\ pc'[w] # "mark"
        /\ \A v \in Worker : v # w => /\ pc'[v] = pc[v] /\ cur'[v] = cur[v]
                                      /\ batch'[v] = batch[v] /\ next'[v] = next[v]
    BY ZenonT(40), <1>15 DEF handle_response_ok, handle_response_err, TypeOK, Loop
  <2>2. \A e \in Dest : queue'[e] \subseteq queue[e] /\ active'[e] \subseteq active[e]
    BY Zenon, <1>15 DEF handle_response_ok, handle_response_err, TypeOK, db
  <2>3. UNCHANGED calls
    BY Zenon, <1>15 DEF handle_response_ok, handle_response_err, io
  <2> QED
    BY ZenonT(30), <1>4, <2>1, <2>2, <2>3
<1>16. ASSUME NEW w \in Worker, NEW d \in Dest, NEW i \in DOMAIN futures[d],
              finish_response(w, d, i)
       PROVE  KnownRows'
  <2>1. \A e \in Dest : queue'[e] \subseteq queue[e] /\ active'[e] \subseteq active[e]
    BY Zenon, <1>16 DEF finish_response, TypeOK
  <2> QED
    BY Zenon, <1>2, <1>3, <1>16, <2>1 DEF finish_response, io, worker
<1>17. CASE Restart
  <2>1. \A d \in Dest : \A v \in Worker : pc[v] = "mark" /\ cur[v] = d =>
           FirstN(batch[v], 1) \subseteq accepted[d]
    BY Zenon, FirstNSubset DEF KnownRows
  <2>2. /\ UNCHANGED <<queue, accepted>> /\ calls' = {}
        /\ pc' = [w \in Worker |-> "netburst"]
        /\ \E W \in SUBSET {w \in Worker : pc[w] = "mark"} :
              active' = [d \in Dest |-> active[d] \cup
                            UNION {FirstN(batch[w], 1) : w \in {v \in W : cur[v] = d}}]
    BY Zenon, <1>17 DEF Restart, history
  <2>3. ASSUME NEW d \in Dest, NEW k \in active'[d] PROVE k \in accepted[d]
    <3>1. k \in active[d] \/ \E v \in Worker : pc[v] = "mark" /\ cur[v] = d /\ k \in FirstN(batch[v], 1)
      BY <2>2, <2>3
    <3> QED
      BY Zenon, <2>1, <3>1 DEF KnownRows
  <2> QED
    BY Zenon, <2>2, <2>3 DEF KnownRows
<1>18. ASSUME NEW w \in Worker, handle_request(w) PROVE KnownRows'
  <2>1. UNCHANGED <<queue, active, calls, accepted>>
    BY Zenon, <1>18 DEF handle_request, db, history
  <2>2. chan[w] \in Seq(Msg) /\ chan[w] # <<>>
    BY Zenon, <1>18 DEF handle_request, TypeOK
  <2>3. PICK m \in Msg : m = Head(chan[w]) /\ m = chan[w][1] /\ 1 \in DOMAIN chan[w]
    BY SMTT(20), <2>2
  <2>4. PICK new \in SUBSET Key : new = NewEvents(m) /\ new \subseteq accepted[m.dest]
    <3>1. m.key = Flush \/ m.key \in accepted[m.dest]
      BY Zenon, <2>3 DEF KnownMsgs
    <3>2. m.key \in Key \cup {Flush}
      BY DEF Msg
    <3>3. NewEvents(m) \in SUBSET Key /\ NewEvents(m) \subseteq accepted[m.dest]
      BY Zenon, <3>1, <3>2 DEF NewEvents
    <3> QED
      BY Zenon, <3>3
  <2>5. /\ \A v \in Worker : v # w => /\ pc'[v] = pc[v] /\ cur'[v] = cur[v]
                                      /\ batch'[v] = batch[v] /\ next'[v] = next[v]
        /\ pc'[w] = "mark" => cur'[w] = m.dest /\ batch'[w] = new /\ next'[w] = new
    <3>1. \/ pc' = [pc EXCEPT ![w] = Loop] /\ UNCHANGED <<cur, batch, next>>
          \/ /\ batch' = [batch EXCEPT ![w] = new] /\ next' = [next EXCEPT ![w] = new]
             /\ pc' = [pc EXCEPT ![w] = "mark"] /\ cur' = [cur EXCEPT ![w] = m.dest]
      BY Zenon, <1>18, <2>3, <2>4 DEF handle_request
    <3> QED
      BY ZenonT(40), <3>1 DEF TypeOK, Loop
  <2> QED
    BY ZenonT(40), <2>1, <2>4, <2>5 DEF KnownRows
<1> QED
  BY Zenon, CleanedIsDest, <1>5, <1>6, <1>7, <1>8, <1>9, <1>10, <1>11, <1>12, <1>13, <1>14, <1>15, <1>16, <1>17, <1>18
     DEF Next, WorkerStep, Response

\* Only accepted events are in flight, and those of a transaction that has arrived were received.
LEMMA KnownTxnsStep ==
    ASSUME TypeOK, RouteInv, FlightInv, KnownRows, KnownTxns, [Next]_vars
    PROVE  KnownTxns'
<1> DEFINE Known(d) == Len(futures[d]) = 1 =>
               /\ futures[d][1].keys \subseteq accepted[d]
               /\ futures[d][1].arrived => futures[d][1].keys \subseteq received[d]
<1>0. \A d \in Dest : accepted[d] \subseteq accepted'[d]
  BY Zenon, AcceptedGrows
<1>1. \A d \in Dest : Known(d)
  BY Zenon DEF KnownTxns
<1>2. ASSUME NEW d \in Dest, Len(futures'[d]) = 0 PROVE Known(d)'
  BY <1>2
<1>3. ASSUME NEW d \in Dest, futures'[d] = futures[d], received[d] \subseteq received'[d]
      PROVE  Known(d)'
  BY Zenon, <1>0, <1>1, <1>3
<1>4. ASSUME NEW d \in Dest, NEW ks \in SUBSET accepted[d],
             futures'[d][1] = [keys |-> ks, arrived |-> FALSE]
      PROVE  Known(d)'
  BY <1>0, <1>4
<1> HIDE DEF Known
<1>5. (\A d \in Dest : Known(d)') => KnownTxns'
  BY Zenon DEF KnownTxns, Known
<1>6. ASSUME UNCHANGED <<futures, received>> PROVE KnownTxns'
  BY Zenon, <1>3, <1>5, <1>6
<1>7. ASSUME NEW d \in Dest, NEW ks \in SUBSET Key, ks \subseteq accepted[d],
             Len(futures[d]) = 0, futures' = send_events(d, ks), UNCHANGED received
      PROVE  KnownTxns'
  <2>1. /\ futures'[d][1] = [keys |-> ks, arrived |-> FALSE]
        /\ \A e \in Dest : e # d => futures'[e] = futures[e]
    BY Zenon, <1>7, SendAlone
  <2> QED
    BY Zenon, <1>3, <1>4, <1>5, <1>7, <2>1
<1>8. ASSUME NEW w \in Worker, NEW d \in Dest, Response(w, d) PROVE KnownTxns'
  <2>1. PICK i \in DOMAIN futures[d] : futures' = [futures EXCEPT ![d] = Without(@, i)]
    BY Zenon, <1>8 DEF Response, handle_response_ok, handle_response_err, finish_response
  <2>2. Len(futures'[d]) = 0 /\ \A e \in Dest : e # d => futures'[e] = futures[e]
    BY Zenon, <2>1, AnswerAlone
  <2>3. UNCHANGED received
    BY Zenon, <1>8 DEF Response, handle_response_ok, handle_response_err, finish_response, history
  <2> QED
    BY Zenon, <1>2, <1>3, <1>5, <2>2, <2>3
<1>9. ASSUME NEW w \in Worker, startup_netburst_step(w) PROVE KnownTxns'
  <2>1. ASSUME NEW d \in Dest PROVE Known(d)'
    <3>1. UNCHANGED received
      BY Zenon, <1>9 DEF startup_netburst_step
    <3>2. \/ futures'[d] = futures[d]
          \/ shard_id[d] = w /\ futures'[d] = send_events(d, Kept(d))[d]
      BY ZenonT(30), <1>9 DEF startup_netburst_step
    <3>3. Kept(d) \in SUBSET Key /\ Kept(d) \in SUBSET accepted[d]
      BY Zenon, KeptSubset DEF KnownRows, TypeOK
    <3>4. CASE shard_id[d] = w /\ futures'[d] = send_events(d, Kept(d))[d]
      <4>1. Len(futures[d]) = 0
        BY Zenon, <1>9, <3>4 DEF startup_netburst_step, FlightInv, DestFlight
      <4>2. futures'[d][1] = [keys |-> Kept(d), arrived |-> FALSE]
        BY ZenonT(40), <3>3, <3>4, <4>1, SendAlone
      <4> QED
        BY Zenon, <1>4, <3>3, <4>2
    <3> QED
      BY Zenon, <1>3, <3>1, <3>2, <3>4
  <2> QED
    BY <1>5, <2>1
<1>10. ASSUME NEW w \in Worker, push_future(w) PROVE KnownTxns'
  <2>1. /\ pc[w] = "mark" /\ UNCHANGED received /\ futures' = send_events(cur[w], next[w])
    BY ZenonT(30), <1>10 DEF push_future, history
  <2>2. cur[w] \in Dest /\ Len(futures[cur[w]]) = 0 /\ next[w] \in SUBSET Key
        /\ next[w] \subseteq accepted[cur[w]]
    BY Zenon, <2>1, Composing DEF KnownRows, TypeOK
  <2> QED
    BY Zenon, <1>7, <2>1, <2>2
<1>11. ASSUME NEW w \in Worker, handle_request(w) PROVE KnownTxns'
  <2>1. chan[w] \in Seq(Msg) /\ chan[w] # <<>>
    BY Zenon, <1>11 DEF handle_request, TypeOK
  <2>2. PICK m \in Msg : m = Head(chan[w])
    BY <2>1
  <2>3. PICK d \in Dest : d = m.dest
    BY DEF Msg
  <2>4. /\ UNCHANGED received
        /\ \/ UNCHANGED futures
           \/ statuses[d] = "failed" /\ futures' = send_events(d, active[d])
    BY ZenonT(30), <1>11, <2>2, <2>3 DEF handle_request, history
  <2>5. active[d] \in SUBSET Key /\ active[d] \subseteq accepted[d]
        /\ (statuses[d] = "failed" => Len(futures[d]) = 0)
    BY Zenon DEF TypeOK, KnownRows, FlightInv, DestFlight
  <2> QED
    BY Zenon, <1>6, <1>7, <2>4, <2>5
<1>12. ASSUME NEW w \in Worker, finish_responses_return(w) PROVE KnownTxns'
  <2>1. /\ UNCHANGED received
        /\ futures' = [d \in Dest |-> IF shard_id[d] = w THEN <<>> ELSE futures[d]]
    BY Zenon, <1>12 DEF finish_responses_return, history
  <2>2. Len(<<>>) = 0
    BY SMTT(30)
  <2>3. \A d \in Dest : Len(futures'[d]) = 0 \/ futures'[d] = futures[d]
    BY Zenon, <2>1, <2>2
  <2> QED
    BY Zenon, <1>2, <1>3, <1>5, <2>1, <2>3
<1>13. ASSUME NEW d \in Dest, NEW i \in DOMAIN futures[d], RemoteReceives(d, i) PROVE KnownTxns'
  <2>1. /\ futures'[d] = [futures[d] EXCEPT ![i] = [futures[d][i] EXCEPT !.arrived = TRUE]]
        /\ \A e \in Dest : e # d => futures'[e] = futures[e]
    BY <1>13 DEF RemoteReceives, TypeOK
  <2>2. futures[d] \in Seq(Txn) /\ Len(futures[d]) \in {0, 1} /\ futures[d][i] \in Txn
    BY SMTT(20) DEF TypeOK, FlightInv, DestFlight
  <2>3. i = 1 /\ Len(futures[d]) = 1
    BY Zenon, <2>2, WithoutOnly
  <2>4. futures'[d][1].keys = futures[d][1].keys
    BY <2>1, <2>2, <2>3 DEF Txn
  <2>5. received'[d] = received[d] \cup futures[d][1].keys
        /\ \A e \in Dest : received[e] \subseteq received'[e]
    BY Zenon, <1>13, <2>3 DEF RemoteReceives, Note, TypeOK
  <2>6. Known(d)'
    BY Zenon, <1>0, <1>1, <2>3, <2>4, <2>5 DEF Known
  <2> QED
    BY <1>3, <1>5, <2>1, <2>5, <2>6
<1>14. CASE Restart
  <2>1. UNCHANGED received /\ futures' = [d \in Dest |-> <<>>]
    BY Zenon, <1>14 DEF Restart, history
  <2>2. Len(<<>>) = 0
    BY SMTT(30)
  <2> QED
    BY Zenon, <1>2, <1>5, <2>1, <2>2
<1>15. ASSUME NEW w \in Worker, dequeue(w) \/ mark_as_active(w) \/ leave_work_loop(w)
       PROVE  KnownTxns'
  BY Zenon, <1>6, <1>15 DEF dequeue, mark_as_active, leave_work_loop, history
<1>16. ASSUME NEW d \in Dest, \/ flush_servers(d) \/ cleanup_active(d) \/ cleanup_queued(d)
                              \/ BackoffExpires(d)
       PROVE  KnownTxns'
  BY Zenon, <1>6, <1>16 DEF flush_servers, cleanup_active, cleanup_queued, BackoffExpires, history
<1>17. ASSUME NEW D \in SUBSET Dest, NEW k \in Key, queue_requests(D, k) PROVE KnownTxns'
  BY Zenon, <1>6, <1>17 DEF queue_requests
<1>18. ASSUME NEW d \in Dest, NEW k \in Key, dispatch(d, k) PROVE KnownTxns'
  BY Zenon, <1>6, <1>18 DEF dispatch, history
<1>19. ASSUME interrupt \/ UNCHANGED vars PROVE KnownTxns'
  BY Zenon, <1>6, <1>19 DEF interrupt, vars, history
<1> QED
  BY Zenon, CleanedIsDest, <1>8, <1>9, <1>10, <1>11, <1>12, <1>13, <1>14, <1>15, <1>16, <1>17, <1>18, <1>19
     DEF Next, WorkerStep

\* The steps of the sender, seen as steps on the pending events.
pending == [d \in Dest |-> queue[d] \cup active[d]]

\* Rows that were received, or may be dropped, leave the tables: a step of Delivery.
LEMMA AbstractForget ==
    ASSUME TypeOK', UNCHANGED <<accepted, received>>,
           \A d \in Dest : pending'[d] \subseteq pending[d],
           \A d \in Dest : \/ d \in IF startup_netburst_keep >= 0 THEN Dest ELSE Appservice \cup Push
                           \/ pending[d] \ pending'[d] \subseteq received[d]
    PROVE  Abstract!Next
<1>1. pending' \in [Dest -> SUBSET Key]
  BY ZenonT(40) DEF TypeOK, pending
<1>2. Abstract!Forget
  BY Zenon, <1>1 DEF Abstract!Forget, pending
<1> QED
  BY Zenon, <1>2 DEF Abstract!Next

\* Rows that come back into the tables after a crash are events that Delivery sends again.
LEMMA AbstractRepeat ==
    ASSUME TypeOK', KnownRows', UNCHANGED <<accepted, received>>,
           \A d \in Dest : pending[d] \subseteq pending'[d]
    PROVE  Abstract!Next
<1>1. pending' \in [Dest -> SUBSET Key]
  BY ZenonT(40)DEF TypeOK, pending
<1>2. \A d \in Dest : pending'[d] \subseteq accepted[d]
  BY Zenon DEF KnownRows, pending
<1>3. Abstract!Repeat
  BY Zenon, <1>1, <1>2 DEF Abstract!Repeat, pending
<1> QED
  BY Zenon, <1>3 DEF Abstract!Next

\* An answer only forgets what the other side has received.
LEMMA AnswerReceived ==
    ASSUME TypeOK, FlightInv, ActiveInv, KnownTxns, NEW d \in Dest, NEW i \in DOMAIN futures[d],
           MayReturnOk(d, futures[d][i])
    PROVE  active[d] \subseteq received[d] \/ d \in Appservice \cup Push
<1>1. active[d] \subseteq futures[d][i].keys
  BY Zenon, AnswerCoversActive
<1>2. futures[d] \in Seq(Txn) /\ Len(futures[d]) \in {0, 1}
  BY ZenonT(40) DEF TypeOK, FlightInv, DestFlight
<1>3. i = 1 /\ Len(futures[d]) = 1
  BY Zenon, <1>2, WithoutOnly
<1>4. futures[d][i].arrived => futures[d][i].keys \subseteq received[d]
  BY ZenonT(30), <1>3 DEF KnownTxns
<1> QED
  BY Zenon, <1>1, <1>4 DEF MayReturnOk

\* Every step of the sender is a step of Delivery, or changes nothing there.
LEMMA AbstractStep ==
    ASSUME TypeOK, TypeOK', FlightInv, ActiveInv, KnownRows, KnownRows', KnownTxns, [Next]_vars
    PROVE  [Abstract!Next]_(Abstract!vars)
<1>1. ASSUME UNCHANGED <<queue, active, accepted, received>>
      PROVE  UNCHANGED Abstract!vars
  BY Zenon, <1>1 DEF Abstract!vars
<1>2. ASSUME NEW D \in SUBSET Dest, NEW k \in Key, queue_requests(D, k) PROVE Abstract!Next
  <2>1. Abstract!Accept(D, k)
    BY Zenon, <1>2 DEF queue_requests, Abstract!Accept
  <2> QED
    BY Zenon, <2>1 DEF Abstract!Next
<1>3. ASSUME NEW d \in Dest, cleanup_active(d) \/ cleanup_queued(d) PROVE Abstract!Next
  <2>1. d \in Appservice \cup Push
    BY Zenon, <1>3 DEF cleanup_active, cleanup_queued, TypeOK
  <2>2. UNCHANGED <<accepted, received>>
    BY Zenon, <1>3 DEF cleanup_active, cleanup_queued
  <2>3. /\ pending'[d] \subseteq pending[d]
        /\ \A e \in Dest : e # d => pending'[e] = pending[e]
    BY ZenonT(40), <1>3 DEF cleanup_active, cleanup_queued, pending, TypeOK
  <2> QED
    BY ZenonT(30), <2>1, <2>2, <2>3, AbstractForget
<1>4. ASSUME NEW w \in Worker, startup_netburst_step(w) PROVE Abstract!Next
  <2>1. UNCHANGED <<queue, accepted, received>>
    BY Zenon, <1>4 DEF startup_netburst_step
  <2>2. \A d \in Dest : active'[d] \subseteq active[d]
    BY Zenon, <1>4, KeptSubset DEF startup_netburst_step
  <2>3. ~(startup_netburst_keep >= 0) => \A d \in Dest : active'[d] = active[d]
    BY Zenon, <1>4 DEF startup_netburst_step, Kept
  <2> QED
    BY Zenon, <2>1, <2>2, <2>3, AbstractForget DEF pending
<1>5. ASSUME NEW w \in Worker, mark_as_active(w) PROVE Abstract!Next
  <2>1. cur[w] \in Dest
    BY Zenon, <1>5 DEF mark_as_active, TypeOK
  <2>2. \E k : /\ active' = [active EXCEPT ![cur[w]] = @ \cup {k}]
               /\ queue' = [queue EXCEPT ![cur[w]] = @ \ {k}]
    BY Zenon, <1>5 DEF mark_as_active
  <2>3. UNCHANGED <<accepted, received>>
    BY ZenonT(30), <1>5 DEF mark_as_active, history
  <2>4. ASSUME NEW d \in Dest PROVE queue[d] \cup active[d] \subseteq queue'[d] \cup active'[d]
    BY SMTT(20), <2>1, <2>2 DEF TypeOK
  <2>5. \A d \in Dest : pending[d] \subseteq pending'[d]
    BY Zenon, <2>4 DEF pending
  <2> QED
    BY Zenon, <2>3, <2>5, AbstractRepeat
<1>6. ASSUME NEW d \in Dest, NEW i \in DOMAIN futures[d],
             MayReturnOk(d, futures[d][i]), active' = [active EXCEPT ![d] = {}],
             UNCHANGED <<queue, accepted, received>>
      PROVE  Abstract!Next
  <2>1. active[d] \subseteq received[d] \/ d \in Appservice \cup Push
    BY Zenon, <1>6, AnswerReceived
  <2>2. /\ pending'[d] = queue[d] /\ pending[d] = queue[d] \cup active[d]
        /\ \A e \in Dest : e # d => pending'[e] = pending[e]
    BY ZenonT(40), <1>6 DEF pending, TypeOK
  <2> QED
    BY Zenon, <1>6, <2>1, <2>2, AbstractForget
<1>7. ASSUME NEW w \in Worker, NEW d \in Dest, NEW i \in DOMAIN futures[d],
             handle_response_ok(w, d, i)
      PROVE  Abstract!Next
  BY Zenon, <1>6, <1>7 DEF handle_response_ok
<1>8. ASSUME NEW w \in Worker, NEW d \in Dest, NEW i \in DOMAIN futures[d],
             finish_response(w, d, i)
      PROVE  [Abstract!Next]_(Abstract!vars)
  BY Zenon, <1>1, <1>6, <1>8 DEF finish_response
<1>9. ASSUME NEW w \in Worker, NEW d \in Dest, NEW i \in DOMAIN futures[d],
             handle_response_err(w, d, i)
      PROVE  UNCHANGED Abstract!vars
  BY Zenon, <1>1, <1>9 DEF handle_response_err, db, history
<1>10. ASSUME NEW d \in Dest, NEW i \in DOMAIN futures[d], RemoteReceives(d, i)
       PROVE  Abstract!Next
  <2>0. futures[d] \in Seq(Txn)
    BY Zenon DEF TypeOK
  <2>1. futures[d] \in Seq(Txn) /\ futures[d][i] \in Txn /\ Len(futures[d]) \in {0, 1}
    BY SMTT(20), <2>0 DEF FlightInv, DestFlight
  <2>2. i = 1 /\ Len(futures[d]) = 1
    BY Zenon, <2>1, WithoutOnly
  <2>3. futures[d][i].keys \subseteq accepted[d] /\ futures[d][i].keys \in SUBSET Key
    BY Zenon, <2>1, <2>2 DEF KnownTxns, Txn
  <2>4. Abstract!Receive(d, futures[d][i].keys)
    BY <1>10, <2>3 DEF RemoteReceives, Note, db, Abstract!Receive
  <2> QED
    BY ZenonT(30), <2>3, <2>4 DEF Abstract!Next
<1>11. CASE Restart
  <2>1. \A d \in Dest : pending[d] \subseteq pending'[d]
    BY ZenonT(40), <1>11 DEF Restart, pending
  <2>2. UNCHANGED <<accepted, received>>
    BY Zenon, <1>11 DEF Restart, history
  <2> QED
    BY Zenon, <2>1, <2>2, AbstractRepeat
<1>12. ASSUME NEW w \in Worker, \/ dequeue(w) \/ push_future(w) \/ handle_request(w)
                                \/ leave_work_loop(w) \/ finish_responses_return(w)
       PROVE  UNCHANGED Abstract!vars
  BY ZenonT(30), <1>1, <1>12 DEF dequeue, push_future, handle_request, leave_work_loop,
                     finish_responses_return, db, history
<1>13. ASSUME NEW d \in Dest, flush_servers(d) \/ BackoffExpires(d) PROVE UNCHANGED Abstract!vars
  BY Zenon, <1>1, <1>13 DEF flush_servers, BackoffExpires, db, history
<1>14. ASSUME NEW d \in Dest, NEW k \in Key, dispatch(d, k) PROVE UNCHANGED Abstract!vars
  BY Zenon, <1>1, <1>14 DEF dispatch, db, history
<1>15. ASSUME interrupt \/ UNCHANGED vars PROVE UNCHANGED Abstract!vars
  BY Zenon, <1>1, <1>15 DEF interrupt, vars, db, history
<1> QED
  BY Zenon, CleanedIsDest, <1>2, <1>3, <1>4, <1>5, <1>7, <1>8, <1>9, <1>10, <1>11, <1>12, <1>13, <1>14, <1>15
     DEF Next, WorkerStep, Response

\* Only accepted events are anywhere in the sender, and the active rows of a destination are those
\* of its transaction.
LEMMA KnownInvariant ==
    ASSUME startup_netburst
    PROVE  Spec => [](ActiveInv /\ KnownRows /\ KnownMsgs /\ KnownTxns)
<1> DEFINE Inv == ActiveInv /\ KnownRows /\ KnownMsgs /\ KnownTxns
<1>1. Init => Inv
  <2>1. Init => ActiveInv
    BY InitCore
  <2>2. Init => KnownRows
    BY Zenon DEF Init, Empty, KnownRows
  <2>5. Init => KnownMsgs
    BY SMTT(20) DEF Init, KnownMsgs
  <2>3. Len(<<>>) = 0
    BY SMTT(30)
  <2>4. Init => KnownTxns
    BY SMTT(20), <2>3 DEF Init, KnownTxns
  <2> QED
    BY <2>1, <2>2, <2>4, <2>5
<1>2. TypeOK /\ RouteInv /\ FlightInv /\ Inv /\ [Next]_vars => Inv'
  BY Zenon, CoreStep, KnownRowsStep, KnownMsgsStep, KnownTxnsStep
<1> QED
  BY <1>1, <1>2, SendingTypeOK, FlightInvariant, PTL DEF Spec

\* The whole invariant of the sending service, in every behaviour with the netburst on: messages
\* go to the worker of their destination, at most one transaction is in flight for each, it covers
\* the active rows that handle_response_ok deletes, only accepted events are sent, and none of
\* those is forgotten.
THEOREM SenderInvariant ==
    ASSUME startup_netburst
    PROVE  Spec => []InductiveInv
BY FlightInvariant, KnownInvariant, NoEventLost, PTL DEF InductiveInv, KnownInv

\* The sending service is an at-least-once channel for every set of
\* destinations and events: an event leaves the tables only after the remote
\* side has received it (or where the trim or a cleanup may drop it), and only
\* accepted events are ever delivered.
THEOREM SenderIsAtLeastOnce ==
    ASSUME startup_netburst
    PROVE  Spec => AtLeastOnce
<1>1. Init => Abstract!Init
  BY Zenon DEF Init, Empty, Abstract!Init
<1>2. /\ TypeOK /\ TypeOK' /\ FlightInv /\ [Next]_vars
      /\ ActiveInv /\ KnownRows /\ KnownMsgs /\ KnownTxns
      /\ (ActiveInv /\ KnownRows /\ KnownMsgs /\ KnownTxns)'
      => [Abstract!Next]_(Abstract!vars)
  BY Zenon, AbstractStep
<1> QED
  BY <1>1, <1>2, SendingTypeOK, FlightInvariant, KnownInvariant, PTL DEF Spec, AtLeastOnce, Abstract!Spec
=============================================================================
