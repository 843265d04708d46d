----------------------------- MODULE MasterProofs ------------------------------
(***************************************************************************)
(* Proofs about Master, for any number of connections, request ids and     *)
(* socket numbers, and any length of the generations.                      *)
(***************************************************************************)
EXTENDS Master, TLAPS

(* Zenon proves every leaf that cites no other prover; SMT is cited where  *)
(* arithmetic, records or function updates take part.                      *)
USE ZenonT(20)

(***************************************************************************)
(* What keeps replies apart: a thread that is serving owns its socket      *)
(* number; it has a Ctx exactly while it is in /generate; a worker uses    *)
(* the Ctx only while the thread is still waiting for it; and done is set  *)
(* by a worker that will not use the Ctx again.                            *)
(***************************************************************************)
OwnsSocket ==
    \A c \in Conns :
        conn[c] \notin {"waiting", "closed"} => fd[c] \in Fds /\ socket[fd[c]] = c

Streaming == {"generating", "locked", "recording", "returned", "refused", "polling"}

CtxWhileStreaming ==
    \A c \in Conns : conn[c] \in Streaming => ctx[c] = "live"

WorkerIsAwaited ==
    \A c \in Conns :
        /\ worker[c] \in {"running", "calling", "emitting", "signalling"} =>
               conn[c] \in {"recording", "returned", "polling"}
        /\ conn[c] \in {"waiting", "reading", "accepted", "generating", "locked"} =>
               worker[c] = "none"

DoneIsLast ==
    \A c \in Conns : done[c] => worker[c] \in {"leaving", "gone"}

(* A token about to be sent is within the request's limit.                 *)
TokenLeft ==
    \A c \in Conns : worker[c] = "emitting" => tokens[c] < MaxTokens

TypeInv == TypeOK /\ TokenLeft

ReplyInv ==
    /\ TypeInv
    /\ OwnsSocket
    /\ CtxWhileStreaming
    /\ WorkerIsAwaited
    /\ DoneIsLast
    /\ RepliesNotMixed

(***************************************************************************)
(* What keeps workers_ in order when every connection has its own id: only *)
(* the connection's own thread is ever recorded under its id, and only     *)
(* once.                                                                   *)
(***************************************************************************)
RecordedOnce ==
    \A c \in Conns :
        /\ workers[id[c]] \in {c, None}
        /\ workers[id[c]] = c => conn[c] \in {"returned", "polling", "closed"}
        /\ worker[c] \notin {"none", "gone"} =>
               workers[id[c]] = c \/ conn[c] = "recording"

TrackInv ==
    IsInjective(id) => RecordedOnce /\ process # "terminate"

-------------------------------------------------------------------------------
LEMMA InitialReplies ==
    ASSUME Init
    PROVE  ReplyInv
<1> USE DEF Init, None
<1>1. TypeOK
  <2>1. 0 \in 0..MaxTokens
    BY BoundsAssumption, SMT
  <2>2. tokens \in [Conns -> 0..MaxTokens]
    BY <2>1
  <2>3. done \in [Conns -> BOOLEAN] /\ stray \in BOOLEAN
    OBVIOUS
  <2>4. /\ workers \in [Ids -> Conns \union {None}]
        /\ handles \in [Ids -> Conns \union {None}]
    BY DEF Vacant
  <2> QED
    BY <2>2, <2>3, <2>4 DEF TypeOK, ConnPlaces, WorkerPlaces
<1>2. OwnsSocket /\ CtxWhileStreaming /\ WorkerIsAwaited /\ DoneIsLast /\ TokenLeft
  BY DEF OwnsSocket, CtxWhileStreaming, WorkerIsAwaited, DoneIsLast, Streaming, TokenLeft
<1> QED
  BY <1>1, <1>2 DEF ReplyInv, TypeInv, RepliesNotMixed

LEMMA InitialTracks ==
    ASSUME Init
    PROVE  TrackInv
<1>1. \A c \in Conns : id[c] \in Ids
  BY NamingAssumption DEF Init
<1>2. \A c \in Conns : workers[id[c]] = None /\ worker[c] = "none" /\ c # None
  BY <1>1, ConnsAssumption DEF Init, Vacant, None
<1> QED
  BY <1>2 DEF Init, TrackInv, RecordedOnce

(***************************************************************************)
(* The type invariant, action by action.                                   *)
(***************************************************************************)
LEMMA TypeStep ==
    ASSUME TypeInv, [Next]_vars
    PROVE  TypeInv'
<1> USE DEF TypeInv, TokenLeft, TypeOK, threads, clients, replies, generation, ConnPlaces, WorkerPlaces, Endings, None
<1>1. CASE UNCHANGED vars
  BY <1>1 DEF vars
<1>2. CASE socrates_init \/ socrates_start \/ JoinThenServe
  BY <1>2, SMT DEF socrates_init, socrates_start, JoinThenServe
<1>3. ASSUME NEW c \in Conns, http_server(c) \/ GoAway(c) \/ StopReading(c) \/ SendRequest(c)
                               \/ TornPlan(c)
      PROVE  TypeInv'
  <2>1. CASE http_server(c)
    BY <2>1, SMT DEF http_server
  <2>2. CASE GoAway(c)
    BY <2>2 DEF GoAway
  <2>3. CASE TornPlan(c)
    BY <2>3 DEF TornPlan
  <2>4. CASE StopReading(c)
    BY <2>4 DEF StopReading
  <2>5. CASE SendRequest(c)
    BY <2>5, SMT DEF SendRequest, Step
  <2> QED
    BY <1>3, <2>1, <2>2, <2>3, <2>4, <2>5
<1>4. ASSUME NEW c \in Conns, process = "up", Serve(c)
      PROVE  TypeInv'
  <2> USE DEF Step
  <2>1. CASE OpenStream(c)
    BY <2>1 DEF OpenStream, Write
  <2>2. CASE LockRuntime(c) \/ Refuse(c)
    BY <2>2, SMT DEF LockRuntime, Refuse
  <2>3. CASE Launch(c)
    BY <2>3 DEF Launch
  <2>4. CASE Record(c)
    <3>1. id[c] \in Ids
      BY NamingAssumption
    <3> QED
      BY <2>4, <3>1, SMT DEF Record
  <2>5. CASE StoreHandle(c)
    <3>1. id[c] \in Ids
      BY NamingAssumption
    <3> QED
      BY <2>5, <3>1 DEF StoreHandle
  <2>6. CASE ReportRefusal(c)
    BY <2>6 DEF ReportRefusal, Write, Close
  <2>7. CASE EndStream(c)
    BY <2>7 DEF EndStream, Close
  <2>8. CASE AnswerFixed(c) \/ socrates_cluster_snapshot_json(c)
             \/ socrates_available_models_json(c)
    BY <2>8, SMT DEF AnswerFixed, socrates_cluster_snapshot_json, socrates_available_models_json
  <2>9. CASE socrates_join_cluster(c)
    BY <2>9, SMT DEF socrates_join_cluster
  <2>10. CASE \E i \in Ids : socrates_cancel_by_id(c, i)
    <3>1. PICK i \in Ids : socrates_cancel_by_id(c, i)
      BY <2>10
    <3>2. handles[i] \in Conns \union {None}
      OBVIOUS
    <3>3. stopped' \subseteq Conns
      BY <3>1, <3>2 DEF socrates_cancel_by_id
    <3>4. handles' \in [Ids -> Conns \union {None}] /\ conn' \in [Conns -> ConnPlaces]
      BY <3>1 DEF socrates_cancel_by_id
    <3> QED
      BY <3>1, <3>3, <3>4 DEF socrates_cancel_by_id
  <2>11. CASE Reply(c)
    BY <2>11 DEF Reply, Write, Close
  <2>12. CASE EndOfRequest(c)
    BY <2>12, SMT DEF EndOfRequest
  <2> QED
    BY <1>4, <2>1, <2>2, <2>3, <2>4, <2>5, <2>6, <2>7, <2>8, <2>9, <2>10, <2>11,
       <2>12 DEF Serve
<1>5. ASSUME NEW c \in Conns, Work(c) \/ CallRemote(c) \/ LoseCall(c)
      PROVE  TypeInv'
  <2> USE DEF WorkerStep
  <2>0. CASE MayEmit(c) \/ CallRemote(c)
    BY <2>0, SMT DEF MayEmit, CallRemote
  <2>1. CASE SendToken(c)
    <3>1. tokens[c] < MaxTokens
      BY <2>1 DEF SendToken
    <3>2. tokens' \in [Conns -> 0..MaxTokens]
      BY <2>1, <3>1, BoundsAssumption, SMT DEF SendToken
    <3>3. stray' \in BOOLEAN /\ process' \in {"up"} \union Endings
      BY <2>1 DEF SendToken, Deliver, Write
    <3> QED
      BY <2>1, <3>2, <3>3 DEF SendToken
  <2>2. CASE SendLast(c) \/ LoseCall(c)
    <3>1. stray' \in BOOLEAN /\ process' \in {"up"} \union Endings
      BY <2>2 DEF SendLast, LoseCall, Deliver, Write
    <3> QED
      BY <2>2, <3>1, SMT DEF SendLast, LoseCall
  <2>3. CASE Signal(c)
    <3>1. stray' \in BOOLEAN
      BY <2>3 DEF Signal
    <3> QED
      BY <2>3, <3>1 DEF Signal
  <2>4. CASE Deregister(c)
    BY <2>4 DEF Deregister
  <2> QED
    BY <1>5, <2>0, <2>1, <2>2, <2>3, <2>4 DEF Work
<1> QED
  BY <1>1, <1>2, <1>3, <1>4, <1>5 DEF Next

-------------------------------------------------------------------------------
(***************************************************************************)
(* The reply invariant.  Only accepting, ending and the worker's events    *)
(* touch what it relates.                                                  *)
(***************************************************************************)
LEMMA ReplyStep ==
    ASSUME ReplyInv, TypeInv', [Next]_vars
    PROVE  ReplyInv'
<1> USE DEF ReplyInv, TypeInv, TypeOK, OwnsSocket, CtxWhileStreaming, WorkerIsAwaited, DoneIsLast,
            RepliesNotMixed, Streaming, threads, clients, replies, generation
<1>1. CASE UNCHANGED vars
  BY <1>1 DEF vars
<1>2. CASE socrates_init \/ socrates_start \/ JoinThenServe
  BY <1>2, SMT DEF socrates_init, socrates_start, JoinThenServe
<1>3. ASSUME NEW c \in Conns, http_server(c) \/ GoAway(c) \/ StopReading(c) \/ SendRequest(c)
                               \/ TornPlan(c)
      PROVE  ReplyInv'
  <2>1. CASE http_server(c)
    <3>1. PICK f \in Fds : /\ socket[f] = None
                           /\ fd' = [fd EXCEPT ![c] = f]
                           /\ socket' = [socket EXCEPT ![f] = c]
      BY <2>1 DEF http_server
    <3>2. conn[c] = "waiting" /\ conn' = [conn EXCEPT ![c] = "reading"]
      BY <2>1 DEF http_server
    <3>3. OwnsSocket'
      BY <3>1, <3>2, ConnsAssumption, SMT DEF None
    <3> QED
      BY <2>1, <3>2, <3>3, SMT DEF http_server
  <2>2. CASE GoAway(c)
    BY <2>2 DEF GoAway
  <2>3. CASE TornPlan(c)
    BY <2>3 DEF TornPlan
  <2>4. CASE StopReading(c)
    BY <2>4 DEF StopReading
  <2>5. CASE SendRequest(c)
    BY <2>5, SMT DEF SendRequest, Step
  <2> QED
    BY <1>3, <2>1, <2>2, <2>3, <2>4, <2>5
<1>4. ASSUME NEW c \in Conns, Serve(c)
      PROVE  ReplyInv'
  <2> USE DEF Step
  <2>1. CASE OpenStream(c)
    BY <2>1, SMT DEF OpenStream, Write
  <2>2. CASE LockRuntime(c) \/ Refuse(c)
    BY <2>2, SMT DEF LockRuntime, Refuse
  <2>3. CASE Launch(c)
    BY <2>3, SMT DEF Launch
  <2>4. CASE Record(c)
    BY <2>4, SMT DEF Record
  <2>5. CASE StoreHandle(c)
    BY <2>5, SMT DEF StoreHandle
  <2>6. CASE ReportRefusal(c)
    <3>1. worker[c] \notin {"running", "calling", "emitting", "signalling"}
      BY <2>6 DEF ReportRefusal
    <3> QED
      BY <2>6, <3>1, SMT DEF ReportRefusal, Close
  <2>7. CASE EndStream(c)
    <3>1. worker[c] \in {"leaving", "gone"}
      BY <2>7 DEF EndStream
    <3> QED
      BY <2>7, <3>1, SMT DEF EndStream, Close
  <2>8. CASE AnswerFixed(c) \/ socrates_cluster_snapshot_json(c)
             \/ socrates_available_models_json(c)
    BY <2>8, SMT DEF AnswerFixed, socrates_cluster_snapshot_json, socrates_available_models_json
  <2>9. CASE socrates_join_cluster(c)
    BY <2>9, SMT DEF socrates_join_cluster
  <2>10. CASE \E i \in Ids : socrates_cancel_by_id(c, i)
    BY <2>10, SMT DEF socrates_cancel_by_id
  <2>11. CASE Reply(c)
    BY <2>11, SMT DEF Reply, Close
  <2>12. CASE EndOfRequest(c)
    BY <2>12, SMT DEF EndOfRequest
  <2> QED
    BY <1>4, <2>1, <2>2, <2>3, <2>4, <2>5, <2>6, <2>7, <2>8, <2>9, <2>10, <2>11,
       <2>12 DEF Serve
<1>5. ASSUME NEW c \in Conns, Work(c) \/ CallRemote(c) \/ LoseCall(c)
      PROVE  ReplyInv'
  <2> USE DEF WorkerStep
  <2>a. worker[c] \in {"running", "calling", "emitting", "signalling"} => ctx[c] = "live" /\ socket[fd[c]] = c
    OBVIOUS
  <2>0. CASE MayEmit(c) \/ CallRemote(c)
    BY <2>0, SMT DEF MayEmit, CallRemote
  <2>1. CASE SendToken(c)
    <3>1. ~stray'
      BY <2>1, <2>a DEF SendToken, Deliver, Reachable
    <3> QED
      BY <2>1, <3>1, SMT DEF SendToken
  <2>2. CASE SendLast(c) \/ LoseCall(c)
    <3>1. ~stray'
      BY <2>2, <2>a DEF SendLast, LoseCall, Deliver, Reachable
    <3> QED
      BY <2>2, <3>1, SMT DEF SendLast, LoseCall
  <2>3. CASE Signal(c)
    <3>1. ~stray'
      BY <2>3, <2>a DEF Signal
    <3> QED
      BY <2>3, <3>1, SMT DEF Signal
  <2>4. CASE Deregister(c)
    BY <2>4, SMT DEF Deregister
  <2> QED
    BY <1>5, <2>0, <2>1, <2>2, <2>3, <2>4 DEF Work
<1> QED
  BY <1>1, <1>2, <1>3, <1>4, <1>5 DEF Next

(* Master's type invariant holds for every value of its constants.         *)
THEOREM MasterTyped == Spec => []TypeOK
<1>1. Init => TypeInv
  BY InitialReplies DEF ReplyInv
<1>2. TypeInv /\ [Next]_vars => TypeInv'
  BY TypeStep
<1>3. TypeInv => TypeOK
  BY DEF TypeInv
<1> QED
  BY <1>1, <1>2, <1>3, PTL DEF Spec

(* However many connections share the socket numbers and however their     *)
(* threads interleave with the workers, no event of a generation goes to a *)
(* deleted Ctx or to another client.                                       *)
THEOREM RepliesStayApart == Spec => []RepliesNotMixed
<1>1. Init => ReplyInv
  BY InitialReplies
<1>2. ReplyInv /\ [Next]_vars => ReplyInv'
  BY TypeStep, ReplyStep DEF ReplyInv
<1>3. ReplyInv => RepliesNotMixed
  BY DEF ReplyInv
<1> QED
  BY <1>1, <1>2, <1>3, PTL DEF Spec

-------------------------------------------------------------------------------
(***************************************************************************)
(* The table of workers.  Only recording and deregistering change it, each *)
(* under the id of its own connection.                                     *)
(***************************************************************************)
LEMMA TrackStep ==
    ASSUME ReplyInv, TrackInv, TypeOK, TypeOK', [Next]_vars
    PROVE  TrackInv'
<1> SUFFICES ASSUME IsInjective(id') PROVE RecordedOnce' /\ process' # "terminate"
  BY DEF TrackInv
<1>a. id' = id /\ (process = "up" \/ process' = process)
  <2> USE DEF threads, clients, replies, generation
  <2> QED
    BY DEF Next, vars, socrates_init, socrates_start, JoinThenServe, http_server, GoAway,
           StopReading, SendRequest, EndOfRequest, TornPlan, Serve, Work, OpenStream, LockRuntime, Refuse, Launch, Record, StoreHandle,
           ReportRefusal, EndStream, AnswerFixed, socrates_cluster_snapshot_json,
           socrates_available_models_json, socrates_join_cluster, socrates_cancel_by_id,
           Reply, MayEmit, SendToken, SendLast, CallRemote, LoseCall, Signal,
           Deregister
<1>b. id \in [Conns -> Ids]
  BY NamingAssumption DEF ReplyInv, TypeInv, TypeOK
<1>c. \A c, d \in Conns : id[c] = id[d] => c = d
  BY <1>a, <1>b DEF IsInjective
<1>d. RecordedOnce /\ process # "terminate"
  BY <1>a DEF TrackInv
<1> USE DEF RecordedOnce, TypeOK, threads, clients, replies, generation
<1>1. CASE UNCHANGED vars
  BY <1>1, <1>d DEF vars
<1>2. CASE socrates_init \/ socrates_start \/ JoinThenServe
  BY <1>2, <1>d DEF socrates_init, socrates_start, JoinThenServe
<1>3. ASSUME NEW c \in Conns, http_server(c) \/ GoAway(c) \/ StopReading(c) \/ SendRequest(c)
                               \/ TornPlan(c)
      PROVE  RecordedOnce' /\ process' # "terminate"
  <2>1. CASE http_server(c) \/ GoAway(c) \/ TornPlan(c)
    BY <2>1, <1>d, SMT DEF http_server, GoAway, TornPlan
  <2>2. CASE StopReading(c) \/ SendRequest(c)
    BY <2>2, <1>d, SMT DEF StopReading, SendRequest, Step
  <2> QED
    BY <1>3, <2>1, <2>2
<1>4. ASSUME NEW c \in Conns, Serve(c)
      PROVE  RecordedOnce' /\ process' # "terminate"
  <2> USE DEF Step
  <2>1. CASE OpenStream(c)
    BY <2>1, <1>d, SMT DEF OpenStream, Write
  <2>2. CASE LockRuntime(c) \/ Refuse(c)
    BY <2>2, <1>d, SMT DEF LockRuntime, Refuse
  <2>3. CASE Launch(c)
    BY <2>3, <1>d DEF Launch
  <2>4. CASE Record(c)
    <3>1. workers[id[c]] = None
      BY <2>4, <1>d DEF Record
    <3>2. workers' = [workers EXCEPT ![id[c]] = c] /\ process' = process
      BY <2>4, <3>1 DEF Record
    <3>3. \A d \in Conns : workers'[id[d]] = IF d = c THEN c ELSE workers[id[d]]
      BY <3>2, <1>b, <1>c
    <3>4. \A d \in Conns : conn'[d] = IF d = c THEN "returned" ELSE conn[d]
      BY <2>4 DEF Record
    <3>5. id' = id /\ worker' = worker
      BY <2>4 DEF Record
    <3>6. RecordedOnce
      BY <1>d
    <3> HIDE DEF TypeOK
    <3>7. RecordedOnce'
      BY <3>3, <3>4, <3>5, <3>6
    <3> QED
      BY <3>2, <3>7, <1>d
  <2>5. CASE StoreHandle(c)
    BY <2>5, <1>d DEF StoreHandle
  <2>6. CASE ReportRefusal(c)
    BY <2>6, <1>d DEF ReportRefusal, Write
  <2>7. CASE EndStream(c)
    BY <2>7, <1>d, SMT DEF EndStream
  <2>8. CASE AnswerFixed(c) \/ socrates_cluster_snapshot_json(c)
             \/ socrates_available_models_json(c)
    BY <2>8, <1>d
       DEF AnswerFixed, socrates_cluster_snapshot_json, socrates_available_models_json
  <2>9. CASE socrates_join_cluster(c)
    BY <2>9, <1>d, SMT DEF socrates_join_cluster
  <2>10. CASE \E i \in Ids : socrates_cancel_by_id(c, i)
    BY <2>10, <1>d, SMT DEF socrates_cancel_by_id
  <2>11. CASE Reply(c)
    BY <2>11, <1>d DEF Reply, Write
  <2>12. CASE EndOfRequest(c)
    BY <2>12, <1>d DEF EndOfRequest
  <2> QED
    BY <1>4, <2>1, <2>2, <2>3, <2>4, <2>5, <2>6, <2>7, <2>8, <2>9, <2>10, <2>11,
       <2>12 DEF Serve
<1>5. ASSUME NEW c \in Conns, Work(c) \/ CallRemote(c) \/ LoseCall(c)
      PROVE  RecordedOnce' /\ process' # "terminate"
  <2> USE DEF WorkerStep
  <2>0. CASE MayEmit(c) \/ CallRemote(c)
    BY <2>0, <1>d, SMT DEF MayEmit, CallRemote
  <2>1. CASE SendToken(c) \/ SendLast(c) \/ LoseCall(c)
    BY <2>1, <1>d, SMT DEF SendToken, SendLast, LoseCall, Deliver, Write
  <2>2. CASE Signal(c)
    BY <2>2, <1>d DEF Signal
  <2>3. CASE Deregister(c)
    <3>1. \A d \in Conns : workers'[id[d]] = IF d = c THEN None ELSE workers[id[d]]
      BY <2>3, <1>b, <1>c DEF Deregister
    <3>2. \A d \in Conns : worker'[d] = IF d = c THEN "gone" ELSE worker[d]
      BY <2>3 DEF Deregister
    <3>3. id' = id /\ conn' = conn /\ process' = process
      BY <2>3 DEF Deregister
    <3>4. None \notin Conns
      BY ConnsAssumption DEF None
    <3>5. RecordedOnce
      BY <1>d
    <3> HIDE DEF TypeOK
    <3>6. RecordedOnce'
      BY <3>1, <3>2, <3>3, <3>4, <3>5, SMT
    <3> QED
      BY <3>3, <3>6, <1>d
  <2> QED
    BY <1>5, <2>0, <2>1, <2>2, <2>3 DEF Work
<1> QED
  BY <1>1, <1>2, <1>3, <1>4, <1>5 DEF Next

LEMMA Tracking == Spec => [](ReplyInv /\ TrackInv)
<1>1. Init => ReplyInv /\ TrackInv
  BY InitialReplies, InitialTracks
<1>2. ReplyInv /\ TrackInv /\ [Next]_vars => (ReplyInv /\ TrackInv)'
  BY TypeStep, ReplyStep, TrackStep DEF ReplyInv, TypeInv
<1> QED
  BY <1>1, <1>2, PTL DEF Spec

(* When every connection has its own request id, launch_worker() and the   *)
(* worker's own clean-up keep workers_ exact, whatever the order in which  *)
(* they come.                                                              *)
THEOREM OwnIdsAreTracked == Spec => []WorkersAreTracked
<1>1. ReplyInv /\ TrackInv => WorkersAreTracked
  BY DEF TrackInv, RecordedOnce, WorkersAreTracked
<1> QED
  BY <1>1, Tracking, PTL

=============================================================================
