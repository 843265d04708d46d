----------------------------- MODULE OrderProofs ------------------------------
(***************************************************************************)
(* Pipeline under the runtime's calls: queued requests start in order.     *)
(***************************************************************************)
EXTENDS StreamProofs

(* Zenon proves every leaf that cites no other prover; SMT is cited where  *)
(* arithmetic, records or function updates take part.                      *)
USE ZenonT(20)

USE DEF InGenerate, Over

-------------------------------------------------------------------------------
(***************************************************************************)
(* The order in which queued requests start.                               *)
(***************************************************************************)
Earlier(p, q) == arrival[p] # 0 /\ arrival[p] < arrival[q]

(* Nobody is ahead of a request that has moved on but those that have      *)
(* moved on as far.                                                        *)
KeepsOrder(p, q) ==
    /\ q \in batch => p \notin queue
    /\ q = current \/ Started(q) => p \notin queue /\ p \notin batch
    /\ Started(q) /\ p = current => Started(p)

Unstarted == {"idle", "admitted", "immediate", "queueing", "announced"}

Begun(r) ==
    /\ call[r] \in Unstarted => ~Started(r)
    /\ worker[r] # "none" /\ listening[r] => Started(r)
    /\ Ended(r) => Started(r) \/ ~active[r]

Handles(r) ==
    /\ handle[r] \in Requests => call[handle[r]] # "idle"
    /\ cancelling[r] # "none" => call[r] = "returned"
    /\ cancelling[r] \in {"removing", "done"} /\ handle[r] \in Requests => ~active[handle[r]]

InOrder == \A p, q \in Requests : Earlier(p, q) => KeepsOrder(p, q)

OrderInv ==
    /\ batch \subseteq Given
    /\ InOrder
    /\ \A r \in Requests : Begun(r)
    /\ \A r \in Requests : Handles(r)

(* A stream only grows.                                                    *)
LEMMA StartedStays ==
    ASSUME NEW q, stream'[q] = stream[q]
    PROVE  (Started(q)' <=> Started(q)) /\ (Ended(q)' <=> Ended(q))
  BY DEF Started, Ended

LEMMA SentStarted ==
    ASSUME Streams, listening \in [Requests -> BOOLEAN],
           NEW r \in Requests, NEW kind, NEW seq, Emit(r, kind, seq)
    PROVE  /\ \A q \in Requests \ {r} : (Started(q)' <=> Started(q)) /\ (Ended(q)' <=> Ended(q))
           /\ (Started(r)' <=> Started(r) \/ (listening[r] /\ kind = "started"))
           /\ (Ended(r)' <=> Ended(r) \/ (listening[r] /\ kind \in Terminal))
<1>1. \A q \in Requests \ {r} : stream'[q] = stream[q]
  BY Sent DEF Sending
<1>2. \A q \in Requests \ {r} : (Started(q)' <=> Started(q)) /\ (Ended(q)' <=> Ended(q))
  BY <1>1, StartedStays
<1>3. CASE ~listening[r]
  <2>1. stream' = stream
    BY <1>3, Sent DEF Sending
  <2> QED
    BY <1>2, <1>3, <2>1, StartedStays
<1>4. CASE listening[r]
  <2> DEFINE e == [kind |-> kind, seq |-> seq]
             n == Len(stream[r])
  <2>1. stream[r] \in Seq(Events) /\ stream'[r] = Append(stream[r], e)
    BY <1>4 DEF Emit, Streams
  <2>2. e.kind = kind
    OBVIOUS
  <2> HIDE DEF e
  <2>3. /\ n \in Nat
        /\ DOMAIN stream[r] = 1..n
        /\ DOMAIN stream'[r] = 1..(n + 1)
        /\ stream'[r][n + 1] = e
        /\ \A i \in 1..n : stream'[r][i] = stream[r][i]
    BY <2>1, SMT
  <2> HIDE DEF n
  <2>4. /\ n + 1 \in 1..(n + 1)
        /\ \A i \in 1..(n + 1) : i = n + 1 \/ i \in 1..n
        /\ \A i \in 1..n : i \in 1..(n + 1)
    BY <2>3, SMT
  <2>5. (Started(r)' <=> Started(r) \/ kind = "started")
    BY <2>2, <2>3, <2>4 DEF Started
  <2>6. (Ended(r)' <=> Ended(r) \/ kind \in Terminal)
    BY <2>2, <2>3, <2>4 DEF Ended
  <2> QED
    BY <1>2, <1>4, <2>5, <2>6
<1> QED
  BY <1>3, <1>4

(* Handles: a step that makes none, and cancels nothing, leaves them.      *)
LEMMA CallsAdvance ==
    ASSUME TypeInv, [RuntimeNext]_vars
    PROVE  /\ \A q \in Requests : call[q] # "idle" => call'[q] # "idle"
           /\ \A q \in Requests : call[q] = "returned" => call'[q] = "returned"
           /\ \A q \in Requests : active'[q] => active[q] \/ call[q] = "idle"
<1>1. call \in [Requests -> CallStates] /\ active \in [Requests -> BOOLEAN]
  BY DEF TypeInv, TypeOK
<1>2. CASE \E r \in Requests : Admit(r)
  <2>1. PICK r \in Requests : /\ call[r] = "idle"
                              /\ call' = [call EXCEPT ![r] = "admitted"]
                              /\ active' = [active EXCEPT ![r] = TRUE]
    BY <1>2 DEF Admit, CallStep
  <2> QED
    BY <1>1, <2>1
<1>3. CASE \E r \in Requests : Generate(r)
  <2>1. PICK r \in Requests : Generate(r)
    BY <1>3
  <2>2. \E to \in CallStates \ {"idle"} : call' = [call EXCEPT ![r] = to]
    BY <2>1 DEF Generate, ReadMode, AnnounceStarted, SpawnNow, RecordNow,
       AnnounceQueued, Push,
                PointAtBack, MakeHandle, CallStep, CallStates
  <2>3. call[r] # "returned" /\ active' = active
    BY <2>1 DEF Generate, ReadMode, AnnounceStarted, SpawnNow, RecordNow,
       AnnounceQueued, Push,
                PointAtBack, MakeHandle, CallStep
  <2> QED
    BY <1>1, <2>2, <2>3
<1>4. CASE \E r \in Requests : Work(r) \/ CallRemote(r) \/ LoseCall(r)
  <2>1. PICK r \in Requests : Work(r) \/ CallRemote(r) \/ LoseCall(r)
    BY <1>4
  <2>2. call' = call /\ (active' = active \/ active' = [active EXCEPT ![r] = FALSE])
    BY <2>1 DEF Work, ComputeToken, EmitToken, SkipToken, PassFails,
       ReportError, CannotLoad,
                LeaveLoop, Judge, EmitCompleted, EmitFailed, Deregister, CallRemote, LoseCall,
                admission
  <2> QED
    BY <1>1, <2>2
<1>5. CASE \E r \in Requests : Cancel(r) \/ ClearActive(r) \/ RemoveQueued(r) \/ StopToken(r)
  <2>1. PICK r \in Requests : Cancel(r) \/ ClearActive(r) \/ RemoveQueued(r) \/ StopToken(r)
    BY <1>5
  <2>2. call' = call /\ (active' = active \/ active' = [active EXCEPT ![handle[r]] = FALSE])
    BY <2>1 DEF Cancel, ClearActive, RemoveQueued, StopToken, admission
  <2> QED
    BY <1>1, <2>2
<1>6. CASE Dispatch \/ \E m \in Modes : Configure(m)
  <2>1. call' = call /\ active' = active
    BY <1>6 DEF Dispatch, TakeFront, GatherBatch, FillBatch, DropInactive,
       PickActive,
                DispatchStarted, DispatchSpawn, DispatchRecord, DispatcherExit, Configure,
                admission
  <2> QED
    BY <2>1
<1>7. CASE Destruct \/ DetachCallbacks \/ GrabWorkers \/ JoinWorkers \/ UNCHANGED vars
  <2>1. call' = call /\ (active' = active \/ active' = [r \in Requests |-> FALSE])
    BY <1>7 DEF Destruct, DetachCallbacks, GrabWorkers, JoinWorkers, vars,
       admission
  <2> QED
    BY <2>1
<1> QED
  BY <1>2, <1>3, <1>4, <1>5, <1>6, <1>7 DEF RuntimeNext

LEMMA HandleKept ==
    ASSUME TypeInv, [RuntimeNext]_vars, NEW r \in Requests, Handles(r),
           cancelling'[r] = cancelling[r],
           handle'[r] \in Requests => handle'[r] = handle[r]
    PROVE  Handles(r)'
  BY CallsAdvance DEF Handles

(* Who changes a handle, or how far its cancel() has come.                 *)
LEMMA HandleSteps ==
    ASSUME TypeInv, [RuntimeNext]_vars
    PROVE  \/ cancelling' = cancelling /\ handle' = handle
           \/ \E r \in Requests : \/ RecordNow(r) \/ PointAtBack(r) \/ MakeHandle(r)
                                  \/ Cancel(r) \/ ClearActive(r) \/ RemoveQueued(r)
<1>1. CASE \E r \in Requests : Admit(r) \/ Generate(r)
  BY <1>1 DEF Admit, Generate, ReadMode, AnnounceStarted, SpawnNow,
     AnnounceQueued, Push
<1>2. CASE \E r \in Requests : Work(r) \/ CallRemote(r) \/ LoseCall(r)
  BY <1>2 DEF Work, ComputeToken, EmitToken, SkipToken, PassFails,
     ReportError, CannotLoad,
              LeaveLoop, Judge, EmitCompleted, EmitFailed, Deregister, CallRemote, LoseCall,
              admission
<1>3. CASE Dispatch \/ \E m \in Modes : Configure(m)
  BY <1>3 DEF Dispatch, TakeFront, GatherBatch, FillBatch, DropInactive,
     PickActive,
              DispatchStarted, DispatchSpawn, DispatchRecord, DispatcherExit, Configure, admission
<1>4. CASE Destruct \/ DetachCallbacks \/ GrabWorkers \/ JoinWorkers \/ UNCHANGED vars
  BY <1>4 DEF Destruct, DetachCallbacks, GrabWorkers, JoinWorkers, vars,
     admission
<1>5. CASE \E r \in Requests : Cancel(r) \/ ClearActive(r) \/ RemoveQueued(r) \/ StopToken(r)
  BY <1>5 DEF StopToken, admission
<1> QED
  BY <1>1, <1>2, <1>3, <1>4, <1>5 DEF RuntimeNext

LEMMA HandlesStep ==
    ASSUME StreamInv, TypeInv, \A r \in Requests : Handles(r), [RuntimeNext]_vars
    PROVE  \A r \in Requests : Handles(r)'
<1>1. /\ handle \in [Requests -> Requests \union {"none", "wild"}]
      /\ cancelling \in [Requests -> {"none", "stopped", "removing", "done"}]
      /\ active \in [Requests -> BOOLEAN] /\ call \in [Requests -> CallStates]
      /\ queue \subseteq Requests
  BY DEF TypeInv, TypeOK
<1>2. CASE cancelling' = cancelling /\ handle' = handle
  BY <1>2, HandleKept
<1>3. ASSUME NEW r \in Requests, RecordNow(r) \/ PointAtBack(r) \/ MakeHandle(r)
      PROVE  \A q \in Requests : Handles(q)'
  <2>1. /\ cancelling' = cancelling /\ call[r] # "returned" /\ call[r] # "idle"
        /\ \A q \in Requests \ {r} : handle'[q] = handle[q]
    BY <1>1, <1>3 DEF RecordNow, PointAtBack, MakeHandle, CallStep
  <2>2. \A q \in Requests \ {r} : Handles(q)'
    BY <2>1, HandleKept
  <2>3. cancelling'[r] = "none"
    BY <1>1, <2>1 DEF Handles
  <2>4. handle'[r] \in Requests => call[handle'[r]] # "idle"
    <3>1. CASE RecordNow(r)
      <4>1. handle'[r] = r
        BY <1>1, <3>1 DEF RecordNow
      <4> QED
        BY <2>1, <4>1
    <3>2. CASE PointAtBack(r)
      <4>1. handle'[r] = IF queue = {} THEN "wild" ELSE Last(queue)
        BY <1>1, <3>2 DEF PointAtBack
      <4>2. queue # {} => Last(queue) \in queue
        <5>1. arrival \in [Requests -> Nat] /\ Arrivals
          BY DEF TypeInv, TypeOK
        <5>2. PICK n \in Nat : n = Cardinality(Given)
          BY <5>1, FS_CardinalityType DEF Arrivals
        <5>3. \A q \in queue : arrival[q] <= n
          BY <5>1, <5>2 DEF Arrivals
        <5> QED
          BY <1>1, <5>1, <5>3, LastIsMember
      <4>3. \A q \in queue : call[q] # "idle"
        BY <1>1 DEF StreamInv, Sound, Apart
      <4> QED
        BY <4>1, <4>2, <4>3, RequestsAssumption
    <3>3. CASE MakeHandle(r)
      <4>1. handle'[r] = handle[r] \/ handle'[r] = "wild"
        BY <1>1, <3>3 DEF MakeHandle
      <4> QED
        BY <4>1, RequestsAssumption DEF Handles
    <3> QED
      BY <1>3, <3>1, <3>2, <3>3
  <2>5. handle'[r] \in Requests => call'[handle'[r]] # "idle"
    BY <2>4, CallsAdvance
  <2>6. Handles(r)'
    BY <2>3, <2>5 DEF Handles
  <2> QED
    BY <2>2, <2>6
<1>4. ASSUME NEW r \in Requests, Cancel(r) \/ ClearActive(r) \/ RemoveQueued(r)
      PROVE  \A q \in Requests : Handles(q)'
  <2>1. /\ \A q \in Requests \ {r} : cancelling'[q] = cancelling[q]
        /\ call' = call
    BY <1>1, <1>4 DEF Cancel, ClearActive, RemoveQueued, admission
  <2>2. \A q \in Requests : handle'[q] \in Requests => handle'[q] = handle[q]
    <3>1. \/ handle' = handle
          \/ handle' = [q \in Requests |-> IF call[q] = "pointed" THEN "wild" ELSE handle[q]]
      BY <1>4 DEF Cancel, ClearActive, RemoveQueued, DisturbPointers, admission
    <3> QED
      BY <3>1, RequestsAssumption
  <2>3. \A q \in Requests \ {r} : Handles(q)'
    BY <2>1, <2>2, HandleKept
  <2>4. call[r] = "returned"
    BY <1>4 DEF Cancel, ClearActive, RemoveQueued, Handles
  <2>5. handle'[r] \in Requests => call'[handle'[r]] # "idle"
    BY <2>1, <2>2 DEF Handles
  <2>6. cancelling'[r] \in {"removing", "done"} /\ handle'[r] \in Requests => ~active'[handle'[r]]
    <3>1. CASE Cancel(r)
      <4>1. cancelling'[r] = "stopped"
        BY <1>1, <3>1 DEF Cancel
      <4> QED
        BY <4>1
    <3>2. CASE ClearActive(r)
      <4>1. handle[r] \in Requests => ~active'[handle[r]]
        BY <1>1, <3>2 DEF ClearActive
      <4> QED
        BY <2>2, <4>1
    <3>3. CASE RemoveQueued(r)
      <4>1. active' = active /\ cancelling[r] = "removing"
        BY <3>3 DEF RemoveQueued
      <4> QED
        BY <2>2, <4>1 DEF Handles
    <3> QED
      BY <1>4, <3>1, <3>2, <3>3
  <2>7. Handles(r)'
    BY <2>1, <2>4, <2>5, <2>6 DEF Handles
  <2> QED
    BY <2>3, <2>7
<1> QED
  BY <1>2, <1>3, <1>4, HandleSteps

(* What has begun stays so.                                                *)
LEMMA BegunKept ==
    ASSUME NEW q \in Requests, Begun(q),
           Started(q) => Started(q)',
           call'[q] \in Unstarted => call[q] \in Unstarted /\ (Started(q)' => Started(q)),
           worker'[q] # "none" /\ listening'[q] =>
               (worker[q] # "none" /\ listening[q]) \/ Started(q)',
           Ended(q)' => Ended(q) \/ Started(q)' \/ ~active'[q],
           active'[q] => active[q]
    PROVE  Begun(q)'
  BY DEF Begun

(* Steps that neither call a callback nor create a worker or a request.    *)
LEMMA BegunAside ==
    ASSUME TypeInv, \A q \in Requests : Begun(q),
           UNCHANGED stream,
           \A q \in Requests : call'[q] \in Unstarted => call[q] \in Unstarted,
           \A q \in Requests : worker'[q] # "none" => worker[q] # "none",
           \A q \in Requests : listening'[q] => listening[q],
           \A q \in Requests : active'[q] => active[q]
    PROVE  \A q \in Requests : Begun(q)'
<1>1. \A q \in Requests : (Started(q)' <=> Started(q)) /\ (Ended(q)' <=> Ended(q))
  BY StartedStays
<1> QED
  BY <1>1, BegunKept

LEMMA BegunAdmit ==
    ASSUME StreamInv, TypeInv, \A q \in Requests : Begun(q), NEW r \in Requests, Admit(r)
    PROVE  \A q \in Requests : Begun(q)'
<1>1. /\ call \in [Requests -> CallStates] /\ active \in [Requests -> BOOLEAN]
      /\ listening \in [Requests -> BOOLEAN]
  BY DEF TypeInv, TypeOK
<1>2. /\ call[r] = "idle" /\ call' = [call EXCEPT ![r] = "admitted"]
      /\ active' = [active EXCEPT ![r] = TRUE]
      /\ listening' = [listening EXCEPT ![r] = TRUE]
      /\ UNCHANGED <<worker, stream>>
  BY DEF Admit, CallStep, working
<1>3. \A q \in Requests : (Started(q)' <=> Started(q)) /\ (Ended(q)' <=> Ended(q))
  BY <1>2, StartedStays
<1>4. \A q \in Requests \ {r} : /\ call'[q] = call[q] /\ active'[q] = active[q]
                                /\ listening'[q] = listening[q]
  BY <1>1, <1>2
<1>5. \A q \in Requests \ {r} : Begun(q)'
  BY <1>2, <1>3, <1>4, BegunKept
<1>6. worker[r] = "none" /\ ~Ended(r) /\ ~Started(r)
  BY <1>2 DEF StreamInv, Sound, Apart, Accounted, Begun, Unstarted
<1>7. Begun(r)'
  BY <1>2, <1>3, <1>6 DEF Begun
<1> QED
  BY <1>5, <1>7

(* generate() calls the callback.                                          *)
LEMMA BegunAnnounce ==
    ASSUME StreamInv, TypeInv, \A q \in Requests : Begun(q), NEW r \in Requests,
           AnnounceStarted(r) \/ AnnounceQueued(r)
    PROVE  \A q \in Requests : Begun(q)'
<1>1. Streams /\ call \in [Requests -> CallStates] /\ listening \in [Requests -> BOOLEAN]
  BY DEF StreamInv, TypeInv, TypeOK
<1>2. /\ \/ call' = [call EXCEPT ![r] = "starting"] /\ Emit(r, "started", 0)
         \/ call' = [call EXCEPT ![r] = "announced"] /\ Emit(r, "queued", 0)
      /\ call[r] \in {"immediate", "queueing"}
      /\ UNCHANGED <<worker, listening, active>>
  BY DEF AnnounceStarted, AnnounceQueued, CallStep, working, ending
<1>3. /\ \A q \in Requests \ {r} : (Started(q)' <=> Started(q)) /\ (Ended(q)' <=> Ended(q))
      /\ (Ended(r)' <=> Ended(r)) /\ (Started(r) => Started(r)')
      /\ call'[r] = "starting" \/ (call'[r] = "announced" /\ (Started(r)' <=> Started(r)))
  <2>1. CASE call' = [call EXCEPT ![r] = "starting"] /\ Emit(r, "started", 0)
    BY <1>1, <2>1, SentStarted, SMT DEF Terminal
  <2>2. CASE call' = [call EXCEPT ![r] = "announced"] /\ Emit(r, "queued", 0)
    BY <1>1, <2>2, SentStarted, SMT DEF Terminal
  <2> QED
    BY <1>2, <2>1, <2>2
<1>4. \A q \in Requests \ {r} : call'[q] = call[q]
  BY <1>1, <1>2
<1>5. \A q \in Requests \ {r} : Begun(q)'
  BY <1>2, <1>3, <1>4, BegunKept
<1>6. Begun(r)'
  BY <1>2, <1>3, BegunKept DEF Unstarted
<1> QED
  BY <1>5, <1>6

(* The dispatcher announces the request it is about to start.              *)
LEMMA BegunDispatch ==
    ASSUME StreamInv, TypeInv, \A q \in Requests : Begun(q), DispatchStarted
    PROVE  \A q \in Requests : Begun(q)'
<1>1. Streams /\ HandsOf /\ listening \in [Requests -> BOOLEAN]
  BY DEF StreamInv, TypeInv, TypeOK
<1>2. current \in Requests
  BY <1>1 DEF DispatchStarted, HandsOf, TypeInv, TypeOK
<1>3. Emit(current, "started", 0) /\ UNCHANGED <<call, worker, listening, active>>
  BY DEF DispatchStarted, admission, working, ending
<1>4. /\ \A q \in Requests \ {current} : (Started(q)' <=> Started(q))
      /\ \A q \in Requests : (Ended(q)' <=> Ended(q)) /\ (Started(q) => Started(q)')
  <2>1. "started" \notin Terminal
    BY DEF Terminal
  <2> QED
    BY <1>1, <1>2, <1>3, <2>1, SentStarted
<1>5. call[current] \notin Unstarted
  BY <1>2 DEF StreamInv, Sound, Apart, Unstarted
<1> QED
  BY <1>3, <1>4, <1>5, BegunKept

(* A worker is created for a request that was announced as started.        *)
LEMMA KindStarted ==
    ASSUME TypeInv, NEW r \in Requests, Kind(r) = "started"
    PROVE  Started(r)
<1>1. stream[r] \in Seq(Events) /\ stream[r] # <<>>
  BY DEF TypeInv, TypeOK, Kind, Promise!LastKind
<1>2. stream[r][Len(stream[r])].kind = "started"
  BY <1>1 DEF Kind, Promise!LastKind
<1>3. Len(stream[r]) \in DOMAIN stream[r]
  BY <1>1, SMT
<1> QED
  BY <1>2, <1>3 DEF Started

LEMMA BegunSpawn ==
    ASSUME StreamInv, PhaseInv, TypeInv, \A q \in Requests : Begun(q),
           DispatchSpawn \/ \E r \in Requests : SpawnNow(r)
    PROVE  \A q \in Requests : Begun(q)'
<1>1. /\ HandsOf /\ worker \in [Requests -> WorkerStates]
      /\ call \in [Requests -> CallStates]
  BY DEF TypeInv, TypeOK
<1>2. PICK r \in Requests : /\ worker' = [worker EXCEPT ![r] = "looping"]
                            /\ \A q \in Requests : call'[q] \in Unstarted => call[q] \in Unstarted
                            /\ listening[r] => Kind(r) = "started"
                            /\ UNCHANGED <<listening, active, stream>>
  <2>1. CASE DispatchSpawn
    <3>1. current \in Requests
      BY <1>1, <2>1 DEF DispatchSpawn, HandsOf, TypeInv, TypeOK
    <3>2. listening[current] => Kind(current) = "started"
      BY <2>1, <3>1 DEF DispatchSpawn, PhaseInv, Phase, Announced
    <3> QED
      BY <2>1, <3>1, <3>2 DEF DispatchSpawn, admission, ending
  <2>2. ASSUME NEW r \in Requests, SpawnNow(r)
        PROVE  /\ worker' = [worker EXCEPT ![r] = "looping"]
               /\ \A q \in Requests : call'[q] \in Unstarted => call[q] \in Unstarted
               /\ listening[r] => Kind(r) = "started"
               /\ UNCHANGED <<listening, active, stream>>
    <3>1. /\ call[r] = "starting" /\ call' = [call EXCEPT ![r] = "spawned"]
          /\ worker' = [worker EXCEPT ![r] = "looping"]
          /\ UNCHANGED <<listening, active, stream>>
      BY <2>2 DEF SpawnNow, CallStep, ending
    <3>2. listening[r] => Kind(r) = "started"
      BY <3>1 DEF PhaseInv, Phase, Announced
    <3>3. \A q \in Requests : call'[q] \in Unstarted => call[q] \in Unstarted
      BY <1>1, <3>1 DEF Unstarted
    <3> QED
      BY <3>1, <3>2, <3>3
  <2> QED
    BY <2>1, <2>2
<1>3. \A q \in Requests : (Started(q)' <=> Started(q)) /\ (Ended(q)' <=> Ended(q))
  BY <1>2, StartedStays
<1>4. listening[r] => Started(r)
  BY <1>2, KindStarted
<1>5. \A q \in Requests \ {r} : worker'[q] = worker[q]
  BY <1>1, <1>2
<1> QED
  BY <1>2, <1>3, <1>4, <1>5, BegunKept

(* A worker sends a token or a terminal event.                             *)
LEMMA BegunSend ==
    ASSUME StreamInv, TypeInv, \A q \in Requests : Begun(q), NEW r \in Requests,
           EmitToken(r) \/ ReportError(r) \/ EmitCompleted(r) \/ EmitFailed(r)
    PROVE  \A q \in Requests : Begun(q)'
<1>1. /\ Streams /\ listening \in [Requests -> BOOLEAN] /\ active \in [Requests -> BOOLEAN]
      /\ worker \in [Requests -> WorkerStates]
  BY DEF StreamInv, TypeInv, TypeOK
<1>2. PICK kind \in {"token"} \union Terminal : \E seq : Emit(r, kind, seq)
  BY DEF EmitToken, ReportError, EmitCompleted, EmitFailed, Terminal
<1>3. /\ worker[r] # "none" /\ \A q \in Requests \ {r} : worker'[q] = worker[q]
      /\ UNCHANGED <<call, listening>>
      /\ \A q \in Requests : active'[q] => active[q]
  BY <1>1 DEF EmitToken, ReportError, EmitCompleted, EmitFailed, WorkerStep,
     admission, ending
<1>4. "started" \notin {"token"} \union Terminal
  BY DEF Terminal
<1>5. /\ \A q \in Requests : (Started(q)' <=> Started(q))
      /\ \A q \in Requests \ {r} : (Ended(q)' <=> Ended(q))
      /\ Ended(r)' => Ended(r) \/ listening[r]
  BY <1>1, <1>2, <1>4, SentStarted
<1>6. Ended(r)' => Ended(r) \/ Started(r)
  BY <1>3, <1>5 DEF Begun
<1> QED
  BY <1>3, <1>5, <1>6, BegunKept

(* remove_queued() tells a request that cancel() has already deactivated.  *)
LEMMA BegunRemove ==
    ASSUME StreamInv, TypeInv, \A q \in Requests : Begun(q) /\ Handles(q),
           NEW r \in Requests, RemoveQueued(r), handle[r] \in queue
    PROVE  \A q \in Requests : Begun(q)'
<1>1. Streams /\ listening \in [Requests -> BOOLEAN]
  BY DEF StreamInv, TypeInv, TypeOK
<1>2. PICK h \in Requests : h = handle[r]
  BY DEF TypeInv, TypeOK
<1>3. /\ Emit(h, "failed", 0) /\ UNCHANGED <<call, worker, listening, active>>
      /\ cancelling[r] = "removing"
  BY <1>2 DEF RemoveQueued, working, ending
<1>4. ~active[h]
  BY <1>2, <1>3 DEF Handles
<1>5. /\ \A q \in Requests : (Started(q)' <=> Started(q))
      /\ \A q \in Requests \ {h} : (Ended(q)' <=> Ended(q))
  <2>1. /\ \A q \in Requests \ {h} : (Started(q)' <=> Started(q)) /\ (Ended(q)' <=> Ended(q))
        /\ (Started(h)' <=> Started(h) \/ (listening[h] /\ "failed" = "started"))
    BY <1>1, <1>3, SentStarted
  <2> QED
    BY <2>1
<1> QED
  BY <1>3, <1>4, <1>5, BegunKept

LEMMA BegunStep ==
    ASSUME StreamInv, PhaseInv, TypeInv, \A q \in Requests : Begun(q) /\ Handles(q),
           [RuntimeNext]_vars
    PROVE  \A q \in Requests : Begun(q)'
<1>1. /\ call \in [Requests -> CallStates] /\ active \in [Requests -> BOOLEAN]
      /\ listening \in [Requests -> BOOLEAN] /\ worker \in [Requests -> WorkerStates]
  BY DEF TypeInv, TypeOK
<1>2. CASE \E r \in Requests : Admit(r)
  BY <1>2, BegunAdmit
<1>3. CASE \E r \in Requests : Generate(r)
  <2>1. PICK r \in Requests : Generate(r)
    BY <1>3
  <2>2. CASE \/ ReadMode(r) \/ RecordNow(r) \/ Push(r) \/ PointAtBack(r) \/ MakeHandle(r)
    <3>1. /\ UNCHANGED <<worker, listening, active, stream>>
          /\ \E from, to \in CallStates : /\ CallStep(r, from, to)
                                          /\ to \in Unstarted => from \in Unstarted
      BY <2>2 DEF ReadMode, RecordNow, Push, PointAtBack, MakeHandle,
         CallStates, Unstarted,
                  working, ending
    <3>2. \A q \in Requests : call'[q] \in Unstarted => call[q] \in Unstarted
      BY <1>1, <3>1 DEF CallStep
    <3> QED
      BY <3>1, <3>2, BegunAside
  <2>3. CASE AnnounceStarted(r) \/ AnnounceQueued(r)
    BY <2>3, BegunAnnounce
  <2>4. CASE SpawnNow(r)
    BY <2>4, BegunSpawn
  <2> QED
    BY <2>1, <2>2, <2>3, <2>4 DEF Generate
<1>4. CASE \E r \in Requests : Work(r) \/ CallRemote(r) \/ LoseCall(r)
  <2>1. PICK r \in Requests : Work(r) \/ CallRemote(r) \/ LoseCall(r)
    BY <1>4
  <2>2. CASE EmitToken(r) \/ ReportError(r) \/ EmitCompleted(r) \/ EmitFailed(r)
    BY <2>2, BegunSend
  <2>3. CASE \/ ComputeToken(r) \/ SkipToken(r) \/ PassFails(r) \/ CannotLoad(r) \/ LeaveLoop(r)
             \/ Judge(r) \/ Deregister(r) \/ CallRemote(r) \/ LoseCall(r)
    <3>1. /\ UNCHANGED <<call, listening, active, stream>>
          /\ worker[r] # "none" /\ \E to : worker' = [worker EXCEPT ![r] = to]
      BY <2>3 DEF ComputeToken, SkipToken, PassFails, CannotLoad, LeaveLoop,
         Judge, Deregister,
                  CallRemote, LoseCall, WorkerStep, admission, ending
    <3>2. \A q \in Requests : worker'[q] # "none" => worker[q] # "none"
      BY <1>1, <3>1
    <3> QED
      BY <3>1, <3>2, BegunAside
  <2> QED
    BY <2>1, <2>2, <2>3 DEF Work
<1>5. CASE \E r \in Requests : Cancel(r) \/ ClearActive(r) \/ RemoveQueued(r) \/ StopToken(r)
  <2>1. PICK r \in Requests : Cancel(r) \/ ClearActive(r) \/ RemoveQueued(r) \/ StopToken(r)
    BY <1>5
  <2>2. CASE RemoveQueued(r) /\ handle[r] \in queue
    BY <2>2, BegunRemove
  <2>3. CASE ~(RemoveQueued(r) /\ handle[r] \in queue)
    <3>1. /\ UNCHANGED <<call, worker, listening, stream>>
          /\ active' = active \/ active' = [active EXCEPT ![handle[r]] = FALSE]
      BY <2>1, <2>3 DEF Cancel, ClearActive, RemoveQueued, StopToken,
         admission, working, ending
    <3>2. \A q \in Requests : active'[q] => active[q]
      BY <1>1, <3>1
    <3> QED
      BY <3>1, <3>2, BegunAside
  <2> QED
    BY <2>2, <2>3
<1>6. CASE Dispatch
  <2>1. CASE DispatchStarted
    BY <2>1, BegunDispatch
  <2>2. CASE DispatchSpawn
    BY <2>2, BegunSpawn
  <2>3. CASE \/ TakeFront \/ GatherBatch \/ FillBatch \/ DropInactive \/ PickActive
             \/ DispatchRecord \/ DispatcherExit
    <3>1. UNCHANGED <<call, worker, listening, active, stream>>
      BY <2>3 DEF TakeFront, GatherBatch, FillBatch, DropInactive, PickActive,
         DispatchRecord,
                  DispatcherExit, admission, working, ending
    <3> QED
      BY <3>1, BegunAside
  <2> QED
    BY <1>6, <2>1, <2>2, <2>3 DEF Dispatch
<1>7. CASE \/ \E m \in Modes : Configure(m)
           \/ Destruct \/ DetachCallbacks \/ GrabWorkers \/ JoinWorkers \/ UNCHANGED vars
  <2>1. /\ UNCHANGED <<call, worker, stream>>
        /\ active' = active \/ active' = [r \in Requests |-> FALSE]
        /\ listening' = listening \/ listening' = [r \in Requests |-> FALSE]
    BY <1>7 DEF Configure, Destruct, DetachCallbacks, GrabWorkers,
       JoinWorkers, vars, admission,
                working, ending
  <2>2. /\ \A q \in Requests : active'[q] => active[q]
        /\ \A q \in Requests : listening'[q] => listening[q]
    BY <2>1
  <2> QED
    BY <2>1, <2>2, BegunAside
<1> QED
  BY <1>2, <1>3, <1>4, <1>5, <1>6, <1>7 DEF RuntimeNext

-------------------------------------------------------------------------------
(* The order of the requests that have been queued.                        *)
LEMMA OrderAside ==
    ASSUME TypeInv, InOrder, batch \subseteq Given,
           UNCHANGED arrival,
           \A q \in Given : (Started(q)' <=> Started(q)),
           queue' \subseteq queue, batch' \subseteq batch,
           current' = current \/ current' = "none"
    PROVE  InOrder' /\ batch' \subseteq Given'
<1>1. arrival \in [Requests -> Nat]
  BY DEF TypeInv, TypeOK
<1>2. ASSUME NEW p \in Requests, NEW q \in Requests, Earlier(p, q)'
      PROVE  KeepsOrder(p, q)'
  <2>1. Earlier(p, q) /\ p \in Given /\ q \in Given
    BY <1>1, <1>2, SMT DEF Earlier, Given
  <2>2. KeepsOrder(p, q)
    BY <2>1 DEF InOrder
  <2> QED
    BY <2>1, <2>2, RequestsAssumption DEF KeepsOrder
<1>3. InOrder'
  BY <1>2 DEF InOrder
<1>4. batch' \subseteq Given'
  BY DEF Given
<1> QED
  BY <1>3, <1>4

(* A request is pushed behind all others, and has not started.             *)
LEMMA OrderPush ==
    ASSUME TypeInv, OrderInv, StreamInv, NEW r \in Requests, Push(r)
    PROVE  InOrder' /\ batch' \subseteq Given'
<1>1. TypeOK /\ Arrivals /\ arrival \in [Requests -> Nat] /\ call \in [Requests -> CallStates]
  BY DEF TypeInv, TypeOK
<1>2. PICK n \in Nat : n = Cardinality(Given)
  BY <1>1, FS_CardinalityType DEF Arrivals
<1>3. /\ call[r] = "announced"
      /\ queue' = queue \union {r}
      /\ arrival' = [arrival EXCEPT ![r] = 1 + n]
      /\ UNCHANGED <<batch, current, stream>>
  BY <1>2 DEF Push, CallStep, Given
<1>4. /\ arrival'[r] = n + 1 /\ n + 1 \in Nat /\ n + 1 # 0
      /\ \A q \in Requests \ {r} : arrival'[q] = arrival[q]
  BY <1>1, <1>3, SMT
<1>5. \A q \in Given : arrival[q] <= n
  BY <1>1, <1>2 DEF Arrivals
<1>6. \A q \in Requests : arrival[q] <= n
  BY <1>1, <1>5, SMT DEF Given
<1>7. ~Started(r) /\ r \notin queue /\ r \notin batch /\ r # current
  BY <1>3 DEF OrderInv, Begun, Unstarted, StreamInv, Sound, Apart
<1>8. \A q \in Requests : (Started(q)' <=> Started(q))
  BY <1>3, StartedStays
<1>9. ASSUME NEW p \in Requests, NEW q \in Requests, Earlier(p, q)'
      PROVE  KeepsOrder(p, q)'
  <2>1. CASE q = r
    BY <1>3, <1>7, <1>8, <2>1 DEF KeepsOrder
  <2>2. CASE q # r
    <3>1. p # r
      <4> SUFFICES ASSUME p = r PROVE FALSE
        OBVIOUS
      <4>1. n + 1 < arrival[q]
        BY <1>4, <1>9, <2>2 DEF Earlier
      <4>2. arrival[q] <= n /\ arrival[q] \in Nat
        BY <1>1, <1>6
      <4> QED
        BY <4>1, <4>2, SMT
    <3>2. Earlier(p, q)
      BY <1>4, <1>9, <2>2, <3>1 DEF Earlier
    <3>3. KeepsOrder(p, q)
      BY <3>2 DEF OrderInv, InOrder
    <3> QED
      BY <1>3, <1>8, <2>2, <3>1, <3>3 DEF KeepsOrder
  <2> QED
    BY <2>1, <2>2
<1>10. InOrder'
  BY <1>9 DEF InOrder
<1>11. batch' \subseteq Given'
  <2>1. \A q \in Given : q \in Requests /\ arrival'[q] # 0
    BY <1>4 DEF Given
  <2>2. batch \subseteq Given'
    BY <2>1 DEF OrderInv, Given
  <2> QED
    BY <1>3, <2>2
<1> QED
  BY <1>10, <1>11

(* The dispatcher takes a part of the queue that nobody in it is ahead of. *)
LEMMA OrderTaken ==
    ASSUME TypeInv, OrderInv, current = "none",
           UNCHANGED <<arrival, stream, current>>,
           NEW M \in SUBSET queue,
           \A q \in M : \A p \in queue : arrival[p] < arrival[q] => p \in M,
           queue' = queue \ M, batch' \subseteq batch \union M
    PROVE  InOrder' /\ batch' \subseteq Given'
<1>1. current \notin Requests
  BY RequestsAssumption
<1>2. \A q \in Requests : (Started(q)' <=> Started(q))
  BY StartedStays
<1>3. ASSUME NEW p \in Requests, NEW q \in Requests, Earlier(p, q)'
      PROVE  KeepsOrder(p, q)'
  <2>1. Earlier(p, q) /\ arrival[p] < arrival[q]
    BY <1>3 DEF Earlier
  <2>2. KeepsOrder(p, q)
    BY <2>1 DEF OrderInv, InOrder
  <2>3. q \in batch' => p \notin queue'
    BY <2>1, <2>2 DEF KeepsOrder
  <2>4. Started(q) => p \notin queue /\ p \notin batch
    BY <2>2 DEF KeepsOrder
  <2> QED
    BY <1>1, <1>2, <2>3, <2>4 DEF KeepsOrder
<1>4. InOrder'
  BY <1>3 DEF InOrder
<1>5. queue \subseteq Given /\ batch \subseteq Given /\ Given' = Given
  BY DEF OrderInv, TypeInv, Arrivals, Given
<1> QED
  BY <1>4, <1>5

(* What the gathering loops take is such a part.                           *)
LEMMA GatheredFromFront ==
    ASSUME TypeInv, NEW room \in Int,
           NEW q \in Gathered(room), NEW p \in queue, arrival[p] < arrival[q]
    PROVE  p \in Gathered(room)
<1>1. arrival \in [Requests -> Nat] /\ queue \subseteq Requests /\ IsFiniteSet(queue)
  BY FS_Subset DEF TypeInv, TypeOK, Arrivals
<1>2. q \in queue /\ arrival[p] \in Nat /\ arrival[q] \in Nat
  BY <1>1 DEF Gathered
<1> DEFINE Ahead(x) == {y \in queue : active[y] /\ arrival[y] < arrival[x]}
<1>3. \A y \in queue : arrival[y] <= arrival[p] => y \notin long
  <2>1. \A y \in queue : arrival[y] <= arrival[q] => y \notin long
    BY DEF Gathered
  <2>2. \A y \in queue : arrival[y] <= arrival[p] => arrival[y] <= arrival[q]
    BY <1>1, <1>2, SMT
  <2> QED
    BY <2>1, <2>2
<1>4. Ahead(p) \subseteq Ahead(q)
  BY <1>1, <1>2, SMT
<1>5. IsFiniteSet(Ahead(q))
  BY <1>1, FS_Subset
<1>6. PICK i \in Nat : i = Cardinality(Ahead(q))
  BY <1>5, FS_CardinalityType
<1>7. PICK j \in Nat : j = Cardinality(Ahead(p)) /\ j <= i
  <2>1. IsFiniteSet(Ahead(p)) /\ Cardinality(Ahead(p)) <= Cardinality(Ahead(q))
    BY <1>4, <1>5, FS_Subset
  <2> QED
    BY <1>6, <2>1, FS_CardinalityType
<1>8. i < room
  BY <1>6 DEF Gathered
<1>9. j < room
  BY <1>7, <1>8, SMT
<1> QED
  BY <1>3, <1>7, <1>9 DEF Gathered

LEMMA OrderTake ==
    ASSUME TypeInv, OrderInv, TakeFront \/ GatherBatch \/ FillBatch
    PROVE  InOrder' /\ batch' \subseteq Given'
<1>1. /\ arrival \in [Requests -> Nat] /\ queue \in SUBSET Requests
      /\ UNCHANGED <<arrival, stream, current>>
  BY DEF TypeInv, TypeOK, TakeFront, GatherBatch, FillBatch, admission
<1>2. current = "none"
  BY DEF TypeInv, HandsOf, TakeFront, GatherBatch, FillBatch
<1>3. CASE TakeFront
  <2>1. /\ queue # {} /\ batch' = {First(queue)} /\ queue' = queue \ {First(queue)}
    BY <1>3 DEF TakeFront
  <2>2. First(queue) \in queue /\ \A q \in queue : arrival[First(queue)] <= arrival[q]
    BY <1>1, <2>1, FirstIsMember
  <2>3. \A p \in queue : ~(arrival[p] < arrival[First(queue)])
    BY <1>1, <2>2, SMT
  <2> QED
    BY <1>1, <1>2, <2>1, <2>2, <2>3, OrderTaken, SMT
<1>4. CASE GatherBatch
  <2>1. BatchSize \in Int
    BY ConfigAssumption, SMT
  <2>2. /\ batch' = {r \in Gathered(BatchSize) : active[r]}
        /\ queue' = queue \ Gathered(BatchSize)
    BY <1>4 DEF GatherBatch
  <2>3. Gathered(BatchSize) \in SUBSET queue
    BY DEF Gathered
  <2>4. \A q \in Gathered(BatchSize) : \A p \in queue :
            arrival[p] < arrival[q] => p \in Gathered(BatchSize)
    BY <2>1, GatheredFromFront
  <2> HIDE DEF Gathered
  <2> QED
    BY <1>1, <1>2, <2>2, <2>3, <2>4, OrderTaken
<1>5. CASE FillBatch
  <2>1. IsFiniteSet(batch)
    BY FS_Subset DEF OrderInv, TypeInv, Arrivals
  <2>2. PICK room \in Int : room = BatchSize - Cardinality(batch)
    BY <2>1, FS_CardinalityType, ConfigAssumption, SMT
  <2>3. /\ batch' = batch \union {r \in Gathered(room) : active[r]}
        /\ queue' = queue \ Gathered(room)
    BY <1>5, <2>2 DEF FillBatch
  <2>4. Gathered(room) \in SUBSET queue
    BY DEF Gathered
  <2>5. \A q \in Gathered(room) : \A p \in queue :
            arrival[p] < arrival[q] => p \in Gathered(room)
    BY GatheredFromFront
  <2> QED
    BY <1>1, <1>2, <2>3, <2>4, <2>5, OrderTaken
<1> QED
  BY <1>3, <1>4, <1>5

LEMMA OrderPick ==
    ASSUME TypeInv, OrderInv, PickActive
    PROVE  InOrder' /\ batch' \subseteq Given'
<1>1. /\ arrival \in [Requests -> Nat] /\ batch \in SUBSET Requests /\ batch # {}
  BY DEF TypeInv, TypeOK, HandsOf, PickActive
<1>2. PICK f \in Requests : /\ f = First(batch) /\ f \in batch
                            /\ \A q \in batch : arrival[f] <= arrival[q]
  BY <1>1, FirstIsMember
<1>3. /\ current' = f /\ batch' = batch \ {f}
      /\ UNCHANGED <<arrival, queue, stream>>
  BY <1>2 DEF PickActive, admission
<1>4. \A q \in Requests : (Started(q)' <=> Started(q))
  BY <1>3, StartedStays
<1>5. ASSUME NEW p \in Requests, NEW q \in Requests, Earlier(p, q)'
      PROVE  KeepsOrder(p, q)'
  <2>1. Earlier(p, q)
    BY <1>3, <1>5 DEF Earlier
  <2>2. KeepsOrder(p, q)
    BY <2>1 DEF OrderInv, InOrder
  <2>3. q = f => p \notin queue /\ p \notin batch
    <3>1. q = f => ~(arrival[q] <= arrival[p])
      BY <1>1, <2>1, SMT DEF Earlier
    <3> QED
      BY <1>2, <2>2, <3>1 DEF KeepsOrder
  <2>4. Started(q) => p # f
    BY <1>2, <2>2 DEF KeepsOrder
  <2> QED
    BY <1>3, <1>4, <2>2, <2>3, <2>4 DEF KeepsOrder
<1>6. InOrder'
  BY <1>5 DEF InOrder
<1>7. batch' \subseteq Given'
  BY <1>3 DEF OrderInv, Given
<1> QED
  BY <1>6, <1>7

LEMMA OrderDispatched ==
    ASSUME StreamInv, TypeInv, OrderInv, DispatchStarted
    PROVE  InOrder' /\ batch' \subseteq Given'
<1>1. Streams /\ HandsOf /\ listening \in [Requests -> BOOLEAN] /\ arrival \in [Requests -> Nat]
  BY DEF StreamInv, TypeInv, TypeOK
<1>2. current \in Requests
  BY <1>1 DEF DispatchStarted, HandsOf, TypeInv, TypeOK
<1>3. Emit(current, "started", 0) /\ UNCHANGED <<arrival, queue, batch, current>>
  BY DEF DispatchStarted, admission
<1>4. /\ \A q \in Requests \ {current} : (Started(q)' <=> Started(q))
      /\ Started(current) => Started(current)'
  BY <1>1, <1>2, <1>3, SentStarted
<1>5. ASSUME NEW p \in Requests, NEW q \in Requests, Earlier(p, q)'
      PROVE  KeepsOrder(p, q)'
  <2>1. Earlier(p, q) /\ p # q
    BY <1>1, <1>3, <1>5, SMT DEF Earlier
  <2>2. KeepsOrder(p, q)
    BY <2>1 DEF OrderInv, InOrder
  <2> QED
    BY <1>3, <1>4, <2>1, <2>2 DEF KeepsOrder
<1>6. InOrder'
  BY <1>5 DEF InOrder
<1>7. batch' \subseteq Given'
  BY <1>3 DEF OrderInv, Given
<1> QED
  BY <1>6, <1>7

(* generate() starts a request itself: one that never was in the queue.    *)
LEMMA OrderImmediate ==
    ASSUME StreamInv, TypeInv, OrderInv, NEW r \in Requests, AnnounceStarted(r)
    PROVE  InOrder' /\ batch' \subseteq Given'
<1>1. Streams /\ listening \in [Requests -> BOOLEAN] /\ Arrivals
  BY DEF StreamInv, TypeInv, TypeOK
<1>2. /\ call[r] = "immediate" /\ Emit(r, "started", 0)
      /\ UNCHANGED <<arrival, queue, batch, current>>
  BY DEF AnnounceStarted, CallStep, dispatching
<1>3. r \notin Given
  BY <1>1, <1>2 DEF Arrivals
<1>4. \A q \in Given : (Started(q)' <=> Started(q))
  BY <1>1, <1>2, <1>3, SentStarted DEF Given
<1> QED
  BY <1>2, <1>4, OrderAside DEF OrderInv

(* Every other event is not a start.                                       *)
LEMMA OrderSend ==
    ASSUME StreamInv, TypeInv, OrderInv, NEW r \in Requests,
           NEW kind, kind # "started", NEW seq, Emit(r, kind, seq),
           UNCHANGED <<arrival, batch, current>>, queue' \subseteq queue
    PROVE  InOrder' /\ batch' \subseteq Given'
<1>1. Streams /\ listening \in [Requests -> BOOLEAN]
  BY DEF StreamInv, TypeInv, TypeOK
<1>2. \A q \in Requests : (Started(q)' <=> Started(q))
  BY <1>1, SentStarted, SMT
<1> QED
  BY <1>2, OrderAside DEF OrderInv, Given

LEMMA OrderSilent ==
    ASSUME TypeInv, OrderInv, UNCHANGED <<arrival, stream>>,
           queue' \subseteq queue, batch' \subseteq batch,
           current' = current \/ current' = "none"
    PROVE  InOrder' /\ batch' \subseteq Given'
<1>1. \A q \in Given : (Started(q)' <=> Started(q))
  BY StartedStays
<1> QED
  BY <1>1, OrderAside DEF OrderInv

LEMMA InOrderStep ==
    ASSUME StreamInv, TypeInv, OrderInv, [RuntimeNext]_vars
    PROVE  InOrder' /\ batch' \subseteq Given'
<1>1. CASE \E r \in Requests : Admit(r) \/ Generate(r)
  <2>1. PICK r \in Requests : Admit(r) \/ Generate(r)
    BY <1>1
  <2>2. CASE Push(r)
    BY <2>2, OrderPush
  <2>3. CASE AnnounceStarted(r)
    BY <2>3, OrderImmediate
  <2>4. CASE AnnounceQueued(r)
    <3>1. Emit(r, "queued", 0) /\ UNCHANGED <<arrival, queue, batch, current>>
      BY <2>4 DEF AnnounceQueued, dispatching
    <3> QED
      BY <3>1, OrderSend
  <2>5. CASE \/ Admit(r) \/ ReadMode(r) \/ SpawnNow(r) \/ RecordNow(r) \/ PointAtBack(r)
             \/ MakeHandle(r)
    <3>1. UNCHANGED <<arrival, queue, batch, current, stream>>
      BY <2>5 DEF Admit, ReadMode, SpawnNow, RecordNow, PointAtBack,
         MakeHandle, dispatching
    <3> QED
      BY <3>1, OrderSilent
  <2> QED
    BY <2>1, <2>2, <2>3, <2>4, <2>5 DEF Generate
<1>2. CASE \E r \in Requests : Work(r) \/ CallRemote(r) \/ LoseCall(r)
  <2>1. PICK r \in Requests : Work(r) \/ CallRemote(r) \/ LoseCall(r)
    BY <1>2
  <2>2. UNCHANGED <<arrival, queue, batch, current>>
    BY <2>1 DEF Work, ComputeToken, EmitToken, SkipToken, PassFails,
       ReportError, CannotLoad,
                LeaveLoop, Judge, EmitCompleted, EmitFailed, Deregister, CallRemote, LoseCall,
                admission, dispatching
  <2>3. \/ stream' = stream
        \/ Emit(r, "token", position[r])
        \/ Emit(r, "failed", emitted[r])
        \/ Emit(r, "completed", emitted[r])
    BY <2>1 DEF Work, ComputeToken, EmitToken, SkipToken, PassFails,
       ReportError, CannotLoad,
                LeaveLoop, Judge, EmitCompleted, EmitFailed, Deregister, CallRemote, LoseCall
  <2>4. CASE stream' = stream
    BY <2>2, <2>4, OrderSilent
  <2>5. CASE stream' # stream
    <3>1. PICK kind \in {"token", "failed", "completed"} : \E seq : Emit(r, kind, seq)
      BY <2>3, <2>5
    <3>2. kind # "started"
      BY <3>1
    <3> QED
      BY <2>2, <3>1, <3>2, OrderSend
  <2> QED
    BY <2>4, <2>5
<1>3. CASE \E r \in Requests : Cancel(r) \/ ClearActive(r) \/ RemoveQueued(r) \/ StopToken(r)
  <2>1. PICK r \in Requests : Cancel(r) \/ ClearActive(r) \/ RemoveQueued(r) \/ StopToken(r)
    BY <1>3
  <2>2. UNCHANGED <<arrival, batch, current>> /\ queue' \subseteq queue
    BY <2>1 DEF Cancel, ClearActive, RemoveQueued, StopToken, admission,
       dispatching
  <2>3. CASE RemoveQueued(r) /\ handle[r] \in queue
    <3>1. Emit(handle[r], "failed", 0) /\ handle[r] \in Requests
      BY <2>3 DEF RemoveQueued, TypeInv, TypeOK
    <3> QED
      BY <2>2, <3>1, OrderSend
  <2>4. CASE ~(RemoveQueued(r) /\ handle[r] \in queue)
    <3>1. stream' = stream
      BY <2>1, <2>4 DEF Cancel, ClearActive, RemoveQueued, StopToken
    <3> QED
      BY <2>2, <3>1, OrderSilent
  <2> QED
    BY <2>3, <2>4
<1>4. CASE Dispatch
  <2>1. CASE DropInactive \/ DispatchSpawn \/ DispatchRecord \/ DispatcherExit
    <3>1. /\ UNCHANGED <<arrival, stream, queue>>
          /\ batch' \subseteq batch
          /\ current' = current \/ current' = "none"
      BY <2>1 DEF DropInactive, DispatchSpawn, DispatchRecord, DispatcherExit,
         admission
    <3> QED
      BY <3>1, OrderSilent
  <2> QED
    BY <1>4, <2>1, OrderTake, OrderPick, OrderDispatched DEF Dispatch
<1>5. CASE \/ \E m \in Modes : Configure(m)
           \/ Destruct \/ DetachCallbacks \/ GrabWorkers \/ JoinWorkers \/ UNCHANGED vars
  <2>1. UNCHANGED <<arrival, stream, batch, current>> /\ queue' \subseteq queue
    BY <1>5 DEF Configure, Destruct, DetachCallbacks, GrabWorkers,
       JoinWorkers, vars, admission,
                dispatching
  <2> QED
    BY <2>1, OrderSilent
<1> QED
  BY <1>1, <1>2, <1>3, <1>4, <1>5 DEF RuntimeNext

LEMMA OrderInitially == Init => OrderInv
<1> SUFFICES ASSUME Init PROVE OrderInv
  OBVIOUS
<1>1. \A r \in Requests : ~Started(r) /\ ~Ended(r)
  <2>1. \A r \in Requests : DOMAIN stream[r] = {}
    BY SMT DEF Init
  <2> QED
    BY <2>1 DEF Started, Ended
<1>2. InOrder
  BY DEF Init, InOrder, Earlier
<1>3. \A r \in Requests : Begun(r)
  BY <1>1 DEF Init, Begun
<1>4. \A r \in Requests : Handles(r)
  BY RequestsAssumption DEF Init, Handles
<1> QED
  BY <1>2, <1>3, <1>4 DEF Init, OrderInv

LEMMA OrderStep ==
    ASSUME StreamInv, PhaseInv, TypeInv, OrderInv, [RuntimeNext]_vars
    PROVE  OrderInv'
<1>1. \A r \in Requests : Begun(r)'
  BY BegunStep DEF OrderInv
<1>2. \A r \in Requests : Handles(r)'
  BY HandlesStep DEF OrderInv
<1> QED
  BY <1>1, <1>2, InOrderStep DEF OrderInv

(* What has passed a request by is the reason why that one has started or  *)
(* will not: it is no longer in the queue, nor taken from it.              *)
LEMMA OrderSuffices ==
    ASSUME StreamInv, TypeInv, OrderInv
    PROVE  StartInOrder
<1> SUFFICES ASSUME NEW p \in Requests, NEW q \in Requests,
                    arrival[p] # 0, arrival[p] < arrival[q], Started(q), active[p]
             PROVE  Started(p)
  BY DEF StartInOrder
<1>1. p \notin queue /\ p \notin batch /\ (p = current => Started(p))
  BY DEF OrderInv, InOrder, Earlier, KeepsOrder
<1>2. call[p] \in {"pushed", "pointed", "returned"}
  BY DEF TypeInv, Arrivals, Given
<1>3. Sound(p) /\ Begun(p)
  BY DEF StreamInv, OrderInv
<1>4. CASE Ended(p)
  BY <1>3, <1>4 DEF Begun
<1>5. CASE ~Ended(p)
  <2>1. InHand(p) /\ listening[p]
    BY <1>3, <1>5 DEF Sound, Accounted
  <2>2. p = current \/ worker[p] # "none"
    BY <1>1, <1>2, <2>1 DEF InHand
  <2> QED
    BY <1>1, <1>3, <2>1, <2>2 DEF Begun
<1> QED
  BY <1>4, <1>5

(***************************************************************************)
(* Queued requests start in the order of their push_back calls, for any    *)
(* number of requests and whatever the modes, batch sizes, long requests   *)
(* and cancellations in between: nothing overtakes a request but one that  *)
(* was deactivated.                                                        *)
(***************************************************************************)
THEOREM QueuedStartInOrder == RuntimeSpec => []StartInOrder
<1>1. Init => TypeInv /\ OrderInv
  BY TypeInitially, OrderInitially
<1>2. StreamInv /\ PhaseInv /\ TypeInv /\ OrderInv /\ [RuntimeNext]_vars => TypeInv' /\ OrderInv'
  BY TypeStep, OrderStep
<1>3. StreamInv /\ TypeInv /\ OrderInv => StartInOrder
  BY OrderSuffices
<1> QED
  BY <1>1, <1>2, <1>3, AlwaysStreamInv, AlwaysPhaseInv, PTL DEF RuntimeSpec
===============================================================================
