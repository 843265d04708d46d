------------------------------ MODULE StreamProofs -----------------------------
(***************************************************************************)
(* More proofs about Pipeline: under the runtime's calls what a callback   *)
(* sees is a RequestStream; and, with replan() too, every variable keeps   *)
(* its type.                                                               *)
(***************************************************************************)
EXTENDS PipelineProofs

(* Zenon proves every leaf that cites no other prover; SMT is cited where  *)
(* arithmetic, records or function updates take part.                      *)
USE ZenonT(20)

-------------------------------------------------------------------------------
(***************************************************************************)
(* Who has a request in hand knows the last event its callback was given.  *)
(***************************************************************************)
Kind(r) == Promise!LastKind(r)

Announced(r) ==
    /\ call[r] \in {"admitted", "immediate", "queueing"} => Kind(r) = "nothing"
    /\ call[r] = "starting" => Kind(r) = "started"
    /\ call[r] = "announced" => Kind(r) = "queued"
    /\ r \in queue \union batch => Kind(r) = "queued"
    /\ r = current /\ dispatcher = "starting" => Kind(r) = "queued"
    /\ r = current /\ dispatcher = "spawning" => Kind(r) = "started"
    /\ worker[r] \notin Over => Kind(r) \in {"started", "token"}

(* The tokens sent so far are numbered below the loop counter.             *)
Counted(r) ==
    /\ emitted[r] <= position[r]
    /\ position[r] <= MaxTokens
    /\ worker[r] = "emitting" => position[r] < MaxTokens
    /\ \A i \in DOMAIN stream[r] : stream[r][i].kind = "token" => stream[r][i].seq < position[r]

Phase(r) ==
    /\ call[r] = "idle" => stream[r] = <<>>
    /\ listening[r] => Announced(r)
    /\ Counted(r)

PhaseInv == \A r \in Requests : Phase(r)


USE DEF InGenerate, Over

(* A step that sends nothing to q and hands it to nobody.                  *)
SameView(q) ==
    /\ call'[q] = call[q] \/ call'[q] \in {"pushed", "pointed", "returned"}
    /\ listening'[q] => listening[q]
    /\ q \in queue' \union batch' => q \in queue \union batch
    /\ q = current' /\ dispatcher' = "starting" => q = current /\ dispatcher = "starting"
    /\ q = current' /\ dispatcher' = "spawning" => q = current /\ dispatcher = "spawning"
    /\ worker'[q] = worker[q] \/ worker'[q] \in Over
    /\ position'[q] = position[q]
    /\ emitted'[q] = emitted[q]
    /\ stream'[q] = stream[q]

LEMMA SameKind ==
    ASSUME NEW q, stream'[q] = stream[q]
    PROVE  Kind(q)' = Kind(q)
  BY DEF Kind, Promise!LastKind

LEMMA SamePhase ==
    ASSUME NEW q \in Requests, Phase(q), SameView(q)
    PROVE  Phase(q)'
<1>1. Kind(q)' = Kind(q)
  BY SameKind DEF SameView
<1>2. call'[q] = "idle" => stream'[q] = <<>>
  BY DEF SameView, Phase
<1>3. Counted(q)'
  BY DEF SameView, Phase, Counted
<1>4. listening'[q] => Announced(q)'
  <2>1. SUFFICES ASSUME Announced(q)
                 PROVE  Announced(q)'
    BY DEF SameView, Phase
  <2> QED
    BY <1>1, <2>1 DEF SameView, Announced
<1> QED
  BY <1>2, <1>3, <1>4 DEF Phase

(* What sending an event does to the stream.                               *)
Sending(r, kind, seq) ==
    /\ \A q \in Requests \ {r} : stream'[q] = stream[q]
    /\ ~listening[r] => stream' = stream
    /\ listening[r] =>
          /\ Promise!Deliver(r, kind, seq)
          /\ Kind(r)' = kind
          /\ \A i \in DOMAIN stream'[r] :
                \/ stream'[r][i] = [kind |-> kind, seq |-> seq]
                \/ i \in DOMAIN stream[r] /\ stream'[r][i] = stream[r][i]

LEMMA Sent ==
    ASSUME Streams, listening \in [Requests -> BOOLEAN],
           NEW r \in Requests, NEW kind, NEW seq, Emit(r, kind, seq)
    PROVE  Sending(r, kind, seq)
<1>1. CASE ~listening[r]
  BY <1>1 DEF Emit, Sending
<1>2. CASE listening[r]
  <2> DEFINE e == [kind |-> kind, seq |-> seq]
             n == Len(stream[r])
  <2>1. stream' = [stream EXCEPT ![r] = Append(stream[r], e)]
    BY <1>2 DEF Emit
  <2>2. Promise!Deliver(r, kind, seq)
    BY <2>1 DEF Promise!Deliver
  <2>3. /\ stream[r] \in Seq(Events) /\ stream'[r] = Append(stream[r], e)
        /\ \A q \in Requests \ {r} : stream'[q] = stream[q]
    BY <2>1 DEF Streams
  <2>4. e.kind = kind
    OBVIOUS
  <2> HIDE DEF e
  <2>5. /\ n \in Nat
        /\ DOMAIN stream[r] = 1..n
        /\ DOMAIN stream'[r] = 1..(n + 1)
        /\ Len(stream'[r]) = n + 1
        /\ stream'[r][n + 1] = e
        /\ \A i \in 1..n : stream'[r][i] = stream[r][i]
    BY <2>3, SMT
  <2> HIDE DEF n
  <2>6. Kind(r)' = kind
    <3>1. stream'[r] # <<>>
      BY <2>5, SMT
    <3> QED
      BY <2>4, <2>5, <3>1 DEF Kind, Promise!LastKind
  <2>7. \A i \in DOMAIN stream'[r] :
           stream'[r][i] = e \/ (i \in DOMAIN stream[r] /\ stream'[r][i] = stream[r][i])
    BY <2>5, SMT
  <2> QED
    BY <1>2, <2>2, <2>3, <2>6, <2>7 DEF e, Sending
<1> QED
  BY <1>1, <1>2

(* The tokens in the stream stay numbered as they were.                    *)
LEMMA OldTokens ==
    ASSUME NEW r \in Requests, Counted(r), NEW kind, kind # "token", NEW seq,
           Sending(r, kind, seq), listening[r] \in BOOLEAN
    PROVE  \A i \in DOMAIN stream'[r] :
              stream'[r][i].kind = "token" => stream'[r][i].seq < position[r]
<1>1. \A i \in DOMAIN stream[r] : stream[r][i].kind = "token" => stream[r][i].seq < position[r]
  BY DEF Counted
<1> DEFINE e == [kind |-> kind, seq |-> seq]
<1>2. e.kind # "token"
  OBVIOUS
<1>3. \A i \in DOMAIN stream'[r] :
         \/ stream'[r][i] = e
         \/ i \in DOMAIN stream[r] /\ stream'[r][i] = stream[r][i]
  BY DEF Sending
<1> HIDE DEF e
<1> QED
  BY <1>1, <1>2, <1>3

(* Everyone but r keeps its view.                                          *)
LEMMA OthersAndOne ==
    ASSUME NEW r \in Requests, PhaseInv, \A q \in Requests \ {r} : SameView(q), Phase(r)'
    PROVE  PhaseInv'
  BY SamePhase DEF PhaseInv

(* Steps that neither send anything nor hand anything over.                *)
LEMMA PhaseAside ==
    ASSUME PhaseInv, \A q \in Requests : SameView(q)
    PROVE  PhaseInv'
  BY SamePhase DEF PhaseInv

LEMMA PhaseAdmit ==
    ASSUME StreamInv, PhaseInv, NEW r \in Requests, Admit(r)
    PROVE  PhaseInv' /\ stream' = stream
<1>1. Typed /\ Sound(r) /\ Phase(r)
  BY DEF StreamInv, PhaseInv
<1>2. /\ call[r] = "idle"
      /\ call' = [call EXCEPT ![r] = "admitted"]
      /\ listening' = [listening EXCEPT ![r] = TRUE]
      /\ UNCHANGED <<queue, batch, current, dispatcher, worker, position, emitted, stream>>
  BY DEF Admit, CallStep, dispatching, working
<1>3. \A q \in Requests \ {r} : SameView(q)
  BY <1>1, <1>2 DEF SameView, Typed
<1>4. stream[r] = <<>> /\ call'[r] = "admitted"
  BY <1>1, <1>2 DEF Phase, Typed
<1>5. Kind(r)' = "nothing"
  BY <1>2, <1>4 DEF Kind, Promise!LastKind
<1>6. r \notin queue /\ r \notin batch /\ r # current /\ worker[r] = "none"
  BY <1>1, <1>2 DEF Sound, Apart
<1>7. Phase(r)'
  <2>1. Announced(r)'
    BY <1>2, <1>4, <1>5, <1>6 DEF Announced
  <2>2. Counted(r)'
    BY <1>1, <1>2 DEF Phase, Counted
  <2> QED
    BY <1>4, <2>1, <2>2 DEF Phase
<1> QED
  BY <1>2, <1>3, <1>7, OthersAndOne

LEMMA PhaseCall ==
    ASSUME StreamInv, PhaseInv, NEW r \in Requests,
           ReadMode(r) \/ RecordNow(r) \/ PointAtBack(r) \/ MakeHandle(r)
    PROVE  PhaseInv' /\ stream' = stream
<1>1. Typed /\ Phase(r)
  BY DEF StreamInv, PhaseInv
<1>2. UNCHANGED <<listening, queue, batch, current, dispatcher, worker, position, emitted,
                  stream>>
  BY DEF ReadMode, RecordNow, PointAtBack, MakeHandle, dispatching, working,
     ending
<1>3. CASE RecordNow(r) \/ PointAtBack(r) \/ MakeHandle(r)
  <2>1. call' = [call EXCEPT ![r] = "returned"] \/ call' = [call EXCEPT ![r] = "pointed"]
    BY <1>3 DEF RecordNow, PointAtBack, MakeHandle, CallStep
  <2>2. \A q \in Requests : SameView(q)
    BY <1>1, <1>2, <2>1 DEF SameView, Typed
  <2> QED
    BY <1>2, <2>2, PhaseAside
<1>4. CASE ReadMode(r)
  <2>1. /\ call[r] = "admitted"
        /\ call' = [call EXCEPT ![r] = "immediate"] \/ call' = [call EXCEPT ![r] = "queueing"]
    BY <1>4 DEF ReadMode, CallStep
  <2>2. \A q \in Requests \ {r} : SameView(q)
    BY <1>1, <1>2, <2>1 DEF SameView, Typed
  <2>3. call'[r] \in {"immediate", "queueing"}
    BY <1>1, <2>1 DEF Typed
  <2>4. Kind(r)' = Kind(r)
    BY <1>2, SameKind
  <2>5. Announced(r) => Announced(r)'
    BY <1>2, <2>1, <2>3, <2>4 DEF Announced
  <2>6. Counted(r)'
    BY <1>1, <1>2 DEF Phase, Counted
  <2>7. Phase(r)'
    BY <1>1, <1>2, <2>3, <2>5, <2>6 DEF Phase
  <2> QED
    BY <1>2, <2>2, <2>7, OthersAndOne
<1> QED
  BY <1>3, <1>4

LEMMA PhasePush ==
    ASSUME StreamInv, PhaseInv, NEW r \in Requests, Push(r)
    PROVE  PhaseInv' /\ stream' = stream
<1>1. Typed /\ Phase(r) /\ Sound(r)
  BY DEF StreamInv, PhaseInv
<1>2. /\ call[r] = "announced"
      /\ call' = [call EXCEPT ![r] = "pushed"]
      /\ queue' = queue \union {r}
      /\ UNCHANGED <<listening, batch, current, dispatcher, worker, position, emitted, stream>>
  BY DEF Push, CallStep, working, ending
<1>3. \A q \in Requests \ {r} : SameView(q)
  BY <1>1, <1>2 DEF SameView, Typed
<1>4. call'[r] = "pushed"
  BY <1>1, <1>2 DEF Typed
<1>5. Kind(r)' = Kind(r)
  BY <1>2, SameKind
<1>6. r # current /\ worker[r] = "none"
  BY <1>1, <1>2 DEF Sound, Apart
<1>7. Announced(r) => Announced(r)'
  BY <1>2, <1>4, <1>5, <1>6 DEF Announced
<1>8. Counted(r)'
  BY <1>1, <1>2 DEF Phase, Counted
<1>9. Phase(r)'
  BY <1>1, <1>2, <1>4, <1>7, <1>8 DEF Phase
<1> QED
  BY <1>2, <1>3, <1>9, OthersAndOne

LEMMA PhaseSpawnNow ==
    ASSUME StreamInv, PhaseInv, NEW r \in Requests, SpawnNow(r)
    PROVE  PhaseInv' /\ stream' = stream
<1>1. Typed /\ Phase(r) /\ Sound(r)
  BY DEF StreamInv, PhaseInv
<1>2. /\ call[r] = "starting"
      /\ call' = [call EXCEPT ![r] = "spawned"]
      /\ worker' = [worker EXCEPT ![r] = "looping"]
      /\ UNCHANGED <<listening, queue, batch, current, dispatcher, position, emitted, stream>>
  BY DEF SpawnNow, CallStep, dispatching, ending
<1>3. \A q \in Requests \ {r} : SameView(q)
  BY <1>1, <1>2 DEF SameView, Typed
<1>4. call'[r] = "spawned" /\ worker'[r] = "looping"
  BY <1>1, <1>2 DEF Typed
<1>5. Kind(r)' = Kind(r)
  BY <1>2, SameKind
<1>6. r # current /\ r \notin queue /\ r \notin batch
  BY <1>1, <1>2 DEF Sound, Apart
<1>7. Announced(r) => Announced(r)'
  BY <1>2, <1>4, <1>5, <1>6 DEF Announced
<1>8. Counted(r)'
  BY <1>1, <1>2, <1>4 DEF Phase, Counted
<1>9. Phase(r)'
  BY <1>1, <1>2, <1>4, <1>7, <1>8 DEF Phase
<1> QED
  BY <1>2, <1>3, <1>9, OthersAndOne

(* The dispatcher takes requests from the queue, drops some, and lets go   *)
(* of one when its worker is recorded.                                     *)
LEMMA PhaseTake ==
    ASSUME StreamInv, PhaseInv,
           TakeFront \/ GatherBatch \/ FillBatch \/ DropInactive \/ DispatchRecord
               \/ DispatcherExit
    PROVE  PhaseInv' /\ stream' = stream
<1>1. Typed /\ Numbered
  BY DEF StreamInv
<1>2. UNCHANGED <<call, listening, worker, position, emitted, stream>>
  BY DEF TakeFront, GatherBatch, FillBatch, DropInactive, DispatchRecord,
     DispatcherExit,
         admission, working, ending
<1>3. dispatcher' \notin {"starting", "spawning"}
  BY DEF TakeFront, GatherBatch, FillBatch, DropInactive, DispatchRecord,
     DispatcherExit, After
<1>4. queue' \union batch' \subseteq queue \union batch
  <2>1. CASE TakeFront
    <3>1. First(queue) \in queue
      BY <1>1, <2>1, FirstIsMember DEF TakeFront, Typed, Numbered
    <3> QED
      BY <2>1, <3>1 DEF TakeFront
  <2>2. CASE GatherBatch \/ FillBatch
    BY <2>2 DEF GatherBatch, FillBatch, Gathered
  <2>3. CASE DropInactive \/ DispatchRecord \/ DispatcherExit
    BY <2>3 DEF DropInactive, DispatchRecord, DispatcherExit
  <2> QED
    BY <2>1, <2>2, <2>3
<1>5. \A q \in Requests : SameView(q)
  BY <1>2, <1>3, <1>4 DEF SameView
<1> QED
  BY <1>2, <1>5, PhaseAside

LEMMA PhasePick ==
    ASSUME StreamInv, PhaseInv, PickActive
    PROVE  PhaseInv' /\ stream' = stream
<1>1. PICK r : r = First(batch)
  OBVIOUS
<1>2. /\ dispatcher = "dispatching" /\ dispatcher' = "starting"
      /\ current' = r /\ batch' = batch \ {r}
      /\ UNCHANGED <<call, listening, queue, worker, position, emitted, stream>>
  BY <1>1 DEF PickActive, admission, working, ending
<1>3. r \in batch /\ r \in Requests
  <2>1. batch \in SUBSET Requests /\ batch # {} /\ arrival \in [Requests -> Nat]
    BY <1>2 DEF StreamInv, Typed, Numbered, HandsOf
  <2> QED
    BY <1>1, <2>1, FirstIsMember
<1>4. Sound(r) /\ Phase(r)
  BY <1>3 DEF StreamInv, PhaseInv
<1>5. \A q \in Requests \ {r} : SameView(q)
  BY <1>2 DEF SameView
<1>6. Kind(r)' = Kind(r)
  BY <1>2, SameKind
<1>7. Announced(r) => Announced(r)'
  <2>1. /\ r \notin queue /\ worker[r] = "none"
        /\ call[r] \notin {"idle", "admitted", "immediate", "starting", "queueing", "announced"}
    BY <1>3, <1>4 DEF Sound, Apart
  <2> QED
    BY <1>2, <1>3, <1>6, <2>1 DEF Announced
<1>8. Counted(r)'
  BY <1>2, <1>4 DEF Phase, Counted
<1>9. Phase(r)'
  BY <1>2, <1>4, <1>7, <1>8 DEF Phase
<1> QED
  BY <1>2, <1>3, <1>5, <1>9, OthersAndOne

LEMMA PhaseSpawn ==
    ASSUME StreamInv, PhaseInv, DispatchSpawn
    PROVE  PhaseInv' /\ stream' = stream
<1>1. Typed /\ HandsOf
  BY DEF StreamInv
<1>2. /\ dispatcher = "spawning" /\ dispatcher' = "recording"
      /\ worker' = [worker EXCEPT ![current] = "looping"]
      /\ UNCHANGED <<call, listening, queue, batch, current, position, emitted, stream>>
  BY DEF DispatchSpawn, admission, ending
<1>3. current \in Requests
  BY <1>1, <1>2 DEF HandsOf, Typed
<1>4. PICK r \in Requests : r = current
  BY <1>3
<1>5. Sound(r) /\ Phase(r)
  BY <1>4 DEF StreamInv, PhaseInv
<1>6. worker'[r] = "looping" /\ \A q \in Requests \ {r} : worker'[q] = worker[q]
  BY <1>1, <1>2, <1>4 DEF Typed
<1>7. \A q \in Requests \ {r} : SameView(q)
  BY <1>2, <1>4, <1>6 DEF SameView
<1>8. Kind(r)' = Kind(r)
  BY <1>2, SameKind
<1>9. Announced(r) => Announced(r)'
  BY <1>2, <1>4, <1>6, <1>8 DEF Announced
<1>10. Counted(r)'
  BY <1>2, <1>5, <1>6 DEF Phase, Counted
<1>11. Phase(r)'
  BY <1>2, <1>5, <1>9, <1>10 DEF Phase
<1> QED
  BY <1>2, <1>7, <1>11, OthersAndOne

(* A worker computes: what it may send next is below the limit.            *)
LEMMA PhaseCompute ==
    ASSUME StreamInv, PhaseInv, NEW r \in Requests,
           \/ ComputeToken(r) \/ SkipToken(r) \/ PassFails(r) \/ CannotLoad(r)
           \/ LeaveLoop(r) \/ Judge(r) \/ CallRemote(r) \/ LoseCall(r)
    PROVE  PhaseInv' /\ stream' = stream
<1>1. Typed /\ Numbered /\ Phase(r)
  BY DEF StreamInv, PhaseInv
<1>2. /\ worker[r] \notin Over
      /\ UNCHANGED <<call, listening, queue, batch, current, dispatcher, stream, emitted>>
  BY ComputeEffect
<1>3. PICK w \in WorkerStates \ Over : worker' = [worker EXCEPT ![r] = w]
  BY ComputeEffect
<1>4. worker'[r] = w /\ \A q \in Requests \ {r} : worker'[q] = worker[q]
  BY <1>1, <1>3 DEF Typed
<1>5. \/ position' = position /\ (w = "emitting" => position[r] < MaxTokens)
      \/ /\ position' = [position EXCEPT ![r] = @ + 1]
         /\ worker[r] = "emitting" /\ w = "looping"
  <2>1. CASE SkipToken(r)
    BY <1>1, <1>4, <2>1 DEF SkipToken, WorkerStep, Typed
  <2>2. CASE ComputeToken(r)
    BY <2>2 DEF ComputeToken, MayContinue
  <2>3. CASE PassFails(r) \/ CannotLoad(r) \/ LeaveLoop(r) \/ CallRemote(r) \/ LoseCall(r)
    <3>1. \/ WorkerStep(r, "looping", "erring") \/ WorkerStep(r, "looping", "failing")
          \/ WorkerStep(r, "looping", "judging") \/ WorkerStep(r, "looping", "calling")
          \/ WorkerStep(r, "calling", "erring")
      BY <2>3 DEF PassFails, CannotLoad, LeaveLoop, CallRemote, LoseCall
    <3>2. w # "emitting"
      BY <1>1, <1>4, <3>1 DEF WorkerStep, Typed
    <3> QED
      BY <2>3, <3>2 DEF PassFails, CannotLoad, LeaveLoop, CallRemote, LoseCall
  <2>4. CASE Judge(r)
    <3>1. w # "emitting"
      BY <1>1, <1>4, <2>4 DEF Judge, WorkerStep, Typed
    <3> QED
      BY <2>4, <3>1 DEF Judge
  <2> QED
    BY <2>1, <2>2, <2>3, <2>4
<1>6. position[r] \in Nat /\ emitted[r] \in Nat /\ MaxTokens \in Nat
  BY <1>1, ConfigAssumption DEF Numbered
<1>7. \A q \in Requests \ {r} : SameView(q)
  <2>1. \A q \in Requests \ {r} : position'[q] = position[q]
    BY <1>1, <1>5 DEF Numbered
  <2> QED
    BY <1>2, <1>4, <2>1 DEF SameView
<1>8. Kind(r)' = Kind(r)
  BY <1>2, SameKind
<1>9. Announced(r) => Announced(r)'
  BY <1>2, <1>4, <1>8 DEF Announced
<1>10. Counted(r)'
  <2>1. Counted(r)
    BY <1>1 DEF Phase
  <2>2. position'[r] = position[r] \/ position'[r] = position[r] + 1
    BY <1>1, <1>5 DEF Numbered
  <2>3. ASSUME NEW i \in DOMAIN stream'[r], stream'[r][i].kind = "token"
        PROVE  stream'[r][i].seq < position'[r]
    <3>1. stream[r][i] \in Events
      BY <1>2, SMT DEF StreamInv, Streams
    <3>2. stream[r][i].seq \in Nat
      BY <3>1 DEF Events
    <3>3. stream[r][i].seq < position[r]
      BY <1>2, <2>1, <2>3 DEF Counted
    <3>4. PICK a, b, c \in Nat : a = stream[r][i].seq /\ b = position[r] /\ c = position'[r]
      BY <1>6, <2>2, <3>2, SMT
    <3>5. a < c
      BY <2>2, <3>3, <3>4, SMT
    <3> QED
      BY <1>2, <3>4, <3>5
  <2>4. position'[r] <= MaxTokens /\ emitted'[r] <= position'[r]
    <3>1. emitted[r] <= position[r] /\ position[r] <= MaxTokens /\ emitted'[r] = emitted[r]
      BY <1>2, <2>1 DEF Counted
    <3>2. position'[r] = position[r] \/ position[r] < MaxTokens
      BY <1>5, <2>1 DEF Counted
    <3> QED
      BY <1>6, <2>2, <3>1, <3>2, SMT
  <2>5. worker'[r] = "emitting" => position'[r] < MaxTokens
    BY <1>4, <1>5
  <2> QED
    BY <2>3, <2>4, <2>5 DEF Counted
<1>11. Phase(r)'
  BY <1>1, <1>2, <1>9, <1>10 DEF Phase
<1> QED
  BY <1>2, <1>7, <1>11, OthersAndOne

(* generate() announces a request.                                         *)
LEMMA PhaseAnnounce ==
    ASSUME StreamInv, PhaseInv, NEW r \in Requests, AnnounceStarted(r) \/ AnnounceQueued(r)
    PROVE  PhaseInv' /\ (stream' = stream \/ Promise!Next)
<1>1. Typed /\ Streams /\ Sound(r) /\ Phase(r)
  BY DEF StreamInv, PhaseInv
<1>2. PICK to, kind :
         /\ \/ call[r] = "immediate" /\ to = "starting" /\ kind = "started"
            \/ call[r] = "queueing" /\ to = "announced" /\ kind = "queued"
         /\ call' = [call EXCEPT ![r] = to]
         /\ Emit(r, kind, 0)
  BY DEF AnnounceStarted, AnnounceQueued, CallStep
<1>3. UNCHANGED <<listening, queue, batch, current, dispatcher, worker, position, emitted>>
  BY DEF AnnounceStarted, AnnounceQueued, dispatching, working, ending
<1>4. Sending(r, kind, 0)
  BY <1>1, <1>2, Sent DEF Typed
<1>5. \A q \in Requests \ {r} : SameView(q)
  BY <1>1, <1>2, <1>3, <1>4 DEF SameView, Typed, Sending
<1>6. call'[r] = to /\ to # "idle"
  BY <1>1, <1>2 DEF Typed
<1>7. r \notin queue /\ r \notin batch /\ r # current /\ worker[r] = "none"
  BY <1>1, <1>2 DEF Sound, Apart
<1>8. listening[r] => Announced(r)'
  <2>1. listening[r] => Kind(r)' = kind
    BY <1>4 DEF Sending
  <2> QED
    BY <1>2, <1>3, <1>6, <1>7, <2>1 DEF Announced
<1>9. Counted(r)'
  <2>1. \A i \in DOMAIN stream'[r] :
           stream'[r][i].kind = "token" => stream'[r][i].seq < position[r]
    <3>1. Counted(r) /\ kind # "token" /\ listening[r] \in BOOLEAN
      BY <1>1, <1>2 DEF Phase, Typed
    <3> QED
      BY <1>4, <3>1, OldTokens
  <2> QED
    BY <1>1, <1>3, <2>1 DEF Phase, Counted
<1>10. Phase(r)'
  BY <1>3, <1>6, <1>8, <1>9 DEF Phase
<1>11. listening[r] => Promise!Next
  <2> SUFFICES ASSUME listening[r]
               PROVE  Promise!Next
    OBVIOUS
  <2>1. Promise!LastKind(r) = "nothing"
    BY <1>1, <1>2 DEF Phase, Announced, Kind
  <2>2. Promise!Queue(r) \/ Promise!Start(r)
    BY <1>2, <1>4, <2>1 DEF Promise!Queue, Promise!Start, Sending
  <2> QED
    BY <2>2 DEF Promise!Next
<1> QED
  BY <1>1, <1>4, <1>5, <1>10, <1>11, OthersAndOne DEF Typed, Sending

(* The dispatcher announces one.                                           *)
LEMMA PhaseDispatchStarted ==
    ASSUME StreamInv, PhaseInv, DispatchStarted
    PROVE  PhaseInv' /\ (stream' = stream \/ Promise!Next)
<1>1. Typed /\ Streams /\ HandsOf
  BY DEF StreamInv
<1>2. /\ dispatcher = "starting" /\ dispatcher' = "spawning"
      /\ Emit(current, "started", 0)
      /\ UNCHANGED <<call, listening, queue, batch, current, worker, position, emitted>>
  BY DEF DispatchStarted, admission, working, ending
<1>3. current \in Requests
  BY <1>1, <1>2 DEF HandsOf, Typed
<1>4. PICK r \in Requests : r = current
  BY <1>3
<1>5. Sound(r) /\ Phase(r)
  BY <1>4 DEF StreamInv, PhaseInv
<1>6. Sending(r, "started", 0)
  BY <1>1, <1>2, <1>4, Sent DEF Typed
<1>7. \A q \in Requests \ {r} : SameView(q)
  BY <1>2, <1>4, <1>6 DEF SameView, Sending
<1>8. /\ r \notin queue /\ r \notin batch /\ worker[r] = "none"
      /\ call[r] \notin {"idle", "admitted", "immediate", "starting", "queueing", "announced"}
  BY <1>2, <1>4, <1>5 DEF Sound, Apart
<1>9. listening[r] => Announced(r)'
  <2>1. listening[r] => Kind(r)' = "started"
    BY <1>6 DEF Sending
  <2> QED
    BY <1>2, <1>8, <2>1 DEF Announced
<1>10. Counted(r)'
  <2>1. \A i \in DOMAIN stream'[r] :
           stream'[r][i].kind = "token" => stream'[r][i].seq < position[r]
    <3>1. Counted(r) /\ listening[r] \in BOOLEAN
      BY <1>1, <1>5 DEF Phase, Typed
    <3> QED
      BY <1>6, <3>1, OldTokens
  <2> QED
    BY <1>2, <1>5, <2>1 DEF Phase, Counted
<1>11. Phase(r)'
  BY <1>2, <1>8, <1>9, <1>10 DEF Phase
<1>12. listening[r] => Promise!Next
  <2> SUFFICES ASSUME listening[r]
               PROVE  Promise!Next
    OBVIOUS
  <2>1. Promise!LastKind(r) = "queued"
    BY <1>2, <1>4, <1>5 DEF Phase, Announced, Kind
  <2>2. Promise!Start(r)
    BY <1>6, <2>1 DEF Promise!Start, Sending
  <2> QED
    BY <2>2 DEF Promise!Next
<1> QED
  BY <1>1, <1>6, <1>7, <1>11, <1>12, OthersAndOne DEF Typed, Sending

(* A worker sends a token: its number is the loop counter.                 *)
LEMMA PhaseToken ==
    ASSUME StreamInv, PhaseInv, NEW r \in Requests, EmitToken(r)
    PROVE  PhaseInv' /\ (stream' = stream \/ Promise!Next)
<1>1. Typed /\ Numbered /\ Streams /\ Sound(r) /\ Phase(r)
  BY DEF StreamInv, PhaseInv
<1>2. /\ worker[r] = "emitting"
      /\ worker' = [worker EXCEPT ![r] = "looping"]
      /\ Emit(r, "token", position[r])
      /\ position' = [position EXCEPT ![r] = @ + 1]
      /\ emitted' = emitted \/ emitted' = [emitted EXCEPT ![r] = @ + 1]
      /\ UNCHANGED <<call, listening, queue, batch, current, dispatcher>>
  BY DEF EmitToken, WorkerStep, admission, dispatching, ending
<1>3. PICK n \in Nat : n = position[r]
  BY <1>1 DEF Numbered
<1>4. Sending(r, "token", n)
  BY <1>1, <1>2, <1>3, Sent DEF Typed
<1>5. /\ worker'[r] = "looping" /\ position'[r] = n + 1
      /\ emitted'[r] = emitted[r] \/ emitted'[r] = emitted[r] + 1
      /\ \A q \in Requests \ {r} :
            worker'[q] = worker[q] /\ position'[q] = position[q] /\ emitted'[q] = emitted[q]
  BY <1>1, <1>2, <1>3 DEF Typed, Numbered
<1>6. \A q \in Requests \ {r} : SameView(q)
  BY <1>2, <1>4, <1>5 DEF SameView, Sending
<1>7. /\ r \notin queue /\ r \notin batch
      /\ call[r] \notin {"idle", "admitted", "immediate", "starting", "queueing", "announced"}
      /\ r = current => dispatcher \notin {"starting", "spawning"}
  BY <1>1, <1>2 DEF Sound, Apart
<1>8. listening[r] => Announced(r)'
  <2>1. listening[r] => Kind(r)' = "token"
    BY <1>4 DEF Sending
  <2> QED
    BY <1>2, <1>5, <1>7, <2>1 DEF Announced
<1>9. n < MaxTokens /\ emitted[r] <= n /\ emitted[r] \in Nat /\ MaxTokens \in Nat
  BY <1>1, <1>2, <1>3, ConfigAssumption DEF Phase, Counted, Numbered
<1>10. ASSUME NEW i \in DOMAIN stream[r], stream[r][i].kind = "token"
       PROVE  stream[r][i].seq \in Nat /\ stream[r][i].seq < n
  <2>1. stream[r][i] \in Events
    BY <1>1, SMT DEF Streams
  <2>2. stream[r][i].seq \in Nat
    BY <2>1 DEF Events
  <2> QED
    BY <1>1, <1>3, <1>10, <2>2 DEF Phase, Counted
<1>11. Counted(r)'
  <2>1. ASSUME NEW i \in DOMAIN stream'[r], stream'[r][i].kind = "token"
        PROVE  stream'[r][i].seq < n + 1
    <3>1. CASE stream'[r][i] = [kind |-> "token", seq |-> n]
      BY <3>1, SMT
    <3>2. CASE i \in DOMAIN stream[r] /\ stream'[r][i] = stream[r][i]
      <4>1. stream[r][i].seq \in Nat /\ stream[r][i].seq < n
        BY <1>10, <2>1, <3>2
      <4>2. PICK s \in Nat : s = stream[r][i].seq /\ s < n
        BY <4>1
      <4>3. s < n + 1
        BY <4>2, SMT
      <4> QED
        BY <3>2, <4>2, <4>3
    <3> QED
      BY <1>1, <1>4, <3>1, <3>2 DEF Typed, Sending
  <2>2. emitted'[r] <= n + 1 /\ n + 1 <= MaxTokens
    BY <1>5, <1>9, SMT
  <2> QED
    BY <1>5, <2>1, <2>2 DEF Counted
<1>12. Phase(r)'
  BY <1>2, <1>7, <1>8, <1>11 DEF Phase
<1>13. listening[r] => Promise!Next
  <2> SUFFICES ASSUME listening[r]
               PROVE  Promise!Next
    OBVIOUS
  <2>1. Promise!LastKind(r) \in {"started", "token"}
    BY <1>1, <1>2 DEF Phase, Announced, Kind
  <2>2. Promise!Token(r, n)
    BY <1>4, <1>10, <2>1 DEF Promise!Token, Sending
  <2>3. n \in 0..MaxTokens
    BY <1>9, SMT
  <2> QED
    BY <2>2, <2>3 DEF Promise!Next
<1> QED
  BY <1>1, <1>4, <1>6, <1>12, <1>13, OthersAndOne DEF Typed, Sending

(* A terminal event comes from who lets go of the request.                 *)
LEMMA PhaseTerminal ==
    ASSUME StreamInv, PhaseInv, NEW r \in Requests,
           NEW kind \in Terminal, NEW n \in 0..MaxTokens, Emit(r, kind, n),
           \/ worker[r] \notin Over /\ worker' = [worker EXCEPT ![r] = "leaving"]
              /\ queue' = queue
           \/ r \in queue /\ queue' = queue \ {r} /\ worker' = worker,
           UNCHANGED <<call, listening, batch, current, dispatcher, position, emitted>>
    PROVE  PhaseInv' /\ (stream' = stream \/ Promise!Next)
<1>1. Typed /\ Streams /\ Sound(r) /\ Phase(r)
  BY DEF StreamInv, PhaseInv
<1>2. listening \in [Requests -> BOOLEAN] /\ Emit(r, kind, n)
  BY <1>1 DEF Typed
<1>3. Sending(r, kind, n)
  BY <1>1, <1>2, Sent
<1>4. /\ worker'[r] \in Over
      /\ \A q \in Requests \ {r} : worker'[q] = worker[q] /\ (q \in queue' => q \in queue)
      /\ r \notin queue' /\ r \notin batch
      /\ call[r] \notin {"idle", "admitted", "immediate", "starting", "queueing", "announced"}
      /\ r = current => dispatcher \notin {"starting", "spawning"}
  <2>1. CASE worker[r] \notin Over /\ worker' = [worker EXCEPT ![r] = "leaving"]
             /\ queue' = queue
    BY <1>1, <2>1 DEF Typed, Sound, Apart
  <2>2. CASE r \in queue /\ queue' = queue \ {r} /\ worker' = worker
    BY <1>1, <2>2 DEF Sound, Apart
  <2> QED
    BY <2>1, <2>2
<1>5. \A q \in Requests \ {r} : SameView(q)
  BY <1>3, <1>4 DEF SameView, Sending
<1>6. Announced(r)'
  BY <1>4 DEF Announced
<1>7. Counted(r)'
  <2>1. kind # "token"
    BY DEF Terminal
  <2>2. \A i \in DOMAIN stream'[r] :
           stream'[r][i].kind = "token" => stream'[r][i].seq < position[r]
    <3>1. Counted(r) /\ listening[r] \in BOOLEAN
      BY <1>1, <1>2 DEF Phase
    <3> QED
      BY <1>3, <2>1, <3>1, OldTokens
  <2>3. worker'[r] # "emitting"
    BY <1>4
  <2> QED
    BY <1>1, <2>2, <2>3 DEF Phase, Counted
<1>8. Phase(r)'
  BY <1>4, <1>6, <1>7 DEF Phase
<1>9. listening[r] => Promise!Next
  <2> SUFFICES ASSUME listening[r]
               PROVE  Promise!Next
    OBVIOUS
  <2>1. Promise!LastKind(r) \in {"queued", "started", "token"}
    BY <1>1 DEF Phase, Announced, Kind
  <2>2. Promise!End(r, n)
    BY <1>3, <2>1 DEF Promise!End, Terminal, Sending
  <2> QED
    BY <2>2 DEF Promise!Next
<1> QED
  BY <1>2, <1>3, <1>5, <1>8, <1>9, OthersAndOne DEF Sending

LEMMA PhaseEnd ==
    ASSUME StreamInv, PhaseInv, NEW r \in Requests,
           ReportError(r) \/ EmitCompleted(r) \/ EmitFailed(r)
    PROVE  PhaseInv' /\ (stream' = stream \/ Promise!Next)
<1>1. emitted[r] \in 0..MaxTokens
  <2>1. emitted[r] \in Nat /\ position[r] \in Nat /\ MaxTokens \in Nat
    BY ConfigAssumption DEF StreamInv, Numbered
  <2>2. emitted[r] <= position[r] /\ position[r] <= MaxTokens
    BY DEF PhaseInv, Phase, Counted
  <2>3. PICK a, b, c \in Nat : a = emitted[r] /\ b = position[r] /\ c = MaxTokens
    BY <2>1
  <2>4. a \in 0..c
    BY <2>2, <2>3, SMT
  <2> QED
    BY <2>3, <2>4
<1>2. Emit(r, "failed", emitted[r]) \/ Emit(r, "completed", emitted[r])
  BY DEF ReportError, EmitCompleted, EmitFailed
<1>3. worker[r] \notin Over /\ worker' = [worker EXCEPT ![r] = "leaving"]
  BY DEF ReportError, EmitCompleted, EmitFailed, WorkerStep
<1>4. UNCHANGED <<call, listening, queue, batch, current, dispatcher, position, emitted>>
  BY DEF ReportError, EmitCompleted, EmitFailed, admission, dispatching, ending
<1>5. "failed" \in Terminal /\ "completed" \in Terminal
  BY DEF Terminal
<1> QED
  BY <1>1, <1>2, <1>3, <1>4, <1>5, PhaseTerminal

LEMMA PhaseRemove ==
    ASSUME StreamInv, PhaseInv, NEW r \in Requests, RemoveQueued(r)
    PROVE  PhaseInv' /\ (stream' = stream \/ Promise!Next)
<1>1. UNCHANGED <<call, listening, batch, current, dispatcher, position, emitted, worker>>
  BY DEF RemoveQueued, working, ending
<1>2. CASE handle[r] \in queue
  <2>1. handle[r] \in Requests
    BY <1>2 DEF StreamInv, Typed
  <2>2. PICK h \in Requests : h = handle[r]
    BY <2>1
  <2>3. Emit(h, "failed", 0) /\ h \in queue /\ queue' = queue \ {h}
    BY <1>2, <2>2 DEF RemoveQueued
  <2>4. "failed" \in Terminal /\ 0 \in 0..MaxTokens
    BY ConfigAssumption, SMT DEF Terminal
  <2> QED
    BY <1>1, <2>3, <2>4, PhaseTerminal
<1>3. CASE handle[r] \notin queue
  <2>1. UNCHANGED <<stream, queue>>
    BY <1>3 DEF RemoveQueued
  <2>2. \A q \in Requests : SameView(q)
    BY <1>1, <2>1 DEF SameView
  <2> QED
    BY <2>1, <2>2, PhaseAside
<1> QED
  BY <1>2, <1>3

LEMMA PhaseDeregister ==
    ASSUME StreamInv, PhaseInv, NEW r \in Requests, Deregister(r)
    PROVE  PhaseInv' /\ stream' = stream
<1>1. /\ worker' = [worker EXCEPT ![r] = "gone"]
      /\ UNCHANGED <<call, listening, queue, batch, current, dispatcher, position, emitted,
                     stream>>
  BY DEF Deregister, WorkerStep, admission, dispatching, ending
<1>2. \A q \in Requests : worker'[q] = worker[q] \/ worker'[q] \in Over
  BY <1>1 DEF StreamInv, Typed
<1>3. \A q \in Requests : SameView(q)
  BY <1>1, <1>2 DEF SameView
<1> QED
  BY <1>1, <1>3, PhaseAside

LEMMA PhaseControl ==
    ASSUME StreamInv, PhaseInv,
           \/ \E r \in Requests : Cancel(r) \/ ClearActive(r) \/ StopToken(r)
           \/ \E m \in Modes : Configure(m)
           \/ Destruct \/ DetachCallbacks \/ GrabWorkers \/ JoinWorkers
           \/ UNCHANGED vars
    PROVE  PhaseInv' /\ stream' = stream
<1>1. UNCHANGED <<call, batch, current, dispatcher, worker, position, emitted, stream>>
  BY DEF Cancel, ClearActive, StopToken, Configure, Destruct, DetachCallbacks,
     GrabWorkers,
         JoinWorkers, vars, admission, dispatching, working
<1>2. /\ queue' \subseteq queue
      /\ listening' = listening \/ listening' = [q \in Requests |-> FALSE]
  BY DEF Cancel, ClearActive, StopToken, Configure, Destruct, DetachCallbacks,
     GrabWorkers,
         JoinWorkers, vars, dispatching, ending
<1>3. \A q \in Requests : SameView(q)
  BY <1>1, <1>2 DEF SameView
<1> QED
  BY <1>1, <1>3, PhaseAside

LEMMA PhaseStep ==
    ASSUME StreamInv, PhaseInv, [RuntimeNext]_vars
    PROVE  PhaseInv' /\ (stream' = stream \/ Promise!Next)
<1>1. CASE \E r \in Requests : Admit(r) \/ Generate(r)
  <2>1. PICK r \in Requests : Admit(r) \/ Generate(r)
    BY <1>1
  <2> QED
    BY <2>1, PhaseAdmit, PhaseCall, PhasePush, PhaseSpawnNow,
       PhaseAnnounce DEF Generate
<1>2. CASE \E r \in Requests : Work(r) \/ CallRemote(r) \/ LoseCall(r)
  <2>1. PICK r \in Requests : Work(r) \/ CallRemote(r) \/ LoseCall(r)
    BY <1>2
  <2> QED
    BY <2>1, PhaseCompute, PhaseToken, PhaseEnd, PhaseDeregister DEF Work
<1>3. CASE Dispatch
  BY <1>3, PhaseTake, PhasePick, PhaseSpawn, PhaseDispatchStarted DEF Dispatch
<1>4. CASE \E r \in Requests : RemoveQueued(r)
  BY <1>4, PhaseRemove
<1>5. CASE \/ \E r \in Requests : Cancel(r) \/ ClearActive(r) \/ StopToken(r)
           \/ \E m \in Modes : Configure(m)
           \/ Destruct \/ DetachCallbacks \/ GrabWorkers \/ JoinWorkers
           \/ UNCHANGED vars
  BY <1>5, PhaseControl
<1> QED
  BY <1>1, <1>2, <1>3, <1>4, <1>5 DEF RuntimeNext

LEMMA PhaseInitially == Init => PhaseInv
<1> SUFFICES ASSUME Init, NEW r \in Requests
             PROVE  Phase(r)
  BY DEF PhaseInv
<1>1. stream[r] = <<>> /\ ~listening[r] /\ position[r] = 0 /\ emitted[r] = 0
      /\ worker[r] = "none"
  BY DEF Init
<1>2. Counted(r)
  BY <1>1, ConfigAssumption, SMT DEF Counted
<1> QED
  BY <1>1, <1>2 DEF Phase

LEMMA AlwaysPhaseInv == RuntimeSpec => [](StreamInv /\ PhaseInv)
<1>1. Init => StreamInv /\ PhaseInv
  BY StreamInitially, PhaseInitially
<1>2. StreamInv /\ PhaseInv /\ [RuntimeNext]_vars => StreamInv' /\ PhaseInv'
  BY StreamStep, PhaseStep
<1> QED
  BY <1>1, <1>2, PTL DEF RuntimeSpec

(***************************************************************************)
(* The pipeline implements RequestStream: for any number of requests, in   *)
(* every mode and with any cancellations, what generate(), dispatcher,     *)
(* workers and remove_queued() send a callback between them keeps the      *)
(* order of one stream, with rising token numbers and nothing after the    *)
(* end.                                                                    *)
(***************************************************************************)
THEOREM PipelineKeepsPromise == RuntimeSpec => IsRequestStream
<1>1. Init => Promise!Init
  BY DEF Init, Promise!Init
<1>2. StreamInv /\ PhaseInv /\ [RuntimeNext]_vars => [Promise!Next]_stream
  BY PhaseStep
<1> QED
  BY <1>1, <1>2, AlwaysPhaseInv, PTL DEF RuntimeSpec, IsRequestStream,
     Promise!Spec

-------------------------------------------------------------------------------
(***************************************************************************)
(* The types, with what keeps First and Last of the queue and the batch    *)
(* defined: dispatcher and queue never run on nothing, and finitely many   *)
(* arrival numbers have been given, each once.  This holds with replan()   *)
(* as well.                                                                *)
(***************************************************************************)
Given == {r \in Requests : arrival[r] # 0}

Arrivals ==
    /\ IsFiniteSet(Given)
    /\ \A p, q \in Given : arrival[p] = arrival[q] => p = q
    /\ \A p \in Given : arrival[p] <= Cardinality(Given)
    /\ \A p \in Given : call[p] \in {"pushed", "pointed", "returned"}
    /\ queue \subseteq Given

TypeInv ==
    /\ TypeOK
    /\ HandsOf
    /\ Arrivals
    /\ replan.step # "idle" => replan.request \in Requests

(* pending_queue_.back(): as arrival numbers are bounded there is a last.  *)
LEMMA LastIsMember ==
    ASSUME arrival \in [Requests -> Nat], NEW S \in SUBSET Requests, S # {},
           NEW n \in Nat, \A q \in S : arrival[q] <= n
    PROVE  Last(S) \in S
<1> DEFINE T == {n - arrival[r] : r \in S}
<1>1. T \subseteq Nat /\ T # {}
  BY SMT
<1>2. \E x \in T : \A y \in T : ~(<<y, x>> \in OpToRel(<, Nat))
  <2> HIDE DEF T
  <2> QED
    BY <1>1, WFMin, NatLessThanWellFounded, ZenonT(30)
<1>3. PICK x \in T : \A y \in T : ~(y < x)
  <2> HIDE DEF T
  <2> QED
    BY <1>1, <1>2, ZenonT(30) DEF OpToRel
<1>4. PICK r \in S : n - arrival[r] = x
  BY <1>3
<1>5. ASSUME NEW q \in S
      PROVE  arrival[q] <= arrival[r]
  <2>1. n - arrival[q] \in T
    OBVIOUS
  <2>2. ~(n - arrival[q] < n - arrival[r])
    BY <1>3, <1>4, <2>1
  <2>3. arrival[q] \in Nat /\ arrival[r] \in Nat
    OBVIOUS
  <2> QED
    BY <2>2, <2>3, SMT
<1> QED
  BY <1>5 DEF Last

LEMMA SendTyped ==
    ASSUME TypeOK, NEW r \in Requests, NEW kind \in EventKinds, NEW seq \in Nat,
           Emit(r, kind, seq)
    PROVE  stream' \in [Requests -> Seq(Events)]
<1>1. [kind |-> kind, seq |-> seq] \in Events
  BY DEF Events
<1>2. CASE listening[r]
  <2>1. stream \in [Requests -> Seq(Events)]
    BY DEF TypeOK
  <2>2. Append(stream[r], [kind |-> kind, seq |-> seq]) \in Seq(Events)
    BY <1>1, <2>1, SMT
  <2> QED
    BY <1>2, <2>1, <2>2 DEF Emit
<1>3. CASE ~listening[r]
  BY <1>3 DEF Emit, TypeOK
<1> QED
  BY <1>2, <1>3

LEMMA TypeInitially == Init => TypeInv
<1> SUFFICES ASSUME Init PROVE TypeInv
  OBVIOUS
<1>1. Given = {}
  BY DEF Given, Init
<1>2. Arrivals
  <2>1. queue = {} /\ IsFiniteSet(Given)
    BY <1>1, FS_EmptySet DEF Init
  <2> QED
    BY <1>1, <2>1 DEF Arrivals
<1>3. TypeOK
  <2>1. /\ arrival \in [Requests -> Nat] /\ position \in [Requests -> Nat]
        /\ emitted \in [Requests -> Nat] /\ history \in [Requests -> Nat]
        /\ late \in [Requests -> Nat]
        /\ reconfigs \in Nat /\ replans \in Nat /\ cancels \in Nat
    BY DEF Init
  <2>2. /\ stream \in [Requests -> Seq(Events)]
        /\ replan \in [request : Requests \union {"none"},
                       step : {"idle", "announcing", "resuming", "replaying"}, next : Nat]
    <3>1. stream = [r \in Requests |-> <<>>] /\ <<>> \in Seq(Events)
      BY SMT DEF Init
    <3>2. replan = [request |-> "none", step |-> "idle", next |-> 0]
      BY DEF Init, NoReplan
    <3> QED
      BY <3>1, <3>2
  <2>3. /\ call \in [Requests -> CallStates] /\ worker \in [Requests -> WorkerStates]
        /\ dispatcher \in DispatcherStates
        /\ handle \in [Requests -> Requests \union {"none", "wild"}]
        /\ cancelling \in [Requests -> {"none", "stopped", "removing", "done"}]
    BY DEF Init, CallStates, DispatcherStates, WorkerStates
  <2>4. /\ active \in [Requests -> BOOLEAN] /\ stopped \in [Requests -> BOOLEAN]
        /\ listening \in [Requests -> BOOLEAN]
    BY DEF Init
  <2>5. /\ path \in [Requests -> Paths] /\ long \subseteq Requests /\ mode \in Modes
        /\ queue \subseteq Requests /\ batch \subseteq Requests /\ table \subseteq Requests
        /\ grabbed \subseteq Requests /\ current = "none" /\ life = "up"
    BY DEF Init
  <2> QED
    BY <2>1, <2>2, <2>3, <2>4, <2>5 DEF TypeOK
<1>4. HandsOf /\ replan.step = "idle"
  BY DEF Init, HandsOf, NoReplan
<1> QED
  BY <1>2, <1>3, <1>4 DEF TypeInv

(* Every step but push_back leaves the arrival numbers alone.              *)
LEMMA SameArrivals ==
    ASSUME Arrivals, arrival' = arrival, queue' \subseteq queue,
           \A p \in Requests : call[p] \in {"pushed", "pointed", "returned"}
                                  => call'[p] \in {"pushed", "pointed", "returned"}
    PROVE  Arrivals'
<1>1. Given' = Given
  BY DEF Given
<1> QED
  BY <1>1 DEF Arrivals, Given

LEMMA TypeCall ==
    ASSUME TypeInv, NEW r \in Requests,
           \/ Admit(r) \/ ReadMode(r) \/ SpawnNow(r) \/ RecordNow(r) \/ MakeHandle(r)
           \/ PointAtBack(r)
    PROVE  TypeInv'
<1>1. TypeOK /\ HandsOf /\ Arrivals
  BY DEF TypeInv
<1>2. Admit(r) \/ ReadMode(r) \/ SpawnNow(r) \/ RecordNow(r) \/ MakeHandle(r) => TypeOK'
  <2> USE DEF CallStep, admission, dispatching, working, ending, limits
  <2>1. CASE Admit(r)
    BY <1>1, <2>1 DEF TypeOK, Admit, CallStates
  <2>2. CASE ReadMode(r)
    BY <1>1, <2>2 DEF TypeOK, ReadMode, CallStates
  <2>3. CASE SpawnNow(r)
    BY <1>1, <2>3 DEF TypeOK, SpawnNow, CallStates, WorkerStates
  <2>4. CASE RecordNow(r)
    BY <1>1, <2>4 DEF TypeOK, RecordNow, CallStates
  <2>5. CASE MakeHandle(r)
    BY <1>1, <2>5 DEF TypeOK, MakeHandle, CallStates
  <2> QED
    BY <2>1, <2>2, <2>3, <2>4, <2>5
<1>3. PointAtBack(r) => TypeOK'
  <2> SUFFICES ASSUME PointAtBack(r)
               PROVE  TypeOK'
    OBVIOUS
  <2>1. queue # {} => Last(queue) \in Requests
    <3>1. Cardinality(Given) \in Nat
      BY <1>1, FS_CardinalityType DEF Arrivals
    <3>2. queue \in SUBSET Requests /\ arrival \in [Requests -> Nat]
      BY <1>1 DEF TypeOK
    <3>3. \A q \in queue : arrival[q] <= Cardinality(Given)
      BY <1>1 DEF Arrivals
    <3> QED
      BY <3>1, <3>2, <3>3, LastIsMember
  <2> QED
    BY <1>1, <2>1 DEF TypeOK, PointAtBack, CallStep, CallStates, dispatching,
       working, ending,
                      limits
<1>4. UNCHANGED <<arrival, queue, batch, current, dispatcher, replan>>
  BY DEF Admit, ReadMode, SpawnNow, RecordNow, MakeHandle, PointAtBack,
     dispatching
<1>5. \A p \in Requests : call[p] \in {"pushed", "pointed", "returned"}
                             => call'[p] \in {"pushed", "pointed", "returned"}
  BY <1>1 DEF Admit, ReadMode, SpawnNow, RecordNow, MakeHandle, PointAtBack,
     CallStep, TypeOK
<1>6. HandsOf' /\ Arrivals'
  BY <1>1, <1>4, <1>5, SameArrivals DEF HandsOf
<1> QED
  BY <1>2, <1>3, <1>4, <1>6 DEF TypeInv

LEMMA TypeAnnounce ==
    ASSUME TypeInv, NEW r \in Requests, AnnounceStarted(r) \/ AnnounceQueued(r)
    PROVE  TypeInv'
<1>1. TypeOK /\ HandsOf /\ Arrivals
  BY DEF TypeInv
<1>2. stream' \in [Requests -> Seq(Events)]
  <2>1. Emit(r, "started", 0) \/ Emit(r, "queued", 0)
    BY DEF AnnounceStarted, AnnounceQueued
  <2>2. "started" \in EventKinds /\ "queued" \in EventKinds
    BY DEF EventKinds
  <2> QED
    BY <1>1, <2>1, <2>2, SendTyped
<1>3. /\ call' = [call EXCEPT ![r] = "starting"] \/ call' = [call EXCEPT ![r] = "announced"]
      /\ call[r] \in {"immediate", "queueing"}
  BY DEF AnnounceStarted, AnnounceQueued, CallStep
<1>4. UNCHANGED <<handle, path, long, arrival, dispatching, working, ending, limits, active,
                  stopped, cancelling, replan>>
  BY DEF AnnounceStarted, AnnounceQueued
<1>5. TypeOK'
  BY <1>1, <1>2, <1>3, <1>4 DEF TypeOK, CallStates, dispatching, working,
     ending, limits
<1>6. \A p \in Requests : call[p] \in {"pushed", "pointed", "returned"}
                             => call'[p] \in {"pushed", "pointed", "returned"}
  BY <1>1, <1>3 DEF TypeOK
<1>7. HandsOf' /\ Arrivals'
  BY <1>1, <1>4, <1>6, SameArrivals DEF HandsOf, dispatching
<1> QED
  BY <1>4, <1>5, <1>7 DEF TypeInv

(* push_back gives the next number, which nobody has.                      *)
(* Assigning to one entry of a function, and counting in one.              *)
LEMMA Updated ==
    ASSUME NEW T, NEW f \in [Requests -> T], NEW r \in Requests, NEW v \in T
    PROVE  [f EXCEPT ![r] = v] \in [Requests -> T]
BY ZenonT(20)

LEMMA CountedUp ==
    ASSUME NEW f \in [Requests -> Nat], NEW g, NEW r \in Requests,
           g = f \/ g = [f EXCEPT ![r] = @ + 1]
    PROVE  g \in [Requests -> Nat]
<1>1. f[r] + 1 \in Nat
  BY SMT
<1> QED
  BY <1>1, Updated

LEMMA TypePush ==
    ASSUME TypeInv, NEW r \in Requests, Push(r)
    PROVE  TypeInv'
<1>1. TypeOK /\ HandsOf /\ Arrivals
  BY DEF TypeInv
<1>2. PICK n \in Nat : n = Cardinality(Given)
  BY <1>1, FS_CardinalityType DEF Arrivals
<1>3. /\ call[r] = "announced"
      /\ call' = [call EXCEPT ![r] = "pushed"]
      /\ queue' = queue \union {r}
      /\ arrival' = [arrival EXCEPT ![r] = 1 + n]
      /\ UNCHANGED <<handle, path, long, dispatcher, batch, current, mode, working, ending,
                     limits, active, stopped, stream, cancelling, replan>>
  BY <1>2 DEF Push, CallStep, Given
<1>4. TypeOK'
  <2>1. call' \in [Requests -> CallStates]
    BY <1>1, <1>3 DEF TypeOK, CallStates
  <2>2. arrival' \in [Requests -> Nat] /\ queue' \subseteq Requests
    <3>1. arrival \in [Requests -> Nat] /\ queue \subseteq Requests
      BY <1>1 DEF TypeOK
    <3>2. 1 + n \in Nat
      BY <1>2, SMT
    <3> QED
      BY <1>3, <3>1, <3>2, Updated
  <2> QED
    BY <1>1, <1>3, <2>1, <2>2 DEF TypeOK, working, ending, limits
<1>5. /\ call'[r] = "pushed" /\ arrival'[r] = n + 1 /\ r \notin Given
      /\ \A q \in Requests \ {r} : call'[q] = call[q] /\ arrival'[q] = arrival[q]
  <2>1. call \in [Requests -> CallStates] /\ arrival \in [Requests -> Nat]
    BY <1>1 DEF TypeOK
  <2>2. r \notin Given
    BY <1>1, <1>3 DEF Arrivals
  <2> QED
    BY <1>3, <2>1, <2>2, SMT
<1>6. Given' = Given \union {r}
  <2>1. \A q \in Requests : arrival'[q] # 0 <=> arrival[q] # 0 \/ q = r
    BY <1>5, SMT
  <2> QED
    BY <2>1 DEF Given
<1>7. IsFiniteSet(Given') /\ Cardinality(Given') = n + 1
  BY <1>1, <1>2, <1>5, <1>6, FS_AddElement DEF Arrivals
<1>8. \A q \in Given : /\ q \in Requests \ {r} /\ arrival[q] \in Nat /\ arrival[q] <= n
                       /\ arrival'[q] = arrival[q] /\ call'[q] = call[q]
  BY <1>1, <1>2, <1>5 DEF TypeOK, Arrivals, Given
<1>9. Arrivals'
  <2>1. \A p, q \in Given' : arrival'[p] = arrival'[q] => p = q
    <3>1. \A q \in Given : arrival'[q] # arrival'[r]
      BY <1>5, <1>8, SMT
    <3>2. \A p, q \in Given : arrival'[p] = arrival'[q] => p = q
      BY <1>1, <1>8 DEF Arrivals
    <3> QED
      BY <1>6, <3>1, <3>2
  <2>2. \A p \in Given' : arrival'[p] <= n + 1
    <3>1. \A q \in Given : arrival'[q] <= n + 1
      BY <1>8, SMT
    <3>2. arrival'[r] <= n + 1
      BY <1>5, SMT
    <3> QED
      BY <1>6, <3>1, <3>2
  <2>3. \A p \in Given' : call'[p] \in {"pushed", "pointed", "returned"}
    BY <1>1, <1>5, <1>6, <1>8 DEF Arrivals
  <2>4. queue' \subseteq Given'
    BY <1>1, <1>3, <1>6 DEF Arrivals
  <2> QED
    BY <1>7, <2>1, <2>2, <2>3, <2>4 DEF Arrivals
<1>10. HandsOf'
  BY <1>1, <1>3 DEF HandsOf
<1> QED
  BY <1>3, <1>4, <1>9, <1>10 DEF TypeInv

LEMMA TypeDispatch ==
    ASSUME TypeInv, Dispatch
    PROVE  TypeInv'
<1>1. TypeOK /\ HandsOf /\ Arrivals
  BY DEF TypeInv
<1>2. /\ \A S \in SUBSET Requests : S # {} => First(S) \in S
      /\ queue \in SUBSET Requests /\ batch \in SUBSET Requests
  BY <1>1, FirstIsMember DEF TypeOK
<1>3. UNCHANGED <<admission, mode, position, emitted, history, late, ending, limits, active,
                  stopped, cancelling, replan>>
  BY DEF Dispatch, TakeFront, GatherBatch, FillBatch, DropInactive,
     PickActive, DispatchStarted,
         DispatchSpawn, DispatchRecord, DispatcherExit, working
<1>4. /\ queue' \subseteq queue
      /\ batch' \subseteq Requests
      /\ dispatcher' \in DispatcherStates
      /\ current' \in Requests \union {"none"}
      /\ HandsOf'
      /\ worker' \in [Requests -> WorkerStates]
      /\ table' \subseteq Requests
      /\ stream' \in [Requests -> Seq(Events)]
  <2> USE DEF DispatcherStates, HandsOf
  <2>1. CASE TakeFront
    <3>1. First(queue) \in queue
      BY <1>2, <2>1 DEF TakeFront
    <3>2. UNCHANGED <<worker, table, stream, current>>
      BY <2>1 DEF TakeFront, working
    <3> QED
      BY <1>1, <1>2, <2>1, <3>1, <3>2 DEF TakeFront, TypeOK
  <2>2. CASE GatherBatch
    <3>1. UNCHANGED <<worker, table, stream, current>>
      BY <2>2 DEF GatherBatch, working
    <3> QED
      BY <1>1, <1>2, <2>2, <3>1 DEF GatherBatch, Gathered, TypeOK
  <2>3. CASE FillBatch
    <3>1. UNCHANGED <<worker, table, stream, current>>
      BY <2>3 DEF FillBatch, working
    <3> QED
      BY <1>1, <1>2, <2>3, <3>1 DEF FillBatch, Gathered, TypeOK
  <2>4. CASE DropInactive
    <3>1. UNCHANGED <<worker, table, stream, current, queue>>
      BY <2>4 DEF DropInactive, working
    <3> QED
      BY <1>1, <1>2, <2>4, <3>1 DEF DropInactive, After, TypeOK
  <2>5. CASE PickActive
    <3>1. First(batch) \in Requests
      BY <1>1, <1>2, <2>5 DEF PickActive
    <3>2. UNCHANGED <<worker, table, stream, queue>>
      BY <2>5 DEF PickActive, working
    <3>3. First(batch) # "none"
      BY <3>1, RequestsAssumption
    <3> QED
      BY <1>1, <1>2, <2>5, <3>1, <3>2, <3>3 DEF PickActive, TypeOK
  <2>6. CASE DispatchStarted
    <3>1. current \in Requests /\ "started" \in EventKinds
      BY <1>1, <2>6 DEF DispatchStarted, TypeOK, EventKinds
    <3>2. stream' \in [Requests -> Seq(Events)]
      BY <1>1, <2>6, <3>1, SendTyped DEF DispatchStarted
    <3> QED
      BY <1>1, <2>6, <3>2 DEF DispatchStarted, TypeOK, working
  <2>7. CASE DispatchSpawn
    <3>1. worker' \in [Requests -> WorkerStates]
      BY <1>1, <2>7 DEF DispatchSpawn, TypeOK, WorkerStates
    <3> QED
      BY <1>1, <2>7, <3>1 DEF DispatchSpawn, TypeOK
  <2>8. CASE DispatchRecord
    <3>1. current \in Requests
      BY <1>1, <2>8 DEF DispatchRecord, TypeOK
    <3> QED
      BY <1>1, <2>8, <3>1 DEF DispatchRecord, After, TypeOK
  <2>9. CASE DispatcherExit
    BY <1>1, <2>9 DEF DispatcherExit, TypeOK, working
  <2> QED
    BY <2>1, <2>2, <2>3, <2>4, <2>5, <2>6, <2>7, <2>8, <2>9 DEF Dispatch
<1>5. TypeOK'
  BY <1>1, <1>3, <1>4 DEF TypeOK, admission, ending, limits
<1>6. Arrivals'
  BY <1>1, <1>3, <1>4, SameArrivals DEF admission
<1> QED
  BY <1>3, <1>4, <1>5, <1>6 DEF TypeInv

LEMMA TypeWork ==
    ASSUME TypeInv, NEW r \in Requests, Work(r) \/ CallRemote(r) \/ LoseCall(r)
    PROVE  TypeInv'
<1>1. TypeOK /\ HandsOf /\ Arrivals
  BY DEF TypeInv
<1>2. UNCHANGED <<admission, dispatching, ending, limits, stopped, cancelling, replan>>
  BY DEF Work, ComputeToken, EmitToken, SkipToken, PassFails, ReportError,
     CannotLoad, LeaveLoop,
         Judge, EmitCompleted, EmitFailed, Deregister, CallRemote, LoseCall
<1>3. /\ table' \subseteq table
      /\ position' = position \/ position' = [position EXCEPT ![r] = @ + 1]
      /\ emitted' = emitted \/ emitted' = [emitted EXCEPT ![r] = @ + 1]
      /\ history' = history \/ history' = [history EXCEPT ![r] = @ + 1]
      /\ late' = late \/ late' = [late EXCEPT ![r] = @ + 1]
      /\ active' = active \/ active' = [active EXCEPT ![r] = FALSE]
  BY DEF Work, ComputeToken, EmitToken, SkipToken, PassFails, ReportError,
     CannotLoad, LeaveLoop,
         Judge, EmitCompleted, EmitFailed, Deregister, CallRemote, LoseCall
<1>4. \E w \in WorkerStates : worker' = [worker EXCEPT ![r] = w]
  <2>1. \E from : \E to \in WorkerStates : WorkerStep(r, from, to)
    BY DEF Work, ComputeToken, EmitToken, SkipToken, PassFails, ReportError,
       CannotLoad,
           LeaveLoop, Judge, EmitCompleted, EmitFailed, Deregister, CallRemote, LoseCall,
           WorkerStates
  <2> QED
    BY <2>1 DEF WorkerStep
<1>5. /\ position' \in [Requests -> Nat] /\ emitted' \in [Requests -> Nat]
      /\ history' \in [Requests -> Nat] /\ late' \in [Requests -> Nat]
  <2>1. /\ position \in [Requests -> Nat] /\ emitted \in [Requests -> Nat]
        /\ history \in [Requests -> Nat] /\ late \in [Requests -> Nat]
    BY <1>1 DEF TypeOK
  <2> QED
    BY <1>3, <2>1, CountedUp
<1>6. /\ active' \in [Requests -> BOOLEAN] /\ table' \subseteq Requests
      /\ worker' \in [Requests -> WorkerStates]
  <2>1. /\ active \in [Requests -> BOOLEAN] /\ table \subseteq Requests
        /\ worker \in [Requests -> WorkerStates]
    BY <1>1 DEF TypeOK
  <2>2. active' \in [Requests -> BOOLEAN]
    <3>1. FALSE \in BOOLEAN
      OBVIOUS
    <3>2. [active EXCEPT ![r] = FALSE] \in [Requests -> BOOLEAN]
      BY <2>1, <3>1, Updated
    <3> QED
      BY <1>3, <2>1, <3>2
  <2>3. worker' \in [Requests -> WorkerStates]
    BY <1>4, <2>1, Updated
  <2> QED
    BY <1>3, <2>1, <2>2, <2>3
<1>7. stream' \in [Requests -> Seq(Events)]
  <2>1. \/ stream' = stream
        \/ Emit(r, "token", position[r])
        \/ Emit(r, "failed", emitted[r])
        \/ Emit(r, "completed", emitted[r])
    BY DEF Work, ComputeToken, EmitToken, SkipToken, PassFails, ReportError,
       CannotLoad,
           LeaveLoop, Judge, EmitCompleted, EmitFailed, Deregister, CallRemote, LoseCall
  <2>2. {"token", "failed", "completed"} \subseteq EventKinds
    BY DEF EventKinds, Terminal
  <2>3. position[r] \in Nat /\ emitted[r] \in Nat /\ stream \in [Requests -> Seq(Events)]
    BY <1>1 DEF TypeOK
  <2> QED
    BY <1>1, <2>1, <2>2, <2>3, SendTyped
<1>8. TypeOK'
  BY <1>1, <1>2, <1>5, <1>6, <1>7 DEF TypeOK, admission, dispatching, ending,
     limits
<1>9. HandsOf' /\ Arrivals'
  BY <1>1, <1>2, SameArrivals DEF HandsOf, admission, dispatching
<1> QED
  BY <1>2, <1>8, <1>9 DEF TypeInv

LEMMA TypeCancel ==
    ASSUME TypeInv, NEW r \in Requests,
           Cancel(r) \/ ClearActive(r) \/ RemoveQueued(r) \/ StopToken(r)
    PROVE  TypeInv'
<1>1. TypeOK /\ HandsOf /\ Arrivals
  BY DEF TypeInv
<1>2. /\ UNCHANGED <<call, path, long, arrival, dispatcher, batch, current, mode, working, ending,
                     reconfigs, replans, replan>>
      /\ queue' \subseteq queue
      /\ cancels' = cancels \/ cancels' = cancels + 1
  BY DEF Cancel, ClearActive, RemoveQueued, StopToken, admission, dispatching,
     limits
<1>3. handle' \in [Requests -> Requests \union {"none", "wild"}]
  <2>1. \/ handle' = handle
        \/ handle' = [q \in Requests |-> IF call[q] = "pointed" THEN "wild" ELSE handle[q]]
    BY DEF Cancel, ClearActive, RemoveQueued, StopToken, DisturbPointers,
       admission
  <2>2. handle \in [Requests -> Requests \union {"none", "wild"}]
    BY <1>1 DEF TypeOK
  <2> QED
    BY <2>1, <2>2
<1>4. active' \in [Requests -> BOOLEAN]
  BY <1>1 DEF Cancel, ClearActive, RemoveQueued, StopToken, TypeOK
<1>5. stopped' \in [Requests -> BOOLEAN]
  BY <1>1 DEF Cancel, ClearActive, RemoveQueued, StopToken, TypeOK
<1>6. cancelling' \in [Requests -> {"none", "stopped", "removing", "done"}]
  BY <1>1 DEF Cancel, ClearActive, RemoveQueued, StopToken, TypeOK
<1>7. stream' \in [Requests -> Seq(Events)]
  <2>1. CASE RemoveQueued(r) /\ handle[r] \in queue
    <3>1. handle[r] \in Requests /\ "failed" \in EventKinds
      BY <1>1, <2>1 DEF TypeOK, EventKinds, Terminal
    <3>2. Emit(handle[r], "failed", 0)
      BY <2>1 DEF RemoveQueued
    <3> QED
      BY <1>1, <3>1, <3>2, SendTyped
  <2>2. CASE ~(RemoveQueued(r) /\ handle[r] \in queue)
    <3>1. stream' = stream
      BY <2>2 DEF Cancel, ClearActive, RemoveQueued, StopToken
    <3> QED
      BY <1>1, <3>1 DEF TypeOK
  <2> QED
    BY <2>1, <2>2
<1>8. TypeOK'
  <2>1. cancels' \in Nat /\ queue' \subseteq Requests
    <3>1. cancels \in Nat /\ queue \subseteq Requests
      BY <1>1 DEF TypeOK
    <3> QED
      BY <1>2, <3>1, SMT
  <2>2. UNCHANGED <<call, path, long, arrival, dispatcher, batch, current, mode, worker, table,
                    position, emitted, history, late, listening, life, grabbed, reconfigs,
                    replans, replan>>
    BY <1>2 DEF working, ending
  <2> QED
    BY <1>1, <1>3, <1>4, <1>5, <1>6, <1>7, <2>1, <2>2 DEF TypeOK
<1>9. HandsOf' /\ Arrivals'
  BY <1>1, <1>2, SameArrivals DEF HandsOf
<1> QED
  BY <1>2, <1>8, <1>9 DEF TypeInv

LEMMA TypeReplan ==
    ASSUME TypeInv, Replan
    PROVE  TypeInv'
<1>1. TypeOK /\ HandsOf /\ Arrivals /\ (replan.step # "idle" => replan.request \in Requests)
  BY DEF TypeInv
<1>2. /\ UNCHANGED <<admission, dispatching, working, ending, reconfigs, cancels, stopped,
                     cancelling>>
      /\ replans' = replans \/ replans' = replans + 1
  BY DEF Replan, ReplanBegin, ReplanAnnounce, ReplanResume, ReplanReplay,
     ReplanComplete, limits
<1>3. /\ replan.request \in Requests \union {"none"} /\ replan.next \in Nat
      /\ replan = [request |-> replan.request, step |-> replan.step, next |-> replan.next]
      /\ replan.step \in {"idle", "announcing", "resuming", "replaying"}
  BY <1>1 DEF TypeOK
<1>4. PICK R, X, N : replan' = [request |-> R, step |-> X, next |-> N]
                     /\ X \in {"idle", "announcing", "resuming", "replaying"}
                     /\ N \in Nat
                     /\ R \in Requests \union {"none"}
                     /\ (X # "idle" => R \in Requests)
  <2>1. CASE \E r \in Requests : ReplanBegin(r)
    BY <2>1 DEF ReplanBegin
  <2>2. CASE ReplanAnnounce
    <3>1. replan' = [request |-> replan.request, step |-> "resuming", next |-> replan.next]
          /\ replan.step # "idle"
      BY <1>3, <2>2 DEF ReplanAnnounce, ReplanStep
    <3> QED
      BY <1>1, <1>3, <3>1
  <2>3. CASE ReplanResume
    <3>1. replan' = [request |-> replan.request, step |-> "replaying", next |-> replan.next]
          /\ replan.step # "idle"
      BY <1>3, <2>3 DEF ReplanResume, ReplanStep
    <3> QED
      BY <1>1, <1>3, <3>1
  <2>4. CASE ReplanReplay
    <3>1. replan' = [request |-> replan.request, step |-> "replaying", next |-> replan.next + 1]
          /\ replan.step # "idle" /\ replan.next + 1 \in Nat
      BY <1>3, <2>4, SMT DEF ReplanReplay
    <3> QED
      BY <1>1, <1>3, <3>1
  <2>5. CASE ReplanComplete
    BY <2>5 DEF ReplanComplete, NoReplan
  <2> QED
    BY <2>1, <2>2, <2>3, <2>4, <2>5 DEF Replan
<1>5. active' \in [Requests -> BOOLEAN]
  BY <1>1 DEF Replan, ReplanBegin, ReplanAnnounce, ReplanResume, ReplanReplay,
     ReplanComplete,
              TypeOK
<1>6. stream' \in [Requests -> Seq(Events)]
  <2>1. CASE stream' = stream
    BY <1>1, <2>1 DEF TypeOK
  <2>2. CASE ReplanAnnounce \/ ReplanReplay \/ ReplanComplete
    <3>1. replan.request \in Requests
      BY <1>1, <2>2 DEF ReplanAnnounce, ReplanReplay, ReplanComplete,
         ReplanStep
    <3>2. emitted[replan.request] \in Nat
      BY <1>1, <3>1 DEF TypeOK
    <3>3. {"token", "replanning", "completed"} \subseteq EventKinds
      BY DEF EventKinds, Terminal
    <3>4. \/ Emit(replan.request, "replanning", emitted[replan.request])
          \/ Emit(replan.request, "token", replan.next)
          \/ Emit(replan.request, "completed", emitted[replan.request])
      BY <2>2 DEF ReplanAnnounce, ReplanReplay, ReplanComplete
    <3> QED
      BY <1>1, <1>3, <3>1, <3>2, <3>3, <3>4, SendTyped
  <2>3. CASE ReplanResume \/ \E r \in Requests : ReplanBegin(r)
    BY <2>1, <2>3 DEF ReplanResume, ReplanBegin
  <2> QED
    BY <2>2, <2>3 DEF Replan
<1>7. TypeOK'
  <2>1. replans' \in Nat
    <3>1. replans \in Nat
      BY <1>1 DEF TypeOK
    <3> QED
      BY <1>2, <3>1, SMT
  <2>2. replan' \in [request : Requests \union {"none"},
                     step : {"idle", "announcing", "resuming", "replaying"}, next : Nat]
    BY <1>4
  <2>3. UNCHANGED <<call, handle, path, long, queue, arrival, dispatcher, batch, current, mode,
                    worker, table, position, emitted, history, late, listening, life, grabbed,
                    reconfigs, cancels, stopped, cancelling>>
    BY <1>2 DEF admission, dispatching, working, ending
  <2> QED
    BY <1>1, <1>5, <1>6, <2>1, <2>2, <2>3 DEF TypeOK
<1>8. HandsOf' /\ Arrivals'
  BY <1>1, <1>2, SameArrivals DEF HandsOf, admission, dispatching
<1> QED
  BY <1>4, <1>7, <1>8 DEF TypeInv

LEMMA TypeControl ==
    ASSUME TypeInv,
           \/ \E m \in Modes : Configure(m)
           \/ Destruct \/ DetachCallbacks \/ GrabWorkers \/ JoinWorkers
           \/ UNCHANGED vars
    PROVE  TypeInv'
<1>1. TypeOK /\ HandsOf /\ Arrivals
  BY DEF TypeInv
<1>2. /\ UNCHANGED <<admission, dispatcher, batch, current, worker, position, emitted, history,
                     late, stopped, stream, cancelling, replan, replans, cancels>>
      /\ queue' \subseteq queue
      /\ mode' \in Modes \union {mode}
      /\ reconfigs' = reconfigs \/ reconfigs' = reconfigs + 1
      /\ life' \in {"stopping", "detached", "joining", "destroyed"} \union {life}
  BY DEF Configure, Destruct, DetachCallbacks, GrabWorkers, JoinWorkers, vars,
     dispatching,
         working, ending, limits
<1>3. /\ table' = table \/ table' = {}
      /\ grabbed' = grabbed \/ grabbed' = table
      /\ active' = active \/ active' = [r \in Requests |-> FALSE]
      /\ listening' = listening \/ listening' = [r \in Requests |-> FALSE]
  BY DEF Configure, Destruct, DetachCallbacks, GrabWorkers, JoinWorkers, vars,
     working, ending
<1>4. TypeOK'
  <2>1. active' \in [Requests -> BOOLEAN] /\ listening' \in [Requests -> BOOLEAN]
    BY <1>1, <1>3 DEF TypeOK
  <2>2. table' \subseteq Requests /\ grabbed' \subseteq Requests /\ queue' \subseteq Requests
    BY <1>1, <1>2, <1>3 DEF TypeOK
  <2>3. /\ mode' \in Modes /\ reconfigs' \in Nat
        /\ life' \in {"up", "stopping", "detached", "joining", "destroyed"}
    <3>1. /\ mode \in Modes /\ reconfigs \in Nat
          /\ life \in {"up", "stopping", "detached", "joining", "destroyed"}
      BY <1>1 DEF TypeOK
    <3> QED
      BY <1>2, <3>1, SMT
  <2>4. UNCHANGED <<call, handle, path, long, arrival, dispatcher, batch, current, worker,
                    position, emitted, history, late, stopped, stream, cancelling, replan,
                    replans, cancels>>
    BY <1>2 DEF admission
  <2> QED
    BY <1>1, <2>1, <2>2, <2>3, <2>4 DEF TypeOK
<1>5. HandsOf' /\ Arrivals'
  BY <1>1, <1>2, SameArrivals DEF HandsOf, admission
<1> QED
  BY <1>2, <1>4, <1>5 DEF TypeInv

LEMMA TypeStep ==
    ASSUME TypeInv, [RuntimeNext \/ Replan]_vars
    PROVE  TypeInv'
<1>1. CASE \E r \in Requests : Admit(r) \/ Generate(r)
  BY <1>1, TypeCall, TypeAnnounce, TypePush DEF Generate
<1>2. CASE \E r \in Requests : Work(r) \/ CallRemote(r) \/ LoseCall(r)
  BY <1>2, TypeWork
<1>3. CASE \E r \in Requests : Cancel(r) \/ ClearActive(r) \/ RemoveQueued(r) \/ StopToken(r)
  BY <1>3, TypeCancel
<1> QED
  BY <1>1, <1>2, <1>3, TypeDispatch, TypeReplan, TypeControl DEF RuntimeNext

(***************************************************************************)
(* Every variable of Pipeline has its type in every state, replan()        *)
(* included; in particular the front and the back of the queue are always  *)
(* requests when the code looks at them.                                   *)
(***************************************************************************)
THEOREM PipelineTyped == Spec => []TypeOK
<1>1. Init => TypeInv
  BY TypeInitially
<1>2. TypeInv /\ [RuntimeNext \/ Replan]_vars => TypeInv'
  BY TypeStep
<1>3. TypeInv => TypeOK
  BY DEF TypeInv
<1> QED
  BY <1>1, <1>2, <1>3, PTL DEF Spec
===============================================================================
