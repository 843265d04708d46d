---------------------------- MODULE PipelineProofs -----------------------------
(***************************************************************************)
(* Proofs about Pipeline, for any set of requests, any modes, batch size   *)
(* and token limit, and any number of cancellations and reconfigurations.  *)
(***************************************************************************)
EXTENDS Pipeline, TLAPS, FiniteSetTheorems, WellFoundedInduction

(* Zenon proves every leaf that cites no other prover; SMT is cited where  *)
(* arithmetic, records or function updates take part.                      *)
USE ZenonT(20)

(***************************************************************************)
(* Where the destructor finds a worker: in workers_, or not yet there      *)
(* because generate() or the dispatcher is between creating the thread and *)
(* recording it, or already taken from there.                              *)
(***************************************************************************)
Findable(r) ==
    \/ r \in table
    \/ call[r] = "spawned"
    \/ dispatcher = "recording" /\ current = r
    \/ life \in {"joining", "destroyed"} /\ r \in grabbed

JoinInv ==
    /\ call \in [Requests -> CallStates]
    /\ worker \in [Requests -> WorkerStates]
    /\ \A r \in Requests : worker[r] \notin {"none", "gone"} => Findable(r)
    /\ life # "up" => \A r \in Requests : call[r] \in {"idle", "returned"}
    /\ life \in {"detached", "joining", "destroyed"} => dispatcher = "exited"
    /\ life \in {"joining", "destroyed"} => table = {}
    /\ NoWorkerSurvives

USE DEF CallStates, WorkerStates

LEMMA JoinInitially == Init => JoinInv
  BY SMT DEF Init, JoinInv, NoWorkerSurvives

(* generate() adds workers and records them, while the pipeline is up.     *)
LEMMA JoinGenerate ==
    ASSUME JoinInv, NEW r \in Requests, Admit(r) \/ Generate(r)
    PROVE  JoinInv'
<1>1. CASE SpawnNow(r)
  BY <1>1 DEF JoinInv, Findable, NoWorkerSurvives, SpawnNow, CallStep,
     dispatching, ending
<1>2. CASE RecordNow(r)
  BY <1>2 DEF JoinInv, Findable, NoWorkerSurvives, RecordNow, CallStep,
     dispatching, ending
<1>3. CASE Admit(r)
  BY <1>3 DEF JoinInv, Findable, NoWorkerSurvives, Admit, CallStep,
     dispatching, working
<1>4. CASE Push(r)
  BY <1>4 DEF JoinInv, Findable, NoWorkerSurvives, Push, CallStep, working,
     ending
<1>5. CASE ReadMode(r) \/ AnnounceStarted(r) \/ AnnounceQueued(r) \/ PointAtBack(r)
               \/ MakeHandle(r)
  BY <1>5 DEF JoinInv, Findable, NoWorkerSurvives, ReadMode, AnnounceStarted,
     AnnounceQueued,
              PointAtBack, MakeHandle, CallStep, dispatching, working, ending
<1> QED
  BY <1>1, <1>2, <1>3, <1>4, <1>5 DEF Generate

(* The dispatcher does the same, until it exits.                           *)
LEMMA JoinDispatch ==
    ASSUME JoinInv, Dispatch
    PROVE  JoinInv'
<1>1. CASE DispatchSpawn
  BY <1>1, ZenonT(30) DEF JoinInv, Findable, NoWorkerSurvives, DispatchSpawn,
     admission, ending
<1>2. CASE DispatchRecord
  BY <1>2 DEF JoinInv, Findable, NoWorkerSurvives, DispatchRecord, After,
     admission, ending
<1>3. CASE TakeFront \/ GatherBatch \/ FillBatch \/ DropInactive \/ PickActive
               \/ DispatchStarted \/ DispatcherExit
  BY <1>3 DEF JoinInv, Findable, NoWorkerSurvives, TakeFront, GatherBatch,
     FillBatch,
              DropInactive, PickActive, DispatchStarted, DispatcherExit, admission, working,
              ending
<1> QED
  BY <1>1, <1>2, <1>3 DEF Dispatch

(* A worker leaves workers_ with its last step.                            *)
LEMMA JoinWork ==
    ASSUME JoinInv, NEW r \in Requests, Work(r) \/ CallRemote(r) \/ LoseCall(r)
    PROVE  JoinInv'
<1>1. CASE Deregister(r)
  BY <1>1 DEF JoinInv, Findable, NoWorkerSurvives, Deregister, WorkerStep,
     admission,
              dispatching, ending
<1>2. CASE ~Deregister(r)
  <2>1. /\ worker[r] \notin {"none", "gone"}
        /\ \E w \in WorkerStates : worker' = [worker EXCEPT ![r] = w]
        /\ UNCHANGED <<call, dispatcher, current, table, life, grabbed>>
    BY <1>2 DEF Work, ComputeToken, EmitToken, SkipToken, PassFails,
       CallRemote, LoseCall,
                ReportError, CannotLoad, LeaveLoop, Judge, EmitCompleted, EmitFailed,
                WorkerStep, admission, dispatching, ending
  <2> QED
    BY <2>1 DEF JoinInv, Findable, NoWorkerSurvives
<1> QED
  BY <1>1, <1>2

(* The destructor: first no more threads, then those that there are.       *)
LEMMA JoinDestroy ==
    ASSUME JoinInv, Destruct \/ DetachCallbacks \/ GrabWorkers \/ JoinWorkers
    PROVE  JoinInv'
<1>1. CASE Destruct
  BY <1>1 DEF JoinInv, Findable, NoWorkerSurvives, Destruct, admission,
     dispatching, working
<1>2. CASE DetachCallbacks
  BY <1>2 DEF JoinInv, Findable, NoWorkerSurvives, DetachCallbacks, admission,
     working
<1>3. CASE GrabWorkers
  BY <1>3 DEF JoinInv, Findable, NoWorkerSurvives, GrabWorkers, admission,
     dispatching
<1>4. CASE JoinWorkers
  BY <1>4 DEF JoinInv, Findable, NoWorkerSurvives, JoinWorkers, admission,
     dispatching,
              working
<1> QED
  BY <1>1, <1>2, <1>3, <1>4

LEMMA JoinAside ==
    ASSUME JoinInv, UNCHANGED <<call, worker, table, dispatcher, current, life, grabbed>>
    PROVE  JoinInv'
  BY DEF JoinInv, Findable, NoWorkerSurvives

LEMMA JoinStep ==
    ASSUME JoinInv, [RuntimeNext \/ Replan]_vars
    PROVE  JoinInv'
<1>1. CASE \E r \in Requests : Cancel(r) \/ ClearActive(r) \/ RemoveQueued(r) \/ StopToken(r)
  BY <1>1, JoinAside DEF Cancel, ClearActive, RemoveQueued, StopToken,
     admission, dispatching,
                         working, ending
<1>2. CASE \E m \in Modes : Configure(m)
  BY <1>2, JoinAside DEF Configure, admission, working, ending
<1>3. CASE Replan
  BY <1>3, JoinAside DEF Replan, ReplanBegin, ReplanAnnounce, ReplanResume,
     ReplanReplay,
                         ReplanComplete, admission, dispatching, working, ending
<1>4. CASE UNCHANGED vars
  BY <1>4, JoinAside DEF vars, admission, dispatching, working, ending
<1> QED
  BY <1>1, <1>2, <1>3, <1>4, JoinGenerate, JoinDispatch, JoinWork, JoinDestroy
     DEF RuntimeNext

(* Whatever threads there are when the destructor begins, and whichever    *)
(* of them are not recorded in workers_ yet, none is left when it returns; *)
(* replan() and changes of mode do not matter.                             *)
THEOREM DestructorJoinsAll == Spec => []NoWorkerSurvives
<1>1. Init => JoinInv
  BY JoinInitially
<1>2. JoinInv /\ [RuntimeNext \/ Replan]_vars => JoinInv'
  BY JoinStep
<1>3. JoinInv => NoWorkerSurvives
  BY DEF JoinInv
<1> QED
  BY <1>1, <1>2, <1>3, PTL DEF Spec

-------------------------------------------------------------------------------
(***************************************************************************)
(* What the runtime's calls (all but replan()) keep of a request.          *)
(***************************************************************************)
InGenerate == {"admitted", "immediate", "starting", "queueing", "announced"}
Over == {"none", "leaving", "gone"}

Typed ==
    /\ call \in [Requests -> CallStates]
    /\ active \in [Requests -> BOOLEAN]
    /\ listening \in [Requests -> BOOLEAN]
    /\ queue \in SUBSET Requests
    /\ batch \in SUBSET Requests
    /\ current \in Requests \union {"none"}
    /\ dispatcher \in DispatcherStates
    /\ worker \in [Requests -> WorkerStates]
    /\ late \in [Requests -> Nat]

(* The numbers of tokens, and those that push_back gives, of which only    *)
(* finitely many have been given.                                          *)
Numbered ==
    /\ position \in [Requests -> Nat]
    /\ emitted \in [Requests -> Nat]
    /\ arrival \in [Requests -> Nat]
    /\ IsFiniteSet({r \in Requests : arrival[r] # 0})

Streams ==
    /\ stream \in [Requests -> Seq(Events)]
    /\ TerminalIsLast

(* What the dispatcher has in hand at each point of its loop.              *)
HandsOf ==
    /\ current # "none" <=> dispatcher \in {"starting", "spawning", "recording"}
    /\ dispatcher \in {"filling", "dispatching"} => batch # {}
    /\ dispatcher \in {"waiting", "exited"} => batch = {}

(* generate(), queue, batch, dispatcher and worker have a request in turn. *)
Apart(r) ==
    /\ call[r] \in {"idle"} \union InGenerate =>
           r \notin queue /\ r \notin batch /\ r # current /\ worker[r] = "none"
    /\ r \in queue => r \notin batch /\ r # current /\ worker[r] = "none"
    /\ r \in batch => r # current /\ worker[r] = "none"
    /\ r = current => (worker[r] = "none" <=> dispatcher \in {"starting", "spawning"})

InHand(r) ==
    \/ call[r] \in InGenerate
    \/ r \in queue \union batch
    \/ r = current /\ worker[r] = "none"
    \/ worker[r] \notin Over

(* Who has a request in hand may still send it an event; a terminal event  *)
(* is sent by letting go of it.                                            *)
Accounted(r) ==
    /\ call[r] = "idle" => ~active[r] /\ ~Ended(r)
    /\ active[r] => listening[r]
    /\ Ended(r) => ~InHand(r)
    /\ active[r] /\ ~Ended(r) => InHand(r)

(* A token that comes late is the last: the loop is not entered again.     *)
Bounded(r) ==
    /\ late[r] <= 1
    /\ late[r] = 1 => ~active[r] /\ worker[r] # "emitting" /\ call[r] # "idle"

Sound(r) == Apart(r) /\ Accounted(r) /\ Bounded(r)

StreamInv ==
    /\ Typed
    /\ Numbered
    /\ HandsOf
    /\ Streams
    /\ \A r \in Requests : Sound(r)

HIDE DEF CallStates, WorkerStates
USE DEF InGenerate, Over

LEMMA FirstIsMember ==
    ASSUME arrival \in [Requests -> Nat], NEW S \in SUBSET Requests, S # {}
    PROVE  First(S) \in S /\ \A q \in S : arrival[First(S)] <= arrival[q]
<1> DEFINE T == {arrival[r] : r \in S}
<1>1. T \subseteq Nat /\ T # {}
  OBVIOUS
<1>2. \E x \in T : \A y \in T : ~(<<y, x>> \in OpToRel(<, Nat))
  BY <1>1, WFMin, NatLessThanWellFounded, ZenonT(30)
<1>3. PICK x \in T : \A y \in T : ~(y < x)
  BY <1>1, <1>2, ZenonT(30) DEF OpToRel
<1>4. PICK r \in S : arrival[r] = x
  BY <1>3
<1>5. \A q \in S : arrival[r] <= arrival[q]
  BY <1>1, <1>3, <1>4, SMT
<1> QED
  BY <1>5 DEF First

(* Sending an event to a request whose stream has not ended.               *)
LEMMA EmitStep ==
    ASSUME Streams,
           NEW r \in Requests, NEW kind \in EventKinds, NEW seq \in Nat,
           ~Ended(r), Emit(r, kind, seq)
    PROVE  /\ Streams'
           /\ \A q \in Requests \ {r} : (Ended(q)' <=> Ended(q))
           /\ (Ended(r)' <=> listening[r] /\ kind \in Terminal)
<1>1. CASE ~listening[r]
  BY <1>1 DEF Emit, Streams, TerminalIsLast, Ended
<1>2. CASE listening[r]
  <2> DEFINE e == [kind |-> kind, seq |-> seq]
  <2>1. e \in Events
    BY DEF Events
  <2>2. stream' = [stream EXCEPT ![r] = Append(stream[r], e)]
    BY <1>2 DEF Emit
  <2>3. stream[r] \in Seq(Events) /\ stream'[r] = Append(stream[r], e)
    BY <2>2 DEF Streams
  <2>4. \A q \in Requests \ {r} : stream'[q] = stream[q]
    BY <2>2 DEF Streams
  <2>5. stream' \in [Requests -> Seq(Events)]
    BY <2>1, <2>2, SMT DEF Streams
  <2> DEFINE n == Len(stream[r])
  <2>6. /\ n \in Nat
        /\ DOMAIN stream[r] = 1..n
        /\ DOMAIN stream'[r] = 1..(n + 1)
        /\ Len(stream'[r]) = n + 1
        /\ stream'[r][n + 1] = e
        /\ \A i \in 1..n : stream'[r][i] = stream[r][i]
    BY <2>1, <2>3, SMT
  <2> HIDE DEF n
  <2>7. \A i \in 1..(n + 1) : i = n + 1 \/ i \in 1..n
    BY <2>6, SMT
  <2>8. \A i \in 1..n : stream'[r][i].kind \notin Terminal
    BY <2>6, SMTT(30) DEF Ended
  <2>9. Ended(r)' <=> kind \in Terminal
    <3>1. n + 1 \in 1..(n + 1)
      BY <2>6, SMT
    <3>2. stream'[r][n + 1].kind = kind
      BY <2>6, SMT
    <3>3. Ended(r)' <=> \E i \in 1..(n + 1) : stream'[r][i].kind \in Terminal
      BY <2>6 DEF Ended
    <3> QED
      BY <2>7, <2>8, <3>1, <3>2, <3>3
  <2>10. TerminalIsLast'
    BY <2>4, <2>6, <2>7, <2>8 DEF Streams, TerminalIsLast
  <2>11. \A q \in Requests \ {r} : (Ended(q)' <=> Ended(q))
    BY <2>4 DEF Ended
  <2> QED
    BY <1>2, <2>5, <2>9, <2>10, <2>11 DEF Streams
<1> QED
  BY <1>1, <1>2

LEMMA SilentStep ==
    ASSUME Streams, UNCHANGED stream
    PROVE  /\ Streams'
           /\ \A q \in Requests : (Ended(q)' <=> Ended(q))
  BY DEF Streams, TerminalIsLast, Ended

(* What a step leaves of a request that it is not about.                   *)
SamePlace(q) ==
    /\ call'[q] = call[q] /\ worker'[q] = worker[q]
    /\ (q \in queue' <=> q \in queue)
    /\ (q \in batch' <=> q \in batch)
    /\ (q = current' <=> q = current)
    /\ q = current => (dispatcher' \in {"starting", "spawning"}
                          <=> dispatcher \in {"starting", "spawning"})

SameFlags(q) ==
    /\ (active'[q] <=> active[q])
    /\ (listening'[q] <=> listening[q])
    /\ late'[q] = late[q]
    /\ (Ended(q)' <=> Ended(q))

LEMMA SameSound ==
    ASSUME NEW q \in Requests, Sound(q), SamePlace(q), SameFlags(q)
    PROVE  Sound(q)'
<1>1. Apart(q)'
  BY DEF Sound, Apart, SamePlace
<1>2. (InHand(q)' <=> InHand(q))
  BY DEF InHand, SamePlace
<1>3. Accounted(q)'
  BY <1>2 DEF Sound, Accounted, SamePlace, SameFlags
<1>4. Bounded(q)'
  BY DEF Sound, Bounded, SamePlace, SameFlags
<1> QED
  BY <1>1, <1>3, <1>4 DEF Sound

LEMMA StreamInitially == Init => StreamInv
<1> SUFFICES ASSUME Init PROVE StreamInv
  OBVIOUS
<1>1. \A r \in Requests : ~Ended(r)
  BY SMT DEF Init, Ended
<1>2. {r \in Requests : arrival[r] # 0} = {}
  BY DEF Init
<1>3. Numbered
  BY <1>2, FS_EmptySet DEF Init, Numbered
<1>4. Typed /\ HandsOf /\ Streams
  BY SMT DEF Init, Typed, HandsOf, Streams, TerminalIsLast, CallStates,
     WorkerStates,
         DispatcherStates
<1>5. \A r \in Requests : Sound(r)
  BY <1>1, RequestsAssumption, SMT DEF Init, Sound, Apart, Accounted, InHand,
     Bounded
<1> QED
  BY <1>3, <1>4, <1>5 DEF StreamInv

LEMMA Combine ==
    ASSUME Typed', Numbered', HandsOf', Streams', \A q \in Requests : Sound(q)'
    PROVE  StreamInv'
  BY DEF StreamInv

LEMMA SameNumbers ==
    ASSUME Numbered, UNCHANGED <<position, emitted, arrival>>
    PROVE  Numbered'
  BY DEF Numbered

(* generate(), the steps that send nothing.                                *)
LEMMA StreamAdmit ==
    ASSUME StreamInv, NEW r \in Requests, Admit(r)
    PROVE  StreamInv'
<1>1. Typed /\ Numbered /\ HandsOf /\ Streams /\ \A q \in Requests : Sound(q)
  BY DEF StreamInv
<1>2. /\ call[r] = "idle"
      /\ call' = [call EXCEPT ![r] = "admitted"]
      /\ active' = [active EXCEPT ![r] = TRUE]
      /\ listening' = [listening EXCEPT ![r] = TRUE]
      /\ UNCHANGED <<queue, batch, current, dispatcher, worker, late, stream, position,
                     emitted, arrival>>
  BY DEF Admit, CallStep, dispatching, working
<1>3. Typed' /\ HandsOf'
  BY <1>1, <1>2 DEF Typed, HandsOf, CallStates
<1>4. Streams' /\ \A q \in Requests : (Ended(q)' <=> Ended(q))
  BY <1>1, <1>2, SilentStep
<1>5. ASSUME NEW q \in Requests
      PROVE  Sound(q)'
  <2>1. CASE q # r
    <3>1. SamePlace(q) /\ SameFlags(q)
      BY <1>1, <1>2, <1>4, <2>1 DEF Typed, SamePlace, SameFlags
    <3> QED
      BY <1>1, <3>1, SameSound
  <2>2. CASE q = r
    <3>1. /\ call'[r] = "admitted" /\ active'[r] /\ listening'[r]
          /\ (Ended(r)' <=> Ended(r))
      BY <1>1, <1>2, <1>4 DEF Typed
    <3>2. Sound(r) /\ late[r] \in Nat
      BY <1>1 DEF Typed
    <3>3. Apart(r)'
      BY <1>2, <3>2 DEF Sound, Apart
    <3>4. Accounted(r)'
      BY <1>2, <3>1, <3>2 DEF Sound, Accounted, InHand
    <3>5. Bounded(r)'
      BY <1>2, <3>1, <3>2 DEF Sound, Bounded
    <3> QED
      BY <2>2, <3>3, <3>4, <3>5 DEF Sound
  <2> QED
    BY <2>1, <2>2
<1> QED
  BY <1>1, <1>2, <1>3, <1>4, <1>5, SameNumbers, Combine

LEMMA StreamCall ==
    ASSUME StreamInv, NEW r \in Requests,
           ReadMode(r) \/ SpawnNow(r) \/ RecordNow(r) \/ PointAtBack(r) \/ MakeHandle(r)
    PROVE  StreamInv'
<1>1. Typed /\ Numbered /\ HandsOf /\ Streams /\ \A q \in Requests : Sound(q)
  BY DEF StreamInv
<1>2. UNCHANGED <<active, listening, queue, batch, current, dispatcher, late, stream,
                  position, emitted, arrival>>
  BY DEF ReadMode, SpawnNow, RecordNow, PointAtBack, MakeHandle, dispatching,
     working, ending
<1>3. PICK c \in CallStates, w \in WorkerStates :
         /\ call' = [call EXCEPT ![r] = c]
         /\ worker' = [worker EXCEPT ![r] = w]
         /\ \/ /\ call[r] = "starting" /\ c = "spawned" /\ w = "looping"
            \/ /\ call[r] = "admitted" /\ c \in {"immediate", "queueing"}
               /\ w = worker[r]
            \/ /\ call[r] \in {"spawned", "pushed", "pointed"}
               /\ c \in {"pointed", "returned"} /\ w = worker[r]
  <2>1. CASE SpawnNow(r)
    BY <2>1 DEF SpawnNow, CallStep, CallStates, WorkerStates
  <2>2. CASE ~SpawnNow(r)
    <3>1. worker' = [worker EXCEPT ![r] = worker[r]] /\ worker[r] \in WorkerStates
      BY <1>1, <2>2 DEF ReadMode, RecordNow, PointAtBack, MakeHandle, working,
         Typed
    <3>2. CASE ReadMode(r)
      BY <3>1, <3>2 DEF ReadMode, CallStep, CallStates
    <3>3. CASE RecordNow(r) \/ PointAtBack(r) \/ MakeHandle(r)
      BY <3>1, <3>3 DEF RecordNow, PointAtBack, MakeHandle, CallStep,
         CallStates
    <3> QED
      BY <2>2, <3>2, <3>3
  <2> QED
    BY <2>1, <2>2
<1>4. Typed' /\ HandsOf'
  BY <1>1, <1>2, <1>3 DEF Typed, HandsOf
<1>5. Streams' /\ \A q \in Requests : (Ended(q)' <=> Ended(q))
  BY <1>1, <1>2, SilentStep
<1>6. ASSUME NEW q \in Requests
      PROVE  Sound(q)'
  <2>1. CASE q # r
    <3>1. SamePlace(q) /\ SameFlags(q)
      BY <1>1, <1>2, <1>3, <1>5, <2>1 DEF Typed, SamePlace, SameFlags
    <3> QED
      BY <1>1, <3>1, SameSound
  <2>2. CASE q = r
    <3>1. call'[r] = c /\ worker'[r] = w /\ SameFlags(r)
      BY <1>1, <1>2, <1>3, <1>5 DEF Typed, SameFlags
    <3>2. Sound(r)
      BY <1>1
    <3>3. Apart(r)'
      BY <1>2, <1>3, <3>1, <3>2 DEF Sound, Apart
    <3>4. (InHand(r)' <=> InHand(r))
      BY <1>2, <1>3, <3>1, <3>2 DEF Sound, Apart, InHand
    <3>5. Accounted(r)'
      BY <1>3, <3>1, <3>2, <3>4 DEF Sound, Accounted, SameFlags
    <3>6. Bounded(r)'
      BY <1>3, <3>1, <3>2 DEF Sound, Bounded, SameFlags
    <3> QED
      BY <2>2, <3>3, <3>5, <3>6 DEF Sound
  <2> QED
    BY <2>1, <2>2
<1> QED
  BY <1>1, <1>2, <1>4, <1>5, <1>6, SameNumbers, Combine

LEMMA StreamPush ==
    ASSUME StreamInv, NEW r \in Requests, Push(r)
    PROVE  StreamInv'
<1>1. Typed /\ Numbered /\ HandsOf /\ Streams /\ \A q \in Requests : Sound(q)
  BY DEF StreamInv
<1>2. /\ call[r] = "announced"
      /\ call' = [call EXCEPT ![r] = "pushed"]
      /\ queue' = queue \union {r}
      /\ UNCHANGED <<active, listening, batch, current, dispatcher, worker, late, stream>>
  BY DEF Push, CallStep, working, ending
<1>3. Numbered'
  <2> DEFINE given == {q \in Requests : arrival[q] # 0}
  <2>1. /\ arrival' = [arrival EXCEPT ![r] = 1 + Cardinality(given)]
        /\ UNCHANGED <<position, emitted>>
    BY DEF Push, working
  <2>2. IsFiniteSet(given) /\ Cardinality(given) \in Nat
    BY <1>1, FS_CardinalityType DEF Numbered
  <2>3. {q \in Requests : arrival'[q] # 0} \in SUBSET (given \union {r})
    BY <1>1, <2>1 DEF Numbered
  <2> HIDE DEF given
  <2>4. arrival' \in [Requests -> Nat]
    BY <1>1, <2>1, <2>2, SMT DEF Numbered
  <2>5. IsFiniteSet(given \union {r})
    BY <2>2, FS_AddElement
  <2>6. IsFiniteSet({q \in Requests : arrival'[q] # 0})
    BY <2>3, <2>5, FS_Subset
  <2> QED
    BY <1>1, <2>1, <2>4, <2>6 DEF Numbered
<1>4. Typed' /\ HandsOf'
  BY <1>1, <1>2 DEF Typed, HandsOf, CallStates
<1>5. Streams' /\ \A q \in Requests : (Ended(q)' <=> Ended(q))
  BY <1>1, <1>2, SilentStep
<1>6. ASSUME NEW q \in Requests
      PROVE  Sound(q)'
  <2>1. CASE q # r
    <3>1. SamePlace(q) /\ SameFlags(q)
      BY <1>1, <1>2, <1>5, <2>1 DEF Typed, SamePlace, SameFlags
    <3> QED
      BY <1>1, <3>1, SameSound
  <2>2. CASE q = r
    <3>1. call'[r] = "pushed" /\ r \in queue' /\ SameFlags(r)
      BY <1>1, <1>2, <1>5 DEF Typed, SameFlags
    <3>2. Sound(r)
      BY <1>1
    <3>3. Apart(r)'
      BY <1>2, <3>1, <3>2 DEF Sound, Apart
    <3>4. InHand(r)' /\ InHand(r)
      BY <1>2, <3>1 DEF InHand
    <3>5. Accounted(r)'
      BY <1>2, <3>1, <3>2, <3>4 DEF Sound, Accounted, SameFlags
    <3>6. Bounded(r)'
      BY <1>2, <3>1, <3>2 DEF Sound, Bounded, SameFlags
    <3> QED
      BY <2>2, <3>3, <3>5, <3>6 DEF Sound
  <2> QED
    BY <2>1, <2>2
<1> QED
  BY <1>3, <1>4, <1>5, <1>6, Combine

LEMMA StreamAnnounce ==
    ASSUME StreamInv, NEW r \in Requests, AnnounceStarted(r) \/ AnnounceQueued(r)
    PROVE  StreamInv'
<1>1. Typed /\ Numbered /\ HandsOf /\ Streams /\ \A q \in Requests : Sound(q)
  BY DEF StreamInv
<1>2. /\ call[r] \in InGenerate
      /\ UNCHANGED <<active, listening, queue, batch, current, dispatcher, worker, late,
                     position, emitted, arrival>>
  BY DEF AnnounceStarted, AnnounceQueued, CallStep, dispatching, working,
     ending
<1>3. PICK c \in {"starting", "announced"} : call' = [call EXCEPT ![r] = c]
  BY DEF AnnounceStarted, AnnounceQueued, CallStep
<1>4. PICK kind \in EventKinds \ Terminal : Emit(r, kind, 0)
  BY DEF AnnounceStarted, AnnounceQueued, EventKinds, Terminal
<1>5. InHand(r) /\ ~Ended(r)
  BY <1>1, <1>2 DEF Sound, Accounted, InHand
<1>6. Streams' /\ \A q \in Requests : (Ended(q)' <=> Ended(q))
  BY <1>1, <1>4, <1>5, EmitStep
<1>7. Typed' /\ HandsOf'
  BY <1>1, <1>2, <1>3 DEF Typed, HandsOf, CallStates
<1>8. ASSUME NEW q \in Requests
      PROVE  Sound(q)'
  <2>1. CASE q # r
    <3>1. SamePlace(q) /\ SameFlags(q)
      BY <1>1, <1>2, <1>3, <1>6, <2>1 DEF Typed, SamePlace, SameFlags
    <3> QED
      BY <1>1, <3>1, SameSound
  <2>2. CASE q = r
    <3>1. call'[r] = c /\ c # "idle" /\ SameFlags(r)
      BY <1>1, <1>2, <1>3, <1>6 DEF Typed, SameFlags
    <3>2. Sound(r)
      BY <1>1
    <3>3. Apart(r)'
      BY <1>2, <3>1, <3>2 DEF Sound, Apart
    <3>4. InHand(r)'
      BY <1>3, <3>1 DEF InHand
    <3>5. Accounted(r)'
      BY <1>3, <1>5, <3>1, <3>2, <3>4 DEF Sound, Accounted, SameFlags
    <3>6. Bounded(r)'
      BY <1>2, <3>1, <3>2 DEF Sound, Bounded, SameFlags
    <3> QED
      BY <2>2, <3>3, <3>5, <3>6 DEF Sound
  <2> QED
    BY <2>1, <2>2
<1> QED
  BY <1>1, <1>2, <1>6, <1>7, <1>8, SameNumbers, Combine

(* The dispatcher takes requests from the queue; what it drops is inactive.*)
LEMMA StreamTake ==
    ASSUME StreamInv, TakeFront \/ GatherBatch \/ FillBatch
    PROVE  StreamInv'
<1>1. Typed /\ Numbered /\ HandsOf /\ Streams /\ \A q \in Requests : Sound(q)
  BY DEF StreamInv
<1>2. PICK taken \in SUBSET queue :
         /\ queue' = queue \ taken
         /\ batch \subseteq batch'
         /\ batch' \subseteq batch \union taken
         /\ \A q \in taken : active[q] => q \in batch'
  <2>1. CASE TakeFront
    <3>1. queue # {} /\ queue \in SUBSET Requests /\ arrival \in [Requests -> Nat]
      BY <1>1, <2>1 DEF TakeFront, Typed, Numbered
    <3>2. PICK f \in queue : batch' = {f} /\ queue' = queue \ {f}
      BY <2>1, <3>1, FirstIsMember DEF TakeFront
    <3>3. batch = {}
      BY <1>1, <2>1 DEF TakeFront, HandsOf
    <3> QED
      BY <3>2, <3>3
  <2>2. CASE GatherBatch
    <3>1. batch = {}
      BY <1>1, <2>2 DEF GatherBatch, HandsOf
    <3>2. Gathered(BatchSize) \in SUBSET queue
      BY DEF Gathered
    <3> QED
      BY <2>2, <3>1, <3>2 DEF GatherBatch
  <2>3. CASE FillBatch
    <3>1. Gathered(BatchSize - Cardinality(batch)) \in SUBSET queue
      BY DEF Gathered
    <3> QED
      BY <2>3, <3>1 DEF FillBatch
  <2> QED
    BY <2>1, <2>2, <2>3
<1>3. /\ dispatcher \in {"waiting", "filling"}
      /\ dispatcher' \in {"waiting", "filling", "dispatching"}
      /\ dispatcher' = "waiting" => batch' = {}
      /\ dispatcher' # "waiting" => batch' # {}
  <2>1. CASE TakeFront
    BY <2>1 DEF TakeFront
  <2>2. CASE GatherBatch
    BY <2>2 DEF GatherBatch
  <2>3. CASE FillBatch
    <3>1. batch # {}
      BY <1>1, <2>3 DEF FillBatch, HandsOf
    <3> QED
      BY <1>2, <2>3, <3>1 DEF FillBatch
  <2> QED
    BY <2>1, <2>2, <2>3
<1>4. UNCHANGED <<call, active, listening, current, worker, late, stream, position, emitted,
                  arrival>>
  BY DEF TakeFront, GatherBatch, FillBatch, admission, working, ending
<1>5. Typed' /\ HandsOf'
  <2>1. current = "none"
    BY <1>1, <1>3 DEF HandsOf
  <2>2. queue' \in SUBSET Requests /\ batch' \in SUBSET Requests
    BY <1>1, <1>2 DEF Typed
  <2>3. Typed'
    BY <1>1, <1>3, <1>4, <2>2 DEF Typed, DispatcherStates
  <2> QED
    BY <1>3, <1>4, <2>1, <2>3 DEF HandsOf
<1>6. Streams' /\ \A q \in Requests : (Ended(q)' <=> Ended(q))
  BY <1>1, <1>4, SilentStep
<1>7. ASSUME NEW q \in Requests
      PROVE  Sound(q)'
  <2>1. Sound(q) /\ q # current /\ SameFlags(q)
    BY <1>1, <1>3, <1>4, <1>6, RequestsAssumption DEF HandsOf, SameFlags
  <2>2. CASE q \notin taken
    <3>1. SamePlace(q)
      BY <1>2, <1>4, <2>1, <2>2 DEF SamePlace
    <3> QED
      BY <2>1, <3>1, SameSound
  <2>3. CASE q \in taken
    <3>1. q \in queue /\ q \notin queue' /\ (active[q] => q \in batch')
      BY <1>2, <2>3
    <3>2. Apart(q)'
      BY <1>4, <2>1, <3>1 DEF Sound, Apart
    <3>3. InHand(q) /\ (active[q] => InHand(q)')
      BY <3>1 DEF InHand
    <3>4. Accounted(q)'
      BY <1>4, <2>1, <3>3 DEF Sound, Accounted, SameFlags
    <3>5. Bounded(q)'
      BY <1>4, <2>1 DEF Sound, Bounded, SameFlags
    <3> QED
      BY <3>2, <3>4, <3>5 DEF Sound
  <2> QED
    BY <2>2, <2>3
<1> QED
  BY <1>1, <1>4, <1>5, <1>6, <1>7, SameNumbers, Combine

LEMMA FirstOfBatch ==
    ASSUME StreamInv, dispatcher = "dispatching"
    PROVE  First(batch) \in batch
<1>1. batch \in SUBSET Requests /\ arrival \in [Requests -> Nat] /\ batch # {}
  BY DEF StreamInv, Typed, Numbered, HandsOf
<1> QED
  BY <1>1, FirstIsMember

(* The dispatcher starts the requests it has taken, or drops them.         *)
LEMMA StreamDrop ==
    ASSUME StreamInv, DropInactive
    PROVE  StreamInv'
<1>1. Typed /\ Numbered /\ HandsOf /\ Streams /\ \A q \in Requests : Sound(q)
  BY DEF StreamInv
<1>2. PICK f \in batch : f = First(batch)
  BY FirstOfBatch DEF DropInactive
<1>3. /\ dispatcher = "dispatching" /\ ~active[f]
      /\ batch' = batch \ {f} /\ dispatcher' = After(batch')
      /\ UNCHANGED <<call, active, listening, queue, current, worker, late, stream, position,
                     emitted, arrival>>
  BY <1>2 DEF DropInactive, admission, working, ending
<1>4. Typed' /\ HandsOf' /\ current = "none"
  BY <1>1, <1>3 DEF Typed, HandsOf, After, DispatcherStates
<1>5. Streams' /\ \A q \in Requests : (Ended(q)' <=> Ended(q))
  BY <1>1, <1>3, SilentStep
<1>6. ASSUME NEW q \in Requests
      PROVE  Sound(q)'
  <2>1. Sound(q) /\ q # current /\ SameFlags(q)
    BY <1>1, <1>3, <1>4, <1>5, RequestsAssumption DEF SameFlags
  <2>2. CASE q # f
    <3>1. SamePlace(q)
      BY <1>3, <2>1, <2>2 DEF SamePlace
    <3> QED
      BY <2>1, <3>1, SameSound
  <2>3. CASE q = f
    <3>1. Apart(q)'
      BY <1>2, <1>3, <2>1, <2>3 DEF Sound, Apart
    <3>2. InHand(q)
      BY <1>2, <2>3 DEF InHand
    <3>3. Accounted(q)'
      BY <1>3, <2>1, <2>3, <3>2 DEF Sound, Accounted, SameFlags
    <3>4. Bounded(q)'
      BY <1>3, <2>1 DEF Sound, Bounded, SameFlags
    <3> QED
      BY <3>1, <3>3, <3>4 DEF Sound
  <2> QED
    BY <2>2, <2>3
<1> QED
  BY <1>1, <1>3, <1>4, <1>5, <1>6, SameNumbers, Combine

LEMMA StreamPick ==
    ASSUME StreamInv, PickActive
    PROVE  StreamInv'
<1>1. Typed /\ Numbered /\ HandsOf /\ Streams /\ \A q \in Requests : Sound(q)
  BY DEF StreamInv
<1>2. PICK f \in batch : f = First(batch)
  BY FirstOfBatch DEF PickActive
<1>3. /\ dispatcher = "dispatching" /\ dispatcher' = "starting"
      /\ batch' = batch \ {f} /\ current' = f
      /\ UNCHANGED <<call, active, listening, queue, worker, late, stream, position, emitted,
                     arrival>>
  BY <1>2 DEF PickActive, admission, working, ending
<1>4. Typed' /\ HandsOf' /\ current = "none"
  <2>1. f \in Requests /\ f # "none"
    BY <1>1, <1>2, RequestsAssumption DEF Typed
  <2> QED
    BY <1>1, <1>3, <2>1 DEF Typed, HandsOf, DispatcherStates
<1>5. Streams' /\ \A q \in Requests : (Ended(q)' <=> Ended(q))
  BY <1>1, <1>3, SilentStep
<1>6. ASSUME NEW q \in Requests
      PROVE  Sound(q)'
  <2>1. Sound(q) /\ q # current /\ SameFlags(q)
    BY <1>1, <1>3, <1>4, <1>5, RequestsAssumption DEF SameFlags
  <2>2. CASE q # f
    <3>1. SamePlace(q)
      BY <1>3, <2>1, <2>2 DEF SamePlace
    <3> QED
      BY <2>1, <3>1, SameSound
  <2>3. CASE q = f
    <3>1. Apart(q)'
      BY <1>2, <1>3, <2>1, <2>3 DEF Sound, Apart
    <3>2. InHand(q) /\ InHand(q)'
      BY <1>2, <1>3, <2>1, <2>3 DEF Sound, Apart, InHand
    <3>3. Accounted(q)'
      BY <1>3, <2>1, <3>2 DEF Sound, Accounted, SameFlags
    <3>4. Bounded(q)'
      BY <1>3, <2>1 DEF Sound, Bounded, SameFlags
    <3> QED
      BY <3>1, <3>3, <3>4 DEF Sound
  <2> QED
    BY <2>2, <2>3
<1> QED
  BY <1>1, <1>3, <1>4, <1>5, <1>6, SameNumbers, Combine

LEMMA StreamSpawn ==
    ASSUME StreamInv, DispatchSpawn
    PROVE  StreamInv'
<1>1. Typed /\ Numbered /\ HandsOf /\ Streams /\ \A q \in Requests : Sound(q)
  BY DEF StreamInv
<1>2. /\ dispatcher = "spawning" /\ dispatcher' = "recording"
      /\ worker' = [worker EXCEPT ![current] = "looping"]
      /\ UNCHANGED <<call, active, listening, queue, batch, current, late, stream, position,
                     emitted, arrival>>
  BY DEF DispatchSpawn, admission, ending
<1>3. PICK c \in Requests : c = current
  BY <1>1, <1>2 DEF Typed, HandsOf
<1>4. Typed' /\ HandsOf'
  BY <1>1, <1>2 DEF Typed, HandsOf, DispatcherStates, WorkerStates
<1>5. Streams' /\ \A q \in Requests : (Ended(q)' <=> Ended(q))
  BY <1>1, <1>2, SilentStep
<1>6. ASSUME NEW q \in Requests
      PROVE  Sound(q)'
  <2>1. Sound(q) /\ SameFlags(q)
    BY <1>1, <1>2, <1>5 DEF SameFlags
  <2>2. CASE q # c
    <3>1. SamePlace(q)
      BY <1>1, <1>2, <1>3, <2>2 DEF Typed, SamePlace
    <3> QED
      BY <2>1, <3>1, SameSound
  <2>3. CASE q = c
    <3>1. worker[q] = "none" /\ worker'[q] = "looping"
      BY <1>1, <1>2, <1>3, <2>1, <2>3 DEF Typed, Sound, Apart
    <3>2. Apart(q)'
      BY <1>2, <1>3, <2>1, <2>3, <3>1 DEF Sound, Apart
    <3>3. InHand(q) /\ InHand(q)'
      BY <1>3, <2>3, <3>1 DEF InHand
    <3>4. Accounted(q)'
      BY <1>2, <2>1, <3>3 DEF Sound, Accounted, SameFlags
    <3>5. Bounded(q)'
      BY <1>2, <2>1, <3>1 DEF Sound, Bounded, SameFlags
    <3> QED
      BY <3>2, <3>4, <3>5 DEF Sound
  <2> QED
    BY <2>2, <2>3
<1> QED
  BY <1>1, <1>2, <1>4, <1>5, <1>6, SameNumbers, Combine

LEMMA StreamRecord ==
    ASSUME StreamInv, DispatchRecord \/ DispatcherExit
    PROVE  StreamInv'
<1>1. Typed /\ Numbered /\ HandsOf /\ Streams /\ \A q \in Requests : Sound(q)
  BY DEF StreamInv
<1>2. /\ dispatcher \in {"recording", "waiting"}
      /\ dispatcher' \in {"waiting", "dispatching", "exited"}
      /\ dispatcher' = "dispatching" <=> batch # {}
      /\ current' = "none"
      /\ UNCHANGED <<call, active, listening, queue, batch, worker, late, stream, position,
                     emitted, arrival>>
  <2>1. CASE DispatchRecord
    BY <2>1 DEF DispatchRecord, After, admission, ending
  <2>2. CASE DispatcherExit
    BY <1>1, <2>2 DEF DispatcherExit, HandsOf, admission, working, ending
  <2> QED
    BY <2>1, <2>2
<1>3. Typed' /\ HandsOf'
  BY <1>1, <1>2 DEF Typed, HandsOf, DispatcherStates
<1>4. Streams' /\ \A q \in Requests : (Ended(q)' <=> Ended(q))
  BY <1>1, <1>2, SilentStep
<1>5. ASSUME NEW q \in Requests
      PROVE  Sound(q)'
  <2>1. Sound(q) /\ SameFlags(q) /\ q # current'
    BY <1>1, <1>2, <1>4, RequestsAssumption DEF SameFlags
  <2>2. CASE q # current
    <3>1. SamePlace(q)
      BY <1>2, <2>1, <2>2 DEF SamePlace
    <3> QED
      BY <2>1, <3>1, SameSound
  <2>3. CASE q = current
    <3>1. worker[q] # "none"
      BY <1>2, <2>1, <2>3 DEF Sound, Apart
    <3>2. Apart(q)'
      BY <1>2, <2>1, <3>1 DEF Sound, Apart
    <3>3. (InHand(q)' <=> InHand(q))
      BY <1>2, <2>1, <3>1 DEF InHand
    <3>4. Accounted(q)'
      BY <1>2, <2>1, <3>3 DEF Sound, Accounted, SameFlags
    <3>5. Bounded(q)'
      BY <1>2, <2>1 DEF Sound, Bounded, SameFlags
    <3> QED
      BY <3>2, <3>4, <3>5 DEF Sound
  <2> QED
    BY <2>2, <2>3
<1> QED
  BY <1>1, <1>2, <1>3, <1>4, <1>5, SameNumbers, Combine

LEMMA StreamDispatchStarted ==
    ASSUME StreamInv, DispatchStarted
    PROVE  StreamInv'
<1>1. Typed /\ Numbered /\ HandsOf /\ Streams /\ \A q \in Requests : Sound(q)
  BY DEF StreamInv
<1>2. /\ dispatcher = "starting" /\ dispatcher' = "spawning"
      /\ UNCHANGED <<call, active, listening, queue, batch, current, worker, late, position,
                     emitted, arrival>>
  BY DEF DispatchStarted, admission, working, ending
<1>3. PICK c \in Requests : c = current
  BY <1>1, <1>2 DEF Typed, HandsOf
<1>4. ~Ended(c)
  <2>1. InHand(c)
    BY <1>1, <1>2, <1>3 DEF Sound, Apart, InHand
  <2> QED
    BY <1>1, <2>1 DEF Sound, Accounted
<1>5. Streams' /\ \A q \in Requests : (Ended(q)' <=> Ended(q))
  <2>1. "started" \in EventKinds /\ "started" \notin Terminal
    BY DEF EventKinds, Terminal
  <2>2. Emit(c, "started", 0)
    BY <1>3 DEF DispatchStarted
  <2> QED
    BY <1>1, <1>4, <2>1, <2>2, EmitStep
<1>6. Typed' /\ HandsOf'
  BY <1>1, <1>2 DEF Typed, HandsOf, DispatcherStates
<1>7. ASSUME NEW q \in Requests
      PROVE  Sound(q)'
  <2>1. SamePlace(q) /\ SameFlags(q)
    BY <1>2, <1>5 DEF SamePlace, SameFlags
  <2> QED
    BY <1>1, <2>1, SameSound
<1> QED
  BY <1>1, <1>2, <1>5, <1>6, <1>7, SameNumbers, Combine

(* A worker's steps that send nothing.                                     *)
LEMMA ComputeEffect ==
    ASSUME NEW r \in Requests,
           \/ ComputeToken(r) \/ SkipToken(r) \/ PassFails(r) \/ CannotLoad(r)
           \/ LeaveLoop(r) \/ Judge(r) \/ CallRemote(r) \/ LoseCall(r)
    PROVE  /\ worker[r] \notin Over
           /\ \E w \in WorkerStates \ Over :
                 worker' = [worker EXCEPT ![r] = w] /\ (w = "emitting" => active[r])
           /\ position' = position \/ position' = [position EXCEPT ![r] = @ + 1]
           /\ UNCHANGED <<call, active, listening, queue, batch, current, dispatcher, late,
                          stream, emitted, arrival>>
<1>1. worker[r] \notin Over
  BY DEF ComputeToken, SkipToken, PassFails, CannotLoad, LeaveLoop, Judge,
     CallRemote,
         LoseCall, WorkerStep
<1>2. \/ WorkerStep(r, "looping", "emitting") /\ active[r]
      \/ WorkerStep(r, "emitting", "looping")
      \/ WorkerStep(r, "looping", "erring")
      \/ WorkerStep(r, "looping", "failing")
      \/ WorkerStep(r, "looping", "judging")
      \/ WorkerStep(r, "judging", "completing")
      \/ WorkerStep(r, "judging", "failing")
      \/ WorkerStep(r, "looping", "calling")
      \/ WorkerStep(r, "calling", "erring")
  BY DEF ComputeToken, SkipToken, PassFails, CannotLoad, LeaveLoop, Judge,
     CallRemote,
         LoseCall, MayContinue
<1>3. \E w \in WorkerStates \ Over :
         worker' = [worker EXCEPT ![r] = w] /\ (w = "emitting" => active[r])
  BY <1>2 DEF WorkerStep, WorkerStates
<1>4. position' = position \/ position' = [position EXCEPT ![r] = @ + 1]
  BY DEF ComputeToken, SkipToken, PassFails, CannotLoad, LeaveLoop, Judge,
     CallRemote,
         LoseCall
<1>5. UNCHANGED <<call, active, listening, queue, batch, current, dispatcher, late, stream,
                  emitted, arrival>>
  BY DEF ComputeToken, SkipToken, PassFails, CannotLoad, LeaveLoop, Judge,
     CallRemote,
         LoseCall, admission, dispatching, ending
<1> QED
  BY <1>1, <1>3, <1>4, <1>5

LEMMA StreamCompute ==
    ASSUME StreamInv, NEW r \in Requests,
           \/ ComputeToken(r) \/ SkipToken(r) \/ PassFails(r) \/ CannotLoad(r)
           \/ LeaveLoop(r) \/ Judge(r) \/ CallRemote(r) \/ LoseCall(r)
    PROVE  StreamInv'
<1>1. Typed /\ Numbered /\ HandsOf /\ Streams /\ \A q \in Requests : Sound(q)
  BY DEF StreamInv
<1>2. /\ worker[r] \notin Over
      /\ position' = position \/ position' = [position EXCEPT ![r] = @ + 1]
      /\ UNCHANGED <<call, active, listening, queue, batch, current, dispatcher, late, stream,
                     emitted, arrival>>
  BY ComputeEffect
<1>3. PICK w \in WorkerStates \ Over :
         worker' = [worker EXCEPT ![r] = w] /\ (w = "emitting" => active[r])
  BY ComputeEffect
<1>4. Numbered'
  <2>1. CASE position' = position
    BY <1>1, <1>2, <2>1, SameNumbers
  <2>2. CASE position' = [position EXCEPT ![r] = @ + 1]
    <3>1. position' \in [Requests -> Nat]
      BY <1>1, <2>2, SMT DEF Numbered
    <3> QED
      BY <1>1, <1>2, <3>1 DEF Numbered
  <2> QED
    BY <1>2, <2>1, <2>2
<1>5. Typed' /\ HandsOf'
  <2>1. worker' \in [Requests -> WorkerStates]
    BY <1>1, <1>3 DEF Typed
  <2> QED
    BY <1>1, <1>2, <2>1 DEF Typed, HandsOf
<1>6. Streams' /\ \A q \in Requests : (Ended(q)' <=> Ended(q))
  BY <1>1, <1>2, SilentStep
<1>7. ASSUME NEW q \in Requests
      PROVE  Sound(q)'
  <2>1. Sound(q) /\ SameFlags(q)
    BY <1>1, <1>2, <1>6 DEF SameFlags
  <2>2. CASE q # r
    <3>1. SamePlace(q)
      BY <1>1, <1>2, <1>3, <2>2 DEF Typed, SamePlace
    <3> QED
      BY <2>1, <3>1, SameSound
  <2>3. CASE q = r
    <3>1. worker'[q] = w
      BY <1>1, <1>3, <2>3 DEF Typed
    <3>2. Apart(q)'
      BY <1>2, <2>1, <2>3, <3>1 DEF Sound, Apart
    <3>3. InHand(q) /\ InHand(q)'
      BY <1>2, <2>3, <3>1 DEF InHand
    <3>4. Accounted(q)'
      BY <1>2, <2>1, <3>3 DEF Sound, Accounted, SameFlags
    <3>5. Bounded(q)'
      BY <1>2, <1>3, <2>1, <2>3, <3>1 DEF Sound, Bounded, SameFlags
    <3> QED
      BY <3>2, <3>4, <3>5 DEF Sound
  <2> QED
    BY <2>2, <2>3
<1> QED
  BY <1>4, <1>5, <1>6, <1>7, Combine

LEMMA StreamToken ==
    ASSUME StreamInv, NEW r \in Requests, EmitToken(r)
    PROVE  StreamInv'
<1>1. Typed /\ Numbered /\ HandsOf /\ Streams /\ \A q \in Requests : Sound(q)
  BY DEF StreamInv
<1>2. /\ worker[r] = "emitting"
      /\ worker' = [worker EXCEPT ![r] = "looping"]
      /\ UNCHANGED <<call, active, listening, queue, batch, current, dispatcher>>
  BY DEF EmitToken, WorkerStep, admission, dispatching, ending
<1>3. late' = IF active[r] THEN late ELSE [late EXCEPT ![r] = @ + 1]
  BY DEF EmitToken
<1>4. InHand(r) /\ ~Ended(r)
  <2>1. InHand(r)
    BY <1>2 DEF InHand
  <2> QED
    BY <1>1, <2>1 DEF Sound, Accounted
<1>5. Streams' /\ \A q \in Requests : (Ended(q)' <=> Ended(q))
  <2>1. "token" \in EventKinds /\ "token" \notin Terminal /\ position[r] \in Nat
    BY <1>1 DEF EventKinds, Terminal, Numbered
  <2>2. Emit(r, "token", position[r])
    BY DEF EmitToken
  <2>3. Streams' /\ \A q \in Requests \ {r} : (Ended(q)' <=> Ended(q))
    BY <1>1, <1>4, <2>1, <2>2, EmitStep
  <2>4. ~Ended(r)'
    BY <1>1, <1>4, <2>1, <2>2, EmitStep
  <2> QED
    BY <1>4, <2>3, <2>4
<1>6. Numbered'
  <2>1. position' = [position EXCEPT ![r] = @ + 1] /\ arrival' = arrival
    BY DEF EmitToken, admission
  <2>2. emitted' = emitted \/ emitted' = [emitted EXCEPT ![r] = @ + 1]
    BY DEF EmitToken
  <2>3. position' \in [Requests -> Nat]
    BY <1>1, <2>1, SMT DEF Numbered
  <2>4. emitted' \in [Requests -> Nat]
    BY <1>1, <2>2, SMT DEF Numbered
  <2> QED
    BY <1>1, <2>1, <2>3, <2>4 DEF Numbered
<1>7. Typed' /\ HandsOf'
  <2>1. late' \in [Requests -> Nat]
    BY <1>1, <1>3, SMT DEF Typed
  <2> QED
    BY <1>1, <1>2, <2>1 DEF Typed, HandsOf, WorkerStates
<1>8. ASSUME NEW q \in Requests
      PROVE  Sound(q)'
  <2>1. Sound(q) /\ (Ended(q)' <=> Ended(q))
    BY <1>1, <1>5
  <2>2. CASE q # r
    <3>1. SamePlace(q)
      BY <1>1, <1>2, <2>2 DEF Typed, SamePlace
    <3>2. SameFlags(q)
      BY <1>1, <1>2, <1>3, <2>1, <2>2 DEF Typed, SameFlags
    <3> QED
      BY <2>1, <3>1, <3>2, SameSound
  <2>3. CASE q = r
    <3>1. worker'[q] = "looping"
      BY <1>1, <1>2, <2>3 DEF Typed
    <3>2. Apart(q)'
      BY <1>2, <2>1, <2>3, <3>1 DEF Sound, Apart
    <3>3. InHand(q) /\ InHand(q)'
      BY <1>4, <2>3, <3>1 DEF InHand
    <3>4. Accounted(q)'
      BY <1>2, <2>1, <3>3 DEF Sound, Accounted
    <3>5. late[q] \in Nat /\ late[q] # 1 /\ late[q] <= 1
      BY <1>1, <1>2, <2>1, <2>3 DEF Typed, Sound, Bounded
    <3>6. IF active[q] THEN late'[q] = late[q] ELSE late'[q] = late[q] + 1
      BY <1>1, <1>3, <2>3 DEF Typed
    <3>7. call[q] # "idle"
      BY <1>2, <2>1, <2>3 DEF Sound, Apart
    <3>8. Bounded(q)'
      <4>1. late[q] = 0
        BY <3>5, SMT
      <4>2. late'[q] = 0 \/ (late'[q] = 1 /\ ~active[q])
        <5>1. CASE active[q]
          BY <3>6, <4>1, <5>1
        <5>2. CASE ~active[q]
          BY <3>6, <4>1, <5>2, SMT
        <5> QED
          BY <5>1, <5>2
      <4> QED
        BY <1>2, <3>1, <3>7, <4>2, SMT DEF Bounded
    <3> QED
      BY <3>2, <3>4, <3>8 DEF Sound
  <2> QED
    BY <2>2, <2>3
<1> QED
  BY <1>5, <1>6, <1>7, <1>8, Combine

(* The terminal event: the worker sends it and lets go of the request.     *)
LEMMA StreamTerminal ==
    ASSUME StreamInv, NEW r \in Requests, ReportError(r) \/ EmitCompleted(r) \/ EmitFailed(r)
    PROVE  StreamInv'
<1>1. Typed /\ Numbered /\ HandsOf /\ Streams /\ \A q \in Requests : Sound(q)
  BY DEF StreamInv
<1>2. /\ worker[r] \notin Over
      /\ worker' = [worker EXCEPT ![r] = "leaving"]
      /\ UNCHANGED <<call, listening, queue, batch, current, dispatcher, late, position,
                     emitted, arrival>>
  BY DEF ReportError, EmitCompleted, EmitFailed, WorkerStep, admission,
     dispatching, ending
<1>3. active' = active \/ active' = [active EXCEPT ![r] = FALSE]
  BY DEF ReportError, EmitCompleted, EmitFailed
<1>4. PICK kind \in Terminal : Emit(r, kind, emitted[r])
  BY DEF ReportError, EmitCompleted, EmitFailed, Terminal
<1>5. InHand(r) /\ ~Ended(r)
  <2>1. InHand(r)
    BY <1>2 DEF InHand
  <2> QED
    BY <1>1, <2>1 DEF Sound, Accounted
<1>6. /\ Streams'
      /\ \A q \in Requests \ {r} : (Ended(q)' <=> Ended(q))
      /\ (Ended(r)' <=> listening[r])
  <2>1. kind \in EventKinds /\ emitted[r] \in Nat
    BY <1>1 DEF EventKinds, Numbered
  <2>2. Streams' /\ \A q \in Requests \ {r} : (Ended(q)' <=> Ended(q))
    BY <1>1, <1>4, <1>5, <2>1, EmitStep
  <2>3. (Ended(r)' <=> listening[r] /\ kind \in Terminal)
    BY <1>1, <1>4, <1>5, <2>1, EmitStep
  <2> QED
    BY <2>2, <2>3
<1>7. Typed' /\ HandsOf'
  <2>1. active' \in [Requests -> BOOLEAN]
    BY <1>1, <1>3 DEF Typed
  <2> QED
    BY <1>1, <1>2, <2>1 DEF Typed, HandsOf, WorkerStates
<1>8. ASSUME NEW q \in Requests
      PROVE  Sound(q)'
  <2>1. Sound(q)
    BY <1>1
  <2>2. CASE q # r
    <3>1. SamePlace(q)
      BY <1>1, <1>2, <2>2 DEF Typed, SamePlace
    <3>2. SameFlags(q)
      BY <1>1, <1>2, <1>3, <1>6, <2>2 DEF Typed, SameFlags
    <3> QED
      BY <2>1, <3>1, <3>2, SameSound
  <2>3. CASE q = r
    <3>1. worker'[q] = "leaving" /\ (active'[q] => active[q])
      BY <1>1, <1>2, <1>3, <2>3 DEF Typed
    <3>2. Apart(q)'
      BY <1>2, <2>1, <2>3, <3>1 DEF Sound, Apart
    <3>3. ~InHand(q)' /\ call[q] # "idle"
      BY <1>2, <2>1, <2>3, <3>1 DEF Sound, Apart, InHand
    <3>4. active'[q] => listening'[q] /\ Ended(q)'
      BY <1>2, <1>6, <2>1, <2>3, <3>1 DEF Sound, Accounted
    <3>5. Accounted(q)'
      BY <1>2, <3>3, <3>4 DEF Accounted
    <3>6. Bounded(q)'
      BY <1>2, <2>1, <3>1 DEF Sound, Bounded
    <3> QED
      BY <3>2, <3>5, <3>6 DEF Sound
  <2> QED
    BY <2>2, <2>3
<1> QED
  BY <1>1, <1>2, <1>6, <1>7, <1>8, SameNumbers, Combine

LEMMA StreamDeregister ==
    ASSUME StreamInv, NEW r \in Requests, Deregister(r)
    PROVE  StreamInv'
<1>1. Typed /\ Numbered /\ HandsOf /\ Streams /\ \A q \in Requests : Sound(q)
  BY DEF StreamInv
<1>2. /\ worker[r] = "leaving"
      /\ worker' = [worker EXCEPT ![r] = "gone"]
      /\ UNCHANGED <<call, active, listening, queue, batch, current, dispatcher, late, stream,
                     position, emitted, arrival>>
  BY DEF Deregister, WorkerStep, admission, dispatching, ending
<1>3. Streams' /\ \A q \in Requests : (Ended(q)' <=> Ended(q))
  BY <1>1, <1>2, SilentStep
<1>4. Typed' /\ HandsOf'
  BY <1>1, <1>2 DEF Typed, HandsOf, WorkerStates
<1>5. ASSUME NEW q \in Requests
      PROVE  Sound(q)'
  <2>1. Sound(q) /\ SameFlags(q)
    BY <1>1, <1>2, <1>3 DEF SameFlags
  <2>2. CASE q # r
    <3>1. SamePlace(q)
      BY <1>1, <1>2, <2>2 DEF Typed, SamePlace
    <3> QED
      BY <2>1, <3>1, SameSound
  <2>3. CASE q = r
    <3>1. worker'[q] = "gone"
      BY <1>1, <1>2, <2>3 DEF Typed
    <3>2. Apart(q)'
      BY <1>2, <2>1, <2>3, <3>1 DEF Sound, Apart
    <3>3. (InHand(q)' <=> InHand(q))
      BY <1>2, <2>3, <3>1 DEF InHand
    <3>4. Accounted(q)'
      BY <1>2, <2>1, <3>3 DEF Sound, Accounted, SameFlags
    <3>5. Bounded(q)'
      BY <1>2, <2>1, <3>1 DEF Sound, Bounded, SameFlags
    <3> QED
      BY <3>2, <3>4, <3>5 DEF Sound
  <2> QED
    BY <2>2, <2>3
<1> QED
  BY <1>1, <1>2, <1>3, <1>4, <1>5, SameNumbers, Combine

(* remove_queued(): the terminal event, and the request leaves the queue.  *)
LEMMA StreamRemove ==
    ASSUME StreamInv, NEW r \in Requests, RemoveQueued(r), handle[r] \in queue
    PROVE  StreamInv'
<1>1. Typed /\ Numbered /\ HandsOf /\ Streams /\ \A q \in Requests : Sound(q)
  BY DEF StreamInv
<1>2. PICK h \in Requests : h = handle[r] /\ h \in queue
  BY <1>1 DEF Typed
<1>3. queue' = queue \ {h} /\ Emit(h, "failed", 0)
  BY <1>2 DEF RemoveQueued
<1>4. UNCHANGED <<call, active, listening, batch, current, dispatcher, worker, late, position,
                  emitted, arrival>>
  BY DEF RemoveQueued, working, ending
<1>5. InHand(h) /\ ~Ended(h)
  <2>1. InHand(h)
    BY <1>2 DEF InHand
  <2> QED
    BY <1>1, <2>1 DEF Sound, Accounted
<1>6. /\ Streams'
      /\ \A q \in Requests \ {h} : (Ended(q)' <=> Ended(q))
      /\ (Ended(h)' <=> listening[h])
  <2>1. "failed" \in EventKinds /\ "failed" \in Terminal
    BY DEF EventKinds, Terminal
  <2>2. Streams' /\ \A q \in Requests \ {h} : (Ended(q)' <=> Ended(q))
    BY <1>1, <1>3, <1>5, <2>1, EmitStep
  <2>3. (Ended(h)' <=> listening[h] /\ "failed" \in Terminal)
    BY <1>1, <1>3, <1>5, <2>1, EmitStep
  <2> QED
    BY <2>1, <2>2, <2>3
<1>7. Typed' /\ HandsOf'
  BY <1>1, <1>3, <1>4 DEF Typed, HandsOf
<1>8. ASSUME NEW q \in Requests
      PROVE  Sound(q)'
  <2>1. Sound(q)
    BY <1>1
  <2>2. CASE q # h
    <3>1. SamePlace(q) /\ SameFlags(q)
      BY <1>3, <1>4, <1>6, <2>2 DEF SamePlace, SameFlags
    <3> QED
      BY <2>1, <3>1, SameSound
  <2>3. CASE q = h
    <3>1. Apart(q)'
      BY <1>2, <1>3, <1>4, <2>1, <2>3 DEF Sound, Apart
    <3>2. ~InHand(q)' /\ call[q] # "idle"
      BY <1>2, <1>3, <1>4, <2>1, <2>3 DEF Sound, Apart, InHand
    <3>3. active'[q] => listening'[q] /\ Ended(q)'
      BY <1>4, <1>6, <2>1, <2>3 DEF Sound, Accounted
    <3>4. Accounted(q)'
      BY <1>4, <3>2, <3>3 DEF Accounted
    <3>5. Bounded(q)'
      BY <1>4, <2>1 DEF Sound, Bounded
    <3> QED
      BY <3>1, <3>4, <3>5 DEF Sound
  <2> QED
    BY <2>2, <2>3
<1> QED
  BY <1>1, <1>4, <1>6, <1>7, <1>8, SameNumbers, Combine

(* Steps that at most deactivate requests or, in the destructor, take      *)
(* queue and callbacks away from inactive ones.                            *)
LEMMA StreamAside ==
    ASSUME StreamInv,
           UNCHANGED <<call, batch, current, dispatcher, worker, late, stream, position,
                       emitted, arrival>>,
           \/ UNCHANGED <<active, listening, queue>>
           \/ /\ UNCHANGED <<listening, queue>>
              /\ \E q : active' = [active EXCEPT ![q] = FALSE]
           \/ /\ listening' = [q \in Requests |-> FALSE]
              /\ active' = [q \in Requests |-> FALSE]
              /\ queue' = {}
    PROVE  StreamInv'
<1>1. Typed /\ Numbered /\ HandsOf /\ Streams /\ \A q \in Requests : Sound(q)
  BY DEF StreamInv
<1>2. Streams' /\ \A q \in Requests : (Ended(q)' <=> Ended(q))
  BY <1>1, SilentStep
<1>3. /\ active' \in [Requests -> BOOLEAN]
      /\ listening' \in [Requests -> BOOLEAN]
      /\ queue' \in SUBSET queue
      /\ \A q \in Requests :
            /\ active'[q] => active[q]
            /\ active'[q] => (q \in queue => q \in queue') /\ listening'[q] = listening[q]
  <2>1. CASE UNCHANGED <<active, listening, queue>>
    BY <1>1, <2>1 DEF Typed
  <2>2. CASE UNCHANGED <<listening, queue>> /\ \E q : active' = [active EXCEPT ![q] = FALSE]
    <3>1. PICK p : active' = [active EXCEPT ![p] = FALSE]
      BY <2>2
    <3>2. active' \in [Requests -> BOOLEAN] /\ \A q \in Requests : active'[q] => active[q]
      BY <1>1, <3>1 DEF Typed
    <3> QED
      BY <1>1, <2>2, <3>2 DEF Typed
  <2>3. CASE /\ listening' = [q \in Requests |-> FALSE]
             /\ active' = [q \in Requests |-> FALSE]
             /\ queue' = {}
    BY <2>3
  <2> QED
    BY <2>1, <2>2, <2>3
<1>4. Typed' /\ HandsOf'
  BY <1>1, <1>3 DEF Typed, HandsOf
<1>5. ASSUME NEW q \in Requests
      PROVE  Sound(q)'
  <2>1. Sound(q) /\ (Ended(q)' <=> Ended(q))
    BY <1>1, <1>2
  <2>2. /\ q \in queue' => q \in queue
        /\ active'[q] => active[q] /\ listening'[q] = listening[q]
                         /\ (q \in queue => q \in queue')
    BY <1>3
  <2>3. Apart(q)'
    BY <2>1, <2>2 DEF Sound, Apart
  <2>4. Bounded(q)'
    BY <2>1, <2>2 DEF Sound, Bounded
  <2>5. (InHand(q)' => InHand(q)) /\ (active'[q] /\ InHand(q) => InHand(q)')
    BY <2>2 DEF InHand
  <2>6. Accounted(q)'
    BY <2>1, <2>2, <2>5 DEF Sound, Accounted
  <2> QED
    BY <2>3, <2>4, <2>6 DEF Sound
<1> QED
  BY <1>1, <1>2, <1>4, <1>5, SameNumbers, Combine

LEMMA StreamStep ==
    ASSUME StreamInv, [RuntimeNext]_vars
    PROVE  StreamInv'
<1> USE DEF admission, dispatching, working, ending
<1>1. CASE \E r \in Requests : Admit(r) \/ Generate(r)
  <2>1. PICK r \in Requests : Admit(r) \/ Generate(r)
    BY <1>1
  <2> QED
    BY <2>1, StreamAdmit, StreamCall, StreamPush, StreamAnnounce DEF Generate
<1>2. CASE \E r \in Requests : Work(r) \/ CallRemote(r) \/ LoseCall(r)
  <2>1. PICK r \in Requests : Work(r) \/ CallRemote(r) \/ LoseCall(r)
    BY <1>2
  <2> QED
    BY <2>1, StreamCompute, StreamToken, StreamTerminal,
       StreamDeregister DEF Work
<1>3. CASE Dispatch
  BY <1>3, StreamTake, StreamDrop, StreamPick, StreamSpawn, StreamRecord,
     StreamDispatchStarted DEF Dispatch
<1>4. CASE \E r \in Requests : RemoveQueued(r)
  <2>1. PICK r \in Requests : RemoveQueued(r)
    BY <1>4
  <2>2. CASE handle[r] \in queue
    BY <2>1, <2>2, StreamRemove
  <2>3. CASE handle[r] \notin queue
    BY <2>1, <2>3, StreamAside DEF RemoveQueued
  <2> QED
    BY <2>2, <2>3
<1>5. CASE \E r \in Requests : Cancel(r) \/ StopToken(r)
  <2>1. UNCHANGED <<call, batch, current, dispatcher, worker, late, stream, position, emitted,
                    arrival, active, listening, queue>>
    BY <1>5 DEF Cancel, StopToken
  <2> QED
    BY <2>1, StreamAside
<1>6. CASE \E r \in Requests : ClearActive(r)
  <2>1. PICK r \in Requests : ClearActive(r)
    BY <1>6
  <2>2. UNCHANGED <<call, batch, current, dispatcher, worker, late, stream, position, emitted,
                    arrival, listening, queue>>
    BY <2>1 DEF ClearActive
  <2>3. active' = [active EXCEPT ![handle[r]] = FALSE]
    BY <2>1 DEF ClearActive
  <2> QED
    BY <2>2, <2>3, StreamAside
<1>7. CASE \E m \in Modes : Configure(m)
  BY <1>7, StreamAside DEF Configure
<1>8. CASE DetachCallbacks
  BY <1>8, StreamAside DEF DetachCallbacks
<1>9. CASE Destruct \/ GrabWorkers \/ JoinWorkers
  BY <1>9, StreamAside DEF Destruct, GrabWorkers, JoinWorkers
<1>10. CASE UNCHANGED vars
  BY <1>10, StreamAside DEF vars
<1> QED
  BY <1>1, <1>2, <1>3, <1>4, <1>5, <1>6, <1>7, <1>8, <1>9,
     <1>10 DEF RuntimeNext

LEMMA AlwaysStreamInv == RuntimeSpec => []StreamInv
<1>1. Init => StreamInv
  BY StreamInitially
<1>2. StreamInv /\ [RuntimeNext]_vars => StreamInv'
  BY StreamStep
<1> QED
  BY <1>1, <1>2, PTL DEF RuntimeSpec

(* Between them, generate(), the queue, the dispatcher, the workers, the   *)
(* cancellations and the destructor send a request at most one terminal    *)
(* event and nothing after it.                                             *)
THEOREM StreamsEndOnce == RuntimeSpec => []TerminalIsLast
<1>1. StreamInv => TerminalIsLast
  BY DEF StreamInv, Streams
<1> QED
  BY <1>1, AlwaysStreamInv, PTL

(* No two threads ever have a request in hand, and an active request whose *)
(* stream has not ended is never in nobody's.                              *)
THEOREM RequestsHeldByOne == RuntimeSpec => []HeldByOne
<1>1. ASSUME StreamInv, NEW r \in Requests
      PROVE  /\ Cardinality(Holders(r)) <= 1
             /\ active[r] /\ ~Ended(r) => Holders(r) # {}
  <2>1. Typed /\ Apart(r) /\ Accounted(r)
    BY <1>1 DEF StreamInv, Sound
  <2>2. \A g, h \in Holders(r) : g = h
    <3>1. call[r] \in InGenerate => Holders(r) = {"generate"}
      BY <2>1 DEF Holders, Apart
    <3>2. r \in queue => Holders(r) = {"queue"}
      BY <2>1 DEF Holders, Apart
    <3>3. r \in batch \/ (r = current /\ worker[r] = "none") => Holders(r) = {"dispatcher"}
      BY <2>1 DEF Holders, Apart
    <3>4. worker[r] \notin Over => Holders(r) = {"worker"}
      BY <2>1 DEF Holders, Apart
    <3>5. InHand(r) \/ Holders(r) = {}
      BY DEF Holders, InHand
    <3> QED
      BY <3>1, <3>2, <3>3, <3>4, <3>5 DEF InHand
  <2>3. Holders(r) = {} \/ \E h : Holders(r) = {h}
    BY <2>2
  <2>4. Cardinality(Holders(r)) <= 1
    <3>1. CASE Holders(r) = {}
      <4>1. Cardinality(Holders(r)) = 0
        BY <3>1, FS_EmptySet
      <4> QED
        BY <4>1, SMT
    <3>2. CASE \E h : Holders(r) = {h}
      <4>1. Cardinality(Holders(r)) = 1
        BY <3>2, FS_Singleton
      <4> QED
        BY <4>1, SMT
    <3> QED
      BY <2>3, <3>1, <3>2
  <2>5. InHand(r) => Holders(r) # {}
    <3>1. CASE call[r] \in InGenerate
      <4>1. "generate" \in Holders(r)
        BY <3>1 DEF Holders
      <4> QED
        BY <4>1
    <3>2. CASE r \in queue
      <4>1. "queue" \in Holders(r)
        BY <3>2 DEF Holders
      <4> QED
        BY <4>1
    <3>3. CASE r \in batch \/ (r = current /\ worker[r] = "none")
      <4>1. "dispatcher" \in Holders(r)
        BY <3>3 DEF Holders
      <4> QED
        BY <4>1
    <3>4. CASE worker[r] \notin Over
      <4>1. "worker" \in Holders(r)
        BY <3>4 DEF Holders
      <4> QED
        BY <4>1
    <3> QED
      BY <3>1, <3>2, <3>3, <3>4 DEF InHand
  <2> QED
    BY <2>1, <2>4, <2>5 DEF Accounted
<1>2. StreamInv => HeldByOne
  BY <1>1 DEF HeldByOne
<1> QED
  BY <1>2, AlwaysStreamInv, PTL

(* After a cancellation, by handle or by the destructor, and wherever it   *)
(* meets the worker, at most one more token is delivered.                  *)
THEOREM CancelStopsTokens == RuntimeSpec => []CancelBoundsTokens
<1>1. StreamInv => CancelBoundsTokens
  BY DEF StreamInv, Sound, Bounded, CancelBoundsTokens
<1> QED
  BY <1>1, AlwaysStreamInv, PTL
===============================================================================
