------------------------- MODULE WorkerActorProofs -------------------------
(***************************************************************************)
(* What is proved of the Worker actor's custody, for any number of local   *)
(* generations, remote activations, sessions and faults, in four layers    *)
(* over the types.                                                         *)
(*                                                                         *)
(* BearerInv: an operation in progress works with a bearer that is out of  *)
(* use, and puts it into use only for the generation it issued.            *)
(*                                                                         *)
(* ReceiptInv: a relinquish in progress is the one its receipt names, and  *)
(* a receipt past the stop names a process that is gone.                   *)
(*                                                                         *)
(* PledgeInv, SoleInv: an activation whose record may still arrive has its *)
(* credential in place and nothing local beside it, so recording it late   *)
(* makes no second custodian.                                              *)
(*                                                                         *)
(* AbortInv: the tombstone of an aborted activation is there for good.     *)
(***************************************************************************)
EXTENDS WorkerActor, TLAPS

Files == [gen : Gens \cup {None}, whole : BOOLEAN]
Launchers ==
  [made : BOOLEAN, shutdown : BOOLEAN, active : Locals \cup {None},
   preparing : Locals \cup {None}, uncertain : BOOLEAN]
Receipts ==
  [state : {"none", "fencing", "fenced", "stop_unknown", "stopped", "complete"},
   gen : Locals \cup {None}, captured : SUBSET Gens]
Steps == {"none", "clear", "prepared", "issued", "activated", "installed", "fenced", "stopped"}
Operations == [kind : {"none", "start", "relinquish"}, step : Steps, gen : Locals \cup {None}]

(* The types, that a binding is never to a session to come, that only a     *)
(* daemon that runs is stopping, and that the last session does not end.    *)
Typed ==
  /\ files \in Files /\ launcher \in Launchers /\ rel \in Receipts /\ op \in Operations
  /\ disabled \in BOOLEAN /\ marker \in BOOLEAN
  /\ latest \in Acts \cup {None} /\ intents \subseteq Acts
  /\ history \in [Acts -> SUBSET {"qualified", "accepted", "revoked", "unqualified", "draining"}]
  /\ work \in [Gens -> {"none", "running", "cancelling", "stopped"}]
  /\ kind \in Kinds /\ up \in BOOLEAN /\ stopping \in BOOLEAN /\ session \in 0..MaxSessions
  /\ held \in Locals \cup {None} /\ watch \in Locals \cup {None} /\ toAbort \subseteq Locals
  /\ proc \in [Locals -> {"unborn", "alive", "dead"}]
  /\ ctl \in [Acts -> {"none", "qualified", "provisioned", "failing", "retained", "aborted"}]
  /\ bound \in [Gens -> 0..MaxSessions] /\ sent \subseteq Acts /\ faults \in 0..MaxFaults
  /\ \A g \in Gens : bound[g] <= session
  /\ (stopping => up) /\ (~up \/ stopping => session < MaxSessions)

-----------------------------------------------------------------------------
(* The parts that several actions share. *)

(* A revoked actor is disabled; its files are gone or still that            *)
(* generation's, and whole ones are unchanged.                              *)
LEMMA RevokeEffect ==
  ASSUME Typed, RevokeActor
  PROVE  /\ disabled' = TRUE /\ files' \in Files /\ faults' \in 0..MaxFaults
         /\ files'.gen \in {None, files.gen} /\ (files'.whole => files' = files)
<1>1. files \in Files /\ faults \in 0..MaxFaults
  BY Zenon DEF Typed
<1>2. faults' \in 0..MaxFaults
  <2>1. faults' = faults \/ (faults < MaxFaults /\ faults' = faults + 1)
    BY Zenon DEF RevokeActor, Deleted, Undeleted, Fault, NoFault
  <2> QED
    BY <1>1, <2>1, ActorAssumption
<1>3. CASE Deleted
  BY <1>1, <1>2, <1>3, Zenon DEF RevokeActor, Deleted, NoFiles, Files
<1>4. CASE Undeleted
  BY <1>1, <1>2, <1>4, Zenon DEF RevokeActor, Undeleted, Torn, Files
<1> QED
  BY <1>3, <1>4, Zenon DEF RevokeActor

(* What an abort does to the launcher and to the process. *)
LEMMA AbortEffect ==
  ASSUME Typed, NEW g \in Locals, Abort(g, Cleared(g))
  PROVE  /\ launcher' \in Launchers /\ launcher'.made = launcher.made
         /\ launcher'.shutdown = launcher.shutdown
         /\ launcher'.active \in {None, launcher.active}
         /\ launcher'.preparing \in {None, launcher.preparing}
         /\ proc' \in [Locals -> {"unborn", "alive", "dead"}]
         /\ \A h \in Locals : proc[h] = "dead" => proc'[h] = "dead"
         /\ held' \in Locals \cup {None} /\ marker' \in BOOLEAN
<1>1. launcher \in Launchers /\ proc \in [Locals -> {"unborn", "alive", "dead"}]
      /\ held \in Locals \cup {None} /\ marker \in BOOLEAN
  BY Zenon DEF Typed
<1> QED
  BY <1>1, ZenonT(30) DEF Abort, Cleared, Launchers

(* A new launcher has no worker, and an existing bearer is unusable. *)
LEMMA MakeEffect ==
  ASSUME Typed, NEW d \in BOOLEAN, MakeLauncher(d), ~Unresolved
  PROVE  /\ launcher' \in Launchers /\ launcher'.made
         /\ launcher'.active = None /\ launcher'.preparing = None
         /\ marker' \in BOOLEAN /\ disabled' \in BOOLEAN /\ files' = files
         /\ disabled' \/ Metadata = None
         /\ d => disabled'
<1>1. files \in Files /\ marker \in BOOLEAN
  BY Zenon DEF Typed
<1>2. Metadata \notin Acts
  BY Zenon DEF Unresolved
<1> QED
  BY <1>1, <1>2, Zenon DEF MakeLauncher, NoLauncher, Launchers, Secure

(* The count of faults stays within its bound. *)
LEMMA FaultEffect ==
  ASSUME Typed, Fault \/ NoFault
  PROVE  faults' \in 0..MaxFaults
  BY ActorAssumption DEF Typed, Fault, NoFault

(* The deletion of one activation's files. *)
LEMMA CleanupEffect ==
  ASSUME Typed, NEW a \in Acts, Cleanup(a)
  PROVE  /\ files' \in Files /\ faults' \in 0..MaxFaults /\ disabled' \in BOOLEAN
         /\ intents' \subseteq Acts
         /\ \/ disabled' = disabled /\ files' = files
            \/ /\ disabled' = TRUE /\ files.gen = a
               /\ files'.gen \in {None, a} /\ (files'.whole => files' = files)
<1>1. CASE RevokeActor /\ Exists /\ Cleanable(a) /\ intents' = intents \cup {a}
  BY <1>1, RevokeEffect, Zenon DEF Typed, Cleanable, Exists
<1>2. CASE UNCHANGED <<intents, files, disabled, faults>>
  BY <1>2, Zenon DEF Typed
<1> QED
  BY <1>1, <1>2, Zenon DEF Cleanup

-----------------------------------------------------------------------------
(* The types. *)

(* The initial state is typed. *)
LEMMA TypedInit == Init => Typed
<1> SUFFICES ASSUME Init PROVE Typed
  OBVIOUS
<1>1. 0 \in 0..MaxSessions /\ 0 \in 0..MaxFaults /\ 0 < MaxSessions /\ 0 <= 0
  BY ActorAssumption
<1>2. files \in Files /\ launcher \in Launchers /\ rel \in Receipts /\ op \in Operations
  BY Zenon DEF Init, Files, NoFiles, NoRel, NoOp, NoLauncher, Launchers, Receipts, Operations, Steps
<1>3. \A g \in Gens : bound[g] <= session
  BY <1>1, Zenon DEF Init
<1> QED
  BY <1>1, <1>2, <1>3, Zenon DEF Init, Typed

(* The steps of the daemon keep the types. *)
LEMMA TypedDaemon ==
  ASSUME Typed, DaemonStart \/ BeginStop \/ FinishStop \/ Crash
  PROVE  Typed'
<1> USE DEF Typed, daemon, disk, events, local, remote
<1>1. CASE DaemonStart
  <2>1. files' \in Files /\ launcher' \in Launchers /\ disabled' \in BOOLEAN /\ marker' \in BOOLEAN
    <3>1. CASE ~Unresolved /\ ~RelPending /\ MakeLauncher(FALSE)
      BY <3>1, MakeEffect, Zenon
    <3>2. CASE disabled' = TRUE /\ launcher' = NoLauncher /\ UNCHANGED <<files, marker>>
      BY <3>2, Zenon DEF NoLauncher, Launchers
    <3> QED
      BY <1>1, <3>1, <3>2, Zenon DEF DaemonStart
  <2>2. session' \in 0..MaxSessions /\ session <= session'
    BY <1>1, ActorAssumption, SMT DEF DaemonStart
  <2>3. \A g \in Gens : bound'[g] <= session'
    BY <1>1, <2>2, ActorAssumption, SMT DEF DaemonStart, Gens
  <2>4. up' /\ ~stopping'
    BY <1>1, Zenon DEF DaemonStart
  <2> QED
    BY <1>1, <2>1, <2>2, <2>3, <2>4, ZenonT(60) DEF DaemonStart
<1>2. CASE BeginStop
  <2>1. CASE ~launcher.made /\ UNCHANGED <<disabled, files, launcher, toAbort, faults>>
    BY <1>2, <2>1, Zenon DEF BeginStop, Serving
  <2>2. CASE /\ launcher.made /\ RevokeActor
             /\ launcher' = [launcher EXCEPT !.shutdown = TRUE, !.active = None, !.preparing = None]
             /\ toAbort' = {launcher.active, launcher.preparing, held} \ {None}
    <3>1. launcher' \in Launchers /\ toAbort' \subseteq Locals
      BY <2>2, Zenon DEF Launchers
    <3> QED
      BY <1>2, <2>2, <3>1, RevokeEffect, Zenon DEF BeginStop, Serving
  <2> QED
    BY <1>2, <2>1, <2>2, Zenon DEF BeginStop
<1>3. CASE FinishStop
  <2>1. proc' \in [Locals -> {"unborn", "alive", "dead"}]
    BY <1>3, Zenon DEF FinishStop
  <2> QED
    BY <1>3, <2>1, Zenon DEF FinishStop, Down, NoLauncher, Launchers, NoOp, Operations, Steps
<1>4. CASE Crash
  BY <1>4, FaultEffect, Zenon DEF Crash, Down, NoLauncher, Launchers, NoOp, Operations, Steps
<1> QED
  BY <1>1, <1>2, <1>3, <1>4, Zenon

(* The steps that begin a launch keep the types. *)
LEMMA TypedLaunch ==
  ASSUME Typed, CreateLauncher \/ StartLocal \/ PrepareFails
  PROVE  Typed'
<1> USE DEF Typed, daemon, disk, events, local, remote
<1>1. CASE CreateLauncher
  BY <1>1, MakeEffect, Zenon DEF CreateLauncher
<1>2. CASE StartLocal
  <2>1. CASE Step("clear", None) /\ UNCHANGED <<disabled, files, launcher, held, marker, faults>>
    BY <1>2, <2>1, Zenon DEF StartLocal, Step, Operations, Steps
  <2>2. CASE Reconnect(Metadata) /\ Metadata # None /\ UNCHANGED <<files, marker, faults>>
    <3>1. Metadata \in Locals
      BY <1>2, <2>2, Zenon DEF StartLocal, Unresolved, Exists, Metadata
    <3>2. op' \in Operations /\ launcher' \in Launchers /\ held' \in Locals \cup {None} /\ disabled' \in BOOLEAN
      BY <2>2, <3>1, Zenon DEF Reconnect, Step, Operations, Steps, Launchers
    <3> QED
      BY <1>2, <2>2, <3>2, Zenon DEF StartLocal
  <2>3. CASE NoReconnect(Metadata) /\ RevokeActor /\ UNCHANGED <<held, launcher, marker>>
    <3>1. op' = op \/ op' = [kind |-> "start", step |-> "clear", gen |-> None]
      BY <2>3, Zenon DEF NoReconnect, Step
    <3>2. op' \in Operations
      BY <3>1, SMTT(20) DEF Operations, Steps
    <3> QED
      BY <1>2, <2>3, <3>2, RevokeEffect, Zenon DEF StartLocal
  <2> QED
    BY <1>2, <2>1, <2>2, <2>3, Zenon DEF StartLocal
<1>3. CASE PrepareFails
  BY <1>3, Zenon DEF PrepareFails, NoOp, Operations, Steps
<1> QED
  BY <1>1, <1>2, <1>3, Zenon

(* The steps of a local worker keep the types. *)
LEMMA TypedWorker ==
  ASSUME Typed, NEW g \in Locals,
         \/ Prepare(g) \/ Issue(g) \/ Activate(g) \/ Install(g) \/ Enable(g) \/ StartFails(g)
         \/ WorkerExits(g) \/ WatchLost(g) \/ WatchFence(g)
  PROVE  Typed'
<1> USE DEF Typed, daemon, disk, events, local, remote
<1>1. CASE Prepare(g)
  <2>1. g \in Gens
    BY Zenon DEF Gens
  <2>2. bound' \in [Gens -> 0..MaxSessions] /\ \A h \in Gens : bound'[h] = bound[h] \/ bound'[h] = session
    BY <1>1, <2>1, Zenon DEF Prepare
  <2>3. \A h \in Gens : bound'[h] <= session'
    BY <1>1, <2>2, ActorAssumption, SMT DEF Prepare
  <2>4. proc' \in [Locals -> {"unborn", "alive", "dead"}]
    BY <1>1, Zenon DEF Prepare
  <2> QED
    BY <1>1, <2>2, <2>3, <2>4, Zenon DEF Prepare, Step, Operations, Steps, Launchers
<1>2. CASE Issue(g)
  BY <1>2, Zenon DEF Issue, Step, Operations, Steps, Files, Whole, Gens
<1>3. CASE Activate(g)
  BY <1>3, Zenon DEF Activate, Step, Operations, Steps
<1>4. CASE Install(g)
  BY <1>4, Zenon DEF Install, Step, Operations, Steps, Launchers
<1>5. CASE Enable(g)
  BY <1>5, Zenon DEF Enable, NoOp, Operations, Steps
<1>6. CASE StartFails(g)
  <2>1. files' \in Files /\ faults' \in 0..MaxFaults /\ disabled' \in BOOLEAN
    BY <1>6, RevokeEffect, Zenon DEF StartFails
  <2> QED
    BY <1>6, <2>1, AbortEffect, Zenon DEF StartFails, NoOp, Operations, Steps
<1>7. CASE WorkerExits(g)
  BY <1>7, Zenon DEF WorkerExits
<1>8. CASE WatchLost(g)
  BY <1>8, FaultEffect, Zenon DEF WatchLost
<1>9. CASE WatchFence(g)
  <2>1. CASE UNCHANGED <<files, disabled, marker, launcher, held, proc, faults>>
    BY <1>9, <2>1, Zenon DEF WatchFence
  <2>2. CASE RevokeActor /\ Abort(g, Cleared(g))
    BY <1>9, <2>2, RevokeEffect, AbortEffect, Zenon DEF WatchFence
  <2> QED
    BY <1>9, <2>1, <2>2, Zenon DEF WatchFence
<1> QED
  BY <1>1, <1>2, <1>3, <1>4, <1>5, <1>6, <1>7, <1>8, <1>9, Zenon

(* The steps of a relinquishment keep the types. *)
LEMMA TypedRelinquish ==
  ASSUME Typed, NEW g \in Locals,
         RelinquishInterrupted(g) \/ RelinquishFence(g) \/ RelinquishStop(g) \/ RelinquishFinish(g)
  PROVE  Typed'
<1> USE DEF Typed, daemon, disk, events, local, remote
<1>1. Checkpoint(g) \in Receipts
  BY Zenon DEF Checkpoint, Receipts, Outstanding
<1>2. CASE RelinquishInterrupted(g)
  <2>1. /\ rel' \in Receipts /\ launcher' \in Launchers /\ op' \in Operations /\ faults' \in 0..MaxFaults
        /\ held' = None /\ watch' = None /\ toAbort' = {} /\ up' = FALSE /\ stopping' = FALSE
        /\ session' < MaxSessions
    BY <1>1, <1>2, FaultEffect, Zenon
      DEF RelinquishInterrupted, Down, NoLauncher, Launchers, NoOp, Operations, Steps
  <2> QED
    BY <1>2, <2>1, Zenon DEF RelinquishInterrupted
<1>3. CASE RelinquishFence(g)
  <2>1. rel' \in Receipts
    BY <1>1, <1>3, Zenon DEF RelinquishFence, Receipts
  <2>2. op' \in Operations
    BY <1>3, SMTT(20) DEF RelinquishFence, Operations, Steps
  <2> QED
    BY <1>3, <2>1, <2>2, Zenon DEF RelinquishFence
<1>4. CASE RelinquishStop(g)
  <2>1. launcher' \in Launchers /\ faults' \in 0..MaxFaults
    BY <1>4, FaultEffect, Zenon DEF RelinquishStop, LetGo, Launchers
  <2>2. rel' \in Receipts
    BY <1>4, Zenon DEF RelinquishStop, Receipts
  <2>3. op' \in Operations
    BY <1>4, SMTT(20) DEF RelinquishStop, NoOp, Operations, Steps
  <2>4. proc' \in [Locals -> {"unborn", "alive", "dead"}] /\ held' \in Locals \cup {None}
    BY <1>4, Zenon DEF RelinquishStop
  <2> QED
    BY <1>4, <2>1, <2>2, <2>3, <2>4, Zenon DEF RelinquishStop
<1>5. CASE RelinquishFinish(g)
  <2> DEFINE final == Finalized(rel.captured)
  <2>1. final \in [Gens -> {"none", "running", "cancelling", "stopped"}]
    BY Zenon DEF Finalized
  <2>2. CASE /\ work' = final /\ RevokeActor
             /\ \/ rel' = [rel EXCEPT !.state = "complete"] /\ launcher' = NoLauncher
                \/ UNCHANGED <<rel, launcher>>
    <3> HIDE DEF final
    <3>1. rel' \in Receipts /\ launcher' \in Launchers
      <4>1. CASE rel' = [rel EXCEPT !.state = "complete"] /\ launcher' = NoLauncher
        BY <4>1, Zenon DEF Receipts, NoLauncher, Launchers
      <4>2. CASE UNCHANGED <<rel, launcher>>
        BY <4>2, Zenon
      <4> QED
        BY <2>2, <4>1, <4>2, Zenon
    <3>2. op' \in Operations
      BY <1>5, Zenon DEF RelinquishFinish, NoOp, Operations, Steps
    <3> QED
      BY <1>5, <2>1, <2>2, <3>1, <3>2, RevokeEffect, Zenon DEF RelinquishFinish
  <2>3. CASE UNCHANGED <<files, disabled, work, rel, launcher, faults>>
    BY <1>5, <2>3, Zenon DEF RelinquishFinish, NoOp, Operations, Steps
  <2> QED
    BY <1>5, <2>2, <2>3, Zenon DEF RelinquishFinish
<1> QED
  BY <1>2, <1>3, <1>4, <1>5, Zenon

(* The steps of a remote activation keep the types. *)
LEMMA TypedRemote ==
  ASSUME Typed, NEW a \in Acts,
         \/ Qualify(a) \/ Provision(a) \/ Record(a) \/ EnableRemote(a) \/ ControllerFails(a)
         \/ RevokeUncommitted(a) \/ UncommittedRefused(a) \/ Revoke(a) \/ RevokeActivation(a)
         \/ BeginDrain(a) \/ FinishDrain(a)
  PROVE  Typed'
<1> USE DEF Typed, daemon, disk, events, local, remote
<1>1. CASE Qualify(a)
  <2>1. a \in Gens
    BY Zenon DEF Gens
  <2>2. bound' \in [Gens -> 0..MaxSessions] /\ \A h \in Gens : bound'[h] = bound[h] \/ bound'[h] = session
    BY <1>1, <2>1, Zenon DEF Qualify
  <2>3. \A h \in Gens : bound'[h] <= session'
    BY <1>1, <2>2, ActorAssumption, SMT DEF Qualify
  <2> QED
    BY <1>1, <2>2, <2>3, Zenon DEF Qualify
<1>2. CASE Provision(a)
  <2>1. \/ files' = files /\ disabled' = disabled
        \/ files' = [gen |-> a, whole |-> TRUE] /\ disabled' = TRUE
    BY <1>2, Zenon DEF Provision, Whole
  <2>2. files' \in Files /\ disabled' \in BOOLEAN
    <3>1. [gen |-> a, whole |-> TRUE] \in Files
      BY Zenon DEF Files, Gens
    <3> QED
      BY <2>1, <3>1, Zenon
  <2> QED
    BY <1>2, <2>2, Zenon DEF Provision
<1>3. CASE Record(a)
  <2>1. history' \in [Acts -> SUBSET {"qualified", "accepted", "revoked", "unqualified", "draining"}]
        /\ latest' \in Acts \cup {None}
    BY <1>3, ZenonT(40) DEF Record
  <2> QED
    BY <1>3, <2>1, Zenon DEF Record
<1>4. CASE EnableRemote(a)
  BY <1>4, Zenon DEF EnableRemote
<1>5. CASE ControllerFails(a)
  BY <1>5, Zenon DEF ControllerFails
<1>6. CASE RevokeUncommitted(a)
  BY <1>6, CleanupEffect, Zenon DEF RevokeUncommitted
<1>7. CASE UncommittedRefused(a)
  BY <1>7, Zenon DEF UncommittedRefused
<1>8. CASE Revoke(a)
  <2>1. history' \in [Acts -> SUBSET {"qualified", "accepted", "revoked", "unqualified", "draining"}]
        /\ latest' \in Acts \cup {None}
    BY <1>8, SMTT(20) DEF Revoke
  <2> QED
    BY <1>8, <2>1, CleanupEffect, Zenon DEF Revoke
<1>9. CASE RevokeActivation(a)
  BY <1>9, Zenon DEF RevokeActivation
<1>10. CASE BeginDrain(a)
  BY <1>10, Zenon DEF BeginDrain
<1>11. CASE FinishDrain(a)
  <2>1. /\ files' \in Files /\ faults' \in 0..MaxFaults /\ disabled' \in BOOLEAN
        /\ intents' \subseteq Acts
    BY <1>11, CleanupEffect, Zenon DEF FinishDrain
  <2> QED
    BY <1>11, <2>1, Zenon DEF FinishDrain
<1> QED
  BY <1>1, <1>2, <1>3, <1>4, <1>5, <1>6, <1>7, <1>8, <1>9, <1>10, <1>11, Zenon

(* The steps of the work keep the types. *)
LEMMA TypedWork ==
  ASSUME Typed, NEW g \in Gens, Claim(g) \/ CancelWork(g) \/ Settle(g) \/ Recover(g)
  PROVE  Typed'
<1>1. PICK state \in {"none", "running", "cancelling"} : WorkStep(g, state)
  BY Zenon DEF Claim, CancelWork, Settle, Recover
<1> QED
  BY <1>1, Zenon DEF Typed, WorkStep, daemon, disk, events, local, remote

(* Every step keeps the types. *)
LEMMA TypedStep == Typed /\ [Next]_vars => Typed'
<1> SUFFICES ASSUME Typed, [Next]_vars PROVE Typed'
  OBVIOUS
<1>1. CASE UNCHANGED vars
  BY <1>1, Zenon DEF Typed, vars, daemon, disk, events, local, remote
<1>2. CASE Next
  BY <1>2, TypedDaemon, TypedLaunch, TypedWorker, TypedRelinquish, TypedRemote, TypedWork, ZenonT(60) DEF Next
<1> QED
  BY <1>1, <1>2, Zenon

(* The documented types hold in every state. *)
THEOREM CustodyTyped == Spec => []TypeOK
<1>1. Typed => TypeOK
  BY Zenon DEF Typed, TypeOK, Files, Launchers, Receipts
<1> QED
  BY <1>1, TypedInit, TypedStep, PTL DEF Spec

-----------------------------------------------------------------------------
(* Who may use the bearer. *)

(* A recorded activation was sent, and a sent one qualified before. *)
Known ==
  /\ \A a \in Acts : "qualified" \in history[a] \/ "accepted" \in history[a] => a \in sent
  /\ \A a \in sent : ctl[a] # "none"

(* What an ending adds to an activation's history. *)
Added(a, e) == history' = [history EXCEPT ![a] = @ \cup e]

(* Ending an activation only adds to its history. *)
LEMMA EndingAdds ==
  ASSUME Typed, NEW a \in Acts,
         Revoke(a) \/ RevokeActivation(a) \/ BeginDrain(a) \/ FinishDrain(a) \/ RevokeUncommitted(a)
  PROVE  \E e \in SUBSET {"revoked", "unqualified", "draining"} : Added(a, e)
<1>1. history = [history EXCEPT ![a] = @ \cup {}]
  BY DEF Typed
<1>2. CASE Revoke(a)
  <2>1. \/ history' = history
        \/ history' = [history EXCEPT ![a] = @ \cup {"revoked"}]
        \/ history' = [history EXCEPT ![a] = @]
        \/ history' = [history EXCEPT ![a] = @ \cup {"revoked", "unqualified"}]
    BY <1>2, Zenon DEF Revoke
  <2>2. [history EXCEPT ![a] = @] = [history EXCEPT ![a] = @ \cup {}]
    BY DEF Typed
  <2> QED
    BY <1>1, <2>1, <2>2, Zenon DEF Added
<1>3. CASE RevokeActivation(a) \/ BeginDrain(a) \/ FinishDrain(a) \/ RevokeUncommitted(a)
  BY <1>3, Zenon DEF RevokeActivation, BeginDrain, FinishDrain, RevokeUncommitted, Added
<1> QED
  BY <1>2, <1>3, Zenon

(* Every step keeps what is known of the activations, and an accepted one stays bound. *)
LEMMA KnownStep ==
  ASSUME Typed, Known, [Next]_vars
  PROVE  /\ Known'
         /\ \A a \in Acts : "accepted" \in history[a] => "accepted" \in history'[a] /\ bound'[a] = bound[a]
<1> USE DEF Typed, Known, daemon, disk, events, local, remote
<1> DEFINE Goal == /\ Known'
                   /\ \A a \in Acts : "accepted" \in history[a] =>
                        "accepted" \in history'[a] /\ bound'[a] = bound[a]
<1>1. ASSUME UNCHANGED <<history, ctl, bound, sent>> PROVE Goal
  BY <1>1, Zenon
<1>2. ASSUME NEW g \in Locals, Prepare(g) PROVE Goal
  <2>1. \A a \in Acts : bound'[a] = bound[a]
    BY <1>2, ActorAssumption, Zenon DEF Prepare, Gens
  <2> QED
    BY <1>2, <2>1, Zenon DEF Prepare
<1>3. ASSUME NEW a \in Acts, Qualify(a) PROVE Goal
  BY <1>3, Zenon DEF Qualify, Gens
<1>4. ASSUME NEW a \in Acts, Provision(a) PROVE Goal
  BY <1>4, Zenon DEF Provision
<1>5. ASSUME NEW a \in Acts, Record(a) PROVE Goal
  BY <1>5, Zenon DEF Record
<1>6. ASSUME NEW a \in Acts, ControllerFails(a) \/ UncommittedRefused(a) PROVE Goal
  BY <1>6, Zenon DEF ControllerFails, UncommittedRefused
<1>7. ASSUME NEW a \in Acts, RevokeUncommitted(a) PROVE Goal
  BY <1>7, Zenon DEF RevokeUncommitted
<1>8. ASSUME NEW a \in Acts, Revoke(a) \/ RevokeActivation(a) \/ BeginDrain(a) \/ FinishDrain(a) PROVE Goal
  <2>1. UNCHANGED <<ctl, bound, sent>>
    BY <1>8, Zenon DEF Revoke, RevokeActivation, BeginDrain, FinishDrain
  <2>2. PICK e \in SUBSET {"revoked", "unqualified", "draining"} : Added(a, e)
    BY <1>8, EndingAdds, Zenon
  <2>3. history'[a] = history[a] \cup e /\ \A b \in Acts \ {a} : history'[b] = history[b]
    BY <2>2, Zenon DEF Added
  <2>4. \A b \in Acts : /\ history[b] \subseteq history'[b]
                        /\ "qualified" \in history'[b] => "qualified" \in history[b]
                        /\ "accepted" \in history'[b] => "accepted" \in history[b]
    BY <2>3, SMT
  <2> QED
    BY <2>1, <2>4, Zenon
<1>9. ASSUME NEW g \in Gens, Claim(g) \/ CancelWork(g) \/ Settle(g) \/ Recover(g) PROVE Goal
  BY <1>1, <1>9, Zenon DEF Claim, CancelWork, Settle, Recover, WorkStep
<1>10. ASSUME DaemonStart \/ BeginStop \/ FinishStop \/ Crash \/ CreateLauncher \/ StartLocal \/ PrepareFails
       PROVE  Goal
  BY <1>1, <1>10, Zenon DEF DaemonStart, BeginStop, FinishStop, Crash, CreateLauncher, StartLocal, PrepareFails
<1>11. ASSUME NEW g \in Locals,
              \/ Issue(g) \/ Activate(g) \/ Install(g) \/ Enable(g) \/ StartFails(g)
              \/ WorkerExits(g) \/ WatchLost(g) \/ WatchFence(g) \/ RelinquishInterrupted(g)
              \/ RelinquishFence(g) \/ RelinquishStop(g) \/ RelinquishFinish(g)
       PROVE  Goal
  BY <1>1, <1>11, Zenon DEF Issue, Activate, Install, Enable, StartFails, WorkerExits, WatchLost,
    WatchFence, RelinquishInterrupted, RelinquishFence, RelinquishStop, RelinquishFinish
<1>12. ASSUME NEW a \in Acts, EnableRemote(a) PROVE Goal
  BY <1>1, <1>12, Zenon DEF EnableRemote
<1>13. CASE UNCHANGED vars
  BY <1>1, <1>13, Zenon DEF vars
<1> QED
  BY <1>2, <1>3, <1>4, <1>5, <1>6, <1>7, <1>8, <1>9, <1>10, <1>11, <1>12, <1>13, ZenonT(60) DEF Next

(* What an operation in progress relies on: the bearer is out of use from   *)
(* its first step on, and the credential a start issued is its own.         *)
OpInv ==
  /\ ~launcher.made => launcher.active = None /\ launcher.preparing = None
  /\ ~up => op.kind = "none"
  /\ op.kind = "start" => launcher.made
  /\ Locked => disabled \/ Metadata = None
  /\ op.kind = "start" /\ op.step \notin {"clear", "prepared"} => disabled /\ files.gen \in {None, op.gen}

BearerInv == OpInv /\ BearerHeld

(* A bearer that is out of use authenticates nobody. *)
LEMMA OutOfUse ==
  ASSUME disabled' = TRUE \/ up' = FALSE \/ Metadata' = None
  PROVE  BearerHeld'
<1>1. ASSUME NEW g \in Gens, BearerWorks(g)' PROVE FALSE
  <2>1. Metadata' = g /\ g # None
    BY <1>1, ActorAssumption, Zenon DEF BearerWorks, Metadata, Whole, Gens
  <2> QED
    BY <1>1, <2>1, Zenon DEF BearerWorks
<1> QED
  BY <1>1, Zenon DEF BearerHeld

(* Steps that leave the bearer and the active worker alone. *)
LEMMA HeldStays ==
  ASSUME Typed, Known, [Next]_vars, BearerHeld, UNCHANGED <<up, session, files, disabled>>,
         launcher'.active = launcher.active, launcher'.shutdown = launcher.shutdown
  PROVE  BearerHeld'
  BY KnownStep, Zenon DEF BearerHeld, BearerWorks

(* A step that leaves sessions, files and operations alone keeps the bearer invariant. *)
LEMMA BearerSame ==
  ASSUME Typed, Known, [Next]_vars, BearerInv, UNCHANGED <<up, session, files, disabled, launcher, op>>
  PROVE  BearerInv'
  BY HeldStays, Zenon DEF BearerInv, OpInv, Locked, Metadata

(* The steps of the daemon keep the bearer invariant. *)
LEMMA BearerDaemon ==
  ASSUME Typed, Known, BearerInv, DaemonStart \/ BeginStop \/ FinishStop \/ Crash
  PROVE  BearerInv'
<1> USE DEF Typed, BearerInv, Locked, Metadata, daemon, disk, events, local, remote
<1>1. CASE DaemonStart
  <2>1. op'.kind = "none" /\ up'
    BY <1>1, Zenon DEF DaemonStart, OpInv
  <2>2. CASE ~Unresolved /\ ~RelPending /\ MakeLauncher(FALSE)
    <3>1. /\ launcher'.made /\ launcher'.active = None /\ launcher'.preparing = None
          /\ disabled' \in BOOLEAN /\ files' = files /\ (disabled' \/ Metadata = None)
      BY <2>2, MakeEffect, Zenon
    <3>2. BearerHeld'
      BY <3>1, OutOfUse, Zenon
    <3> QED
      BY <2>1, <3>1, <3>2, Zenon DEF OpInv
  <2>3. CASE disabled' = TRUE /\ launcher' = NoLauncher
    BY <2>1, <2>3, OutOfUse, Zenon DEF OpInv, NoLauncher
  <2> QED
    BY <1>1, <2>2, <2>3, Zenon DEF DaemonStart
<1>2. CASE BeginStop
  <2>1. CASE UNCHANGED <<disabled, files, launcher, toAbort, faults>>
    <3>1. [Next]_vars
      BY <1>2, Zenon DEF Next
    <3> QED
      BY <1>2, <2>1, <3>1, BearerSame, Zenon DEF BeginStop
  <2>2. CASE /\ launcher.made /\ RevokeActor
             /\ launcher' = [launcher EXCEPT !.shutdown = TRUE, !.active = None, !.preparing = None]
    <3>1. launcher'.made /\ launcher'.active = None /\ launcher'.preparing = None
      BY <2>2, Zenon DEF Launchers
    <3>2. disabled' = TRUE /\ files'.gen \in {None, files.gen} /\ op' = op /\ up' = up
      BY <1>2, <2>2, RevokeEffect, Zenon DEF BeginStop
    <3> QED
      BY <3>1, <3>2, OutOfUse, Zenon DEF OpInv
  <2> QED
    BY <1>2, <2>1, <2>2, Zenon DEF BeginStop
<1>3. CASE FinishStop \/ Crash
  <2>1. up' = FALSE /\ launcher' = NoLauncher /\ op' = NoOp
    BY <1>3, Zenon DEF FinishStop, Crash, Down
  <2> QED
    BY <2>1, OutOfUse, Zenon DEF OpInv, NoLauncher, NoOp
<1> QED
  BY <1>1, <1>2, <1>3, Zenon

(* The steps that begin a launch keep the bearer invariant. *)
LEMMA BearerLaunch ==
  ASSUME Typed, Known, BearerInv, CreateLauncher \/ StartLocal \/ PrepareFails
  PROVE  BearerInv'
<1> USE DEF Typed, BearerInv, Locked, Metadata, daemon, disk, events, local, remote
<1>1. CASE CreateLauncher
  <2>1. /\ launcher'.made /\ launcher'.active = None /\ launcher'.preparing = None
        /\ disabled' \in BOOLEAN /\ files' = files /\ (disabled' \/ Metadata = None)
    BY <1>1, MakeEffect, Zenon DEF CreateLauncher
  <2>2. op' = op /\ op.kind = "none" /\ up' = up
    BY <1>1, Zenon DEF CreateLauncher
  <2> QED
    BY <2>1, <2>2, OutOfUse, Zenon DEF OpInv
<1>2. CASE StartLocal
  <2>1. launcher.made /\ op.kind = "none" /\ up' = up /\ up
    BY <1>2, Zenon DEF StartLocal, Serving
  <2>2. CASE Metadata = None /\ Step("clear", None) /\ UNCHANGED <<disabled, files, launcher>>
    BY <2>1, <2>2, OutOfUse, Zenon DEF Step, OpInv
  <2>3. CASE Reconnect(Metadata) /\ Metadata # None /\ UNCHANGED <<files, marker, faults>>
    <3>1. /\ launcher'.made /\ disabled' = TRUE /\ files' = files /\ files.gen = Metadata
          /\ op'.gen = Metadata
      BY <2>1, <2>3, Zenon DEF Reconnect, Step, Launchers
    <3> QED
      BY <2>1, <3>1, OutOfUse, Zenon DEF OpInv
  <2>4. CASE NoReconnect(Metadata) /\ RevokeActor /\ UNCHANGED <<held, launcher, marker>>
    <3>1. disabled' = TRUE
      BY <2>4, RevokeEffect, Zenon
    <3>2. op' = op \/ op' = [kind |-> "start", step |-> "clear", gen |-> None]
      BY <2>4, Zenon DEF NoReconnect, Step
    <3>3. op'.kind = "none" \/ (op'.kind = "start" /\ op'.step = "clear")
      BY <2>1, <3>2, SMTT(20)
    <3> QED
      BY <2>1, <2>4, <3>1, <3>3, OutOfUse, Zenon DEF OpInv
  <2> QED
    BY <1>2, <2>2, <2>3, <2>4, Zenon DEF StartLocal
<1>3. CASE PrepareFails
  <2>1. [Next]_vars /\ UNCHANGED <<up, session, files, disabled, launcher>> /\ op' = NoOp
    BY <1>3, Zenon DEF PrepareFails, Next
  <2>2. BearerHeld'
    BY <2>1, HeldStays, Zenon
  <2> QED
    BY <2>1, <2>2, Zenon DEF OpInv, NoOp
<1> QED
  BY <1>1, <1>2, <1>3, Zenon

(* The steps of a local worker keep the bearer invariant. *)
LEMMA BearerWorker ==
  ASSUME Typed, Known, BearerInv, NEW g \in Locals,
         \/ Prepare(g) \/ Issue(g) \/ Activate(g) \/ Install(g) \/ Enable(g) \/ StartFails(g)
         \/ WorkerExits(g) \/ WatchLost(g) \/ WatchFence(g)
  PROVE  BearerInv'
<1> USE DEF Typed, BearerInv, Locked, Metadata, daemon, disk, events, local, remote
<1>1. [Next]_vars
  BY Zenon DEF Next
<1>2. CASE Prepare(g)
  <2>1. /\ op.kind = "start" /\ UNCHANGED <<up, session, files, disabled>>
        /\ launcher'.active = launcher.active /\ launcher'.shutdown = launcher.shutdown
        /\ launcher'.made = launcher.made /\ op' = [kind |-> "start", step |-> "prepared", gen |-> g]
    BY <1>2, Zenon DEF Prepare, StartAt, Step, Launchers
  <2>2. BearerHeld'
    BY <1>1, <2>1, HeldStays, Zenon
  <2> QED
    BY <2>1, <2>2, Zenon DEF OpInv
<1>3. CASE Issue(g)
  BY <1>3, OutOfUse, Zenon DEF Issue, StartAt, Step, Whole, OpInv
<1>4. CASE Activate(g)
  <2>1. /\ op = [kind |-> "start", step |-> "issued", gen |-> g]
        /\ op' = [kind |-> "start", step |-> "activated", gen |-> g]
        /\ UNCHANGED <<up, session, files, disabled, launcher>>
    BY <1>4, Zenon DEF Activate, StartAt, Step
  <2>2. BearerHeld'
    BY <1>1, <2>1, HeldStays, Zenon
  <2> QED
    BY <2>1, <2>2, Zenon DEF OpInv
<1>5. CASE Install(g)
  <2>1. /\ op = [kind |-> "start", step |-> "activated", gen |-> g]
        /\ op' = [kind |-> "start", step |-> "installed", gen |-> g]
        /\ UNCHANGED <<up, session, files, disabled>> /\ launcher'.made = launcher.made
    BY <1>5, Zenon DEF Install, StartAt, Step, Launchers
  <2>2. disabled
    BY <2>1, Zenon DEF OpInv
  <2> QED
    BY <2>1, <2>2, OutOfUse, Zenon DEF OpInv
<1>6. CASE Enable(g)
  <2>1. /\ op = [kind |-> "start", step |-> "installed", gen |-> g] /\ op' = NoOp
        /\ launcher.active = g /\ ~launcher.shutdown /\ Metadata # None
        /\ UNCHANGED <<up, session, files, launcher>>
    BY <1>6, Zenon DEF Enable, StartAt
  <2>2. files.gen = g
    BY <2>1, Zenon DEF OpInv
  <2>3. BearerHeld'
    BY <2>1, <2>2, SMTT(20) DEF BearerHeld, BearerWorks, Whole
  <2> QED
    BY <2>1, <2>3, Zenon DEF OpInv, NoOp
<1>7. CASE StartFails(g)
  <2>1. launcher'.made = launcher.made /\ op' = NoOp /\ up' = up
        /\ launcher'.active \in {None, launcher.active} /\ launcher'.preparing \in {None, launcher.preparing}
    BY <1>7, AbortEffect, Zenon DEF StartFails
  <2>2. BearerHeld'
    <3>1. CASE op.step = "prepared" /\ UNCHANGED <<disabled, files, faults>>
      <4>1. disabled \/ Metadata = None
        BY <1>7, <3>1, Zenon DEF StartFails, OpInv
      <4> QED
        BY <3>1, <4>1, OutOfUse, Zenon
    <3>2. CASE RevokeActor
      BY <3>2, RevokeEffect, OutOfUse, Zenon
    <3> QED
      BY <1>7, <3>1, <3>2, Zenon DEF StartFails
  <2> QED
    BY <2>1, <2>2, Zenon DEF OpInv, NoOp
<1>8. CASE WorkerExits(g) \/ WatchLost(g)
  <2>1. UNCHANGED <<up, session, files, disabled, launcher, op>>
    BY <1>8, Zenon DEF WorkerExits, WatchLost
  <2> QED
    BY <1>1, <2>1, BearerSame, Zenon
<1>9. CASE WatchFence(g)
  <2>1. CASE UNCHANGED <<files, disabled, marker, launcher, held, proc, faults>>
    BY <1>1, <1>9, <2>1, BearerSame, Zenon DEF WatchFence
  <2>2. CASE RevokeActor /\ Abort(g, Cleared(g))
    <3>1. launcher'.made = launcher.made /\ op' = op /\ up' = up
          /\ launcher'.active \in {None, launcher.active} /\ launcher'.preparing \in {None, launcher.preparing}
      BY <1>9, <2>2, AbortEffect, Zenon DEF WatchFence
    <3>2. disabled' = TRUE /\ files'.gen \in {None, files.gen}
      BY <2>2, RevokeEffect, Zenon
    <3> QED
      BY <3>1, <3>2, OutOfUse, Zenon DEF OpInv
  <2> QED
    BY <1>9, <2>1, <2>2, Zenon DEF WatchFence
<1> QED
  BY <1>2, <1>3, <1>4, <1>5, <1>6, <1>7, <1>8, <1>9, Zenon

(* The steps of a relinquishment keep the bearer invariant. *)
LEMMA BearerRelinquish ==
  ASSUME Typed, Known, BearerInv, NEW g \in Locals,
         RelinquishInterrupted(g) \/ RelinquishFence(g) \/ RelinquishStop(g) \/ RelinquishFinish(g)
  PROVE  BearerInv'
<1> USE DEF Typed, BearerInv, Locked, Metadata, daemon, disk, events, local, remote
<1>1. CASE RelinquishInterrupted(g)
  <2>1. up' = FALSE /\ launcher' = NoLauncher /\ op' = NoOp
    BY <1>1, Zenon DEF RelinquishInterrupted, Down
  <2> QED
    BY <2>1, OutOfUse, Zenon DEF OpInv, NoLauncher, NoOp
<1>2. CASE RelinquishFence(g)
  <2>1. disabled' = TRUE /\ UNCHANGED <<launcher, up>> /\ op.kind = "none" /\ up
    BY <1>2, Zenon DEF RelinquishFence, Serving
  <2>2. op' = op \/ op'.kind = "relinquish"
    BY <1>2, SMTT(20) DEF RelinquishFence
  <2> QED
    BY <2>1, <2>2, OutOfUse, Zenon DEF OpInv
<1>3. CASE RelinquishStop(g)
  <2>1. /\ op.kind = "relinquish" /\ UNCHANGED <<up, files, disabled>>
        /\ op'.kind \in {"none", "relinquish"}
    BY <1>3, SMTT(20) DEF RelinquishStop, Relinquishing, NoOp, Operations
  <2>2. ~launcher'.made => launcher' = launcher
    BY <1>3, Zenon DEF RelinquishStop, LetGo, Launchers
  <2>3. ~launcher'.made => ~launcher.made
    BY <2>2, Zenon
  <2>4. disabled \/ Metadata = None
    BY <2>1, Zenon DEF OpInv
  <2> QED
    BY <2>1, <2>2, <2>3, <2>4, OutOfUse, Zenon DEF OpInv
<1>4. CASE RelinquishFinish(g)
  <2>1. [Next]_vars /\ op.kind = "relinquish" /\ op' = NoOp /\ UNCHANGED <<up, session>>
    BY <1>4, Zenon DEF RelinquishFinish, Relinquishing, Next
  <2>2. disabled' = TRUE \/ UNCHANGED <<files, disabled>>
    BY <1>4, RevokeEffect, Zenon DEF RelinquishFinish
  <2>3. BearerHeld'
    BY <2>1, <2>2, OutOfUse, Zenon DEF OpInv
  <2>4. launcher' = NoLauncher \/ launcher' = launcher
    BY <1>4, Zenon DEF RelinquishFinish
  <2> QED
    BY <2>1, <2>3, <2>4, SMTT(20) DEF OpInv, NoOp, NoLauncher
<1> QED
  BY <1>1, <1>2, <1>3, <1>4, Zenon

(* The steps of a remote activation keep the bearer invariant. *)
LEMMA BearerRemote ==
  ASSUME Typed, Known, BearerInv, NEW a \in Acts,
         \/ Qualify(a) \/ Provision(a) \/ Record(a) \/ EnableRemote(a) \/ ControllerFails(a)
         \/ RevokeUncommitted(a) \/ UncommittedRefused(a) \/ Revoke(a) \/ RevokeActivation(a)
         \/ BeginDrain(a) \/ FinishDrain(a)
  PROVE  BearerInv'
<1> USE DEF Typed, BearerInv, Locked, Metadata, daemon, disk, events, local, remote
<1>1. [Next]_vars
  BY Zenon DEF Next
<1>2. CASE \/ Qualify(a) \/ Record(a) \/ ControllerFails(a) \/ UncommittedRefused(a)
           \/ RevokeActivation(a) \/ BeginDrain(a)
  <2>1. UNCHANGED <<up, session, files, disabled, launcher, op>>
    BY <1>2, Zenon DEF Qualify, Record, ControllerFails, UncommittedRefused, RevokeActivation, BeginDrain
  <2> QED
    BY <1>1, <2>1, BearerSame, Zenon
<1>3. CASE Provision(a)
  <2>1. op.kind = "none" /\ UNCHANGED <<up, session, launcher, op>>
    BY <1>3, Zenon DEF Provision, Control
  <2>2. CASE UNCHANGED <<files, disabled>>
    BY <1>1, <2>1, <2>2, BearerSame, Zenon
  <2>3. CASE disabled' = TRUE
    BY <2>1, <2>3, OutOfUse, Zenon DEF OpInv
  <2> QED
    BY <1>3, <2>2, <2>3, Zenon DEF Provision
<1>4. CASE EnableRemote(a)
  <2>1. /\ op.kind = "none" /\ Metadata = a /\ "accepted" \in history[a] /\ bound[a] = session
        /\ UNCHANGED <<up, session, launcher, op, files, history, bound>>
    BY <1>4, Zenon DEF EnableRemote, Control, Fresh, Matches
  <2>2. BearerHeld'
    <3>1. ASSUME NEW g \in Gens, BearerWorks(g)' PROVE g = a
      BY <2>1, <3>1, ActorAssumption, SMT DEF BearerWorks, Whole, Gens
    <3> QED
      BY <2>1, <3>1, Zenon DEF BearerHeld
  <2> QED
    BY <2>1, <2>2, Zenon DEF OpInv
<1>5. CASE RevokeUncommitted(a) \/ Revoke(a) \/ FinishDrain(a)
  <2>1. op.kind = "none" /\ UNCHANGED <<up, session, launcher, op>>
    BY <1>5, Zenon DEF RevokeUncommitted, Revoke, FinishDrain, Control
  <2>2. CASE UNCHANGED <<files, disabled>>
    BY <1>1, <2>1, <2>2, BearerSame, Zenon
  <2>3. CASE disabled' = TRUE
    BY <2>1, <2>3, OutOfUse, Zenon DEF OpInv
  <2>4. Cleanup(a) \/ UNCHANGED <<files, disabled>>
    BY <1>5, Zenon DEF RevokeUncommitted, Revoke, FinishDrain
  <2> QED
    BY <2>2, <2>3, <2>4, CleanupEffect, Zenon
<1> QED
  BY <1>2, <1>3, <1>4, <1>5, Zenon

(* Every step keeps the bearer invariant. *)
LEMMA BearerStep == Typed /\ Known /\ BearerInv /\ [Next]_vars => BearerInv'
<1> SUFFICES ASSUME Typed, Known, BearerInv, [Next]_vars PROVE BearerInv'
  OBVIOUS
<1>1. CASE UNCHANGED vars
  BY <1>1, BearerSame, Zenon DEF vars, daemon, disk, local
<1>2. ASSUME NEW g \in Gens, Claim(g) \/ CancelWork(g) \/ Settle(g) \/ Recover(g)
      PROVE  BearerInv'
  BY <1>2, BearerSame, Zenon DEF Claim, CancelWork, Settle, Recover, WorkStep, daemon, disk, local
<1>3. CASE Next
  BY <1>2, <1>3, BearerDaemon, BearerLaunch, BearerWorker, BearerRelinquish, BearerRemote, ZenonT(60) DEF Next
<1> QED
  BY <1>1, <1>3, Zenon

(* The Worker bearer authenticates only for the generation in custody: the  *)
(* local one the launcher holds as active, or a remote one accepted in this *)
(* session.                                                                 *)
THEOREM BearerInCustody == Spec => []BearerHeld
<1>1. Init => Known /\ BearerInv
  <2> SUFFICES ASSUME Init PROVE Known /\ BearerInv
    OBVIOUS
  <2>1. Known
    BY Zenon DEF Init, Known
  <2> QED
    BY <2>1, Zenon DEF Init, BearerInv, OpInv, BearerHeld, BearerWorks, NoLauncher, NoOp, Locked
<1>2. Typed /\ Known /\ [Next]_vars => Known'
  BY KnownStep, Zenon
<1>3. BearerInv => BearerHeld
  BY Zenon DEF BearerInv
<1> QED
  BY <1>1, <1>2, <1>3, TypedInit, TypedStep, BearerStep, PTL DEF Spec

-----------------------------------------------------------------------------
(* What a completed relinquish says. *)

(* The receipt of an operation in progress, and what it has confirmed. *)
ReceiptInv ==
  /\ rel.state \in {"stopped", "complete"} => rel.gen \in Locals /\ proc[rel.gen] = "dead"
  /\ op.kind = "relinquish" => rel.gen = op.gen
  /\ op.kind = "relinquish" /\ op.step = "stopped" => rel.state = "stopped"
  /\ op.kind = "start" /\ rel.state = "complete" => op.gen # rel.gen
  /\ RelinquishedGone

(* A generation's process never comes back. *)
LEMMA DeadStays ==
  ASSUME Typed, [Next]_vars, NEW h \in Locals, proc[h] = "dead"
  PROVE  proc'[h] = "dead"
<1> USE DEF Typed, local
<1>1. ASSUME UNCHANGED proc PROVE proc'[h] = "dead"
  BY <1>1, Zenon
<1>2. ASSUME DaemonStart \/ BeginStop \/ Crash \/ CreateLauncher \/ StartLocal \/ PrepareFails
      PROVE  proc'[h] = "dead"
  BY <1>1, <1>2, Zenon DEF DaemonStart, BeginStop, Crash, CreateLauncher, StartLocal, PrepareFails
<1>3. ASSUME FinishStop PROVE proc'[h] = "dead"
  BY <1>3, Zenon DEF FinishStop
<1>4. ASSUME NEW g \in Locals,
             \/ Issue(g) \/ Activate(g) \/ Install(g) \/ Enable(g) \/ WatchLost(g)
             \/ RelinquishInterrupted(g) \/ RelinquishFence(g) \/ RelinquishFinish(g)
      PROVE  proc'[h] = "dead"
  BY <1>1, <1>4, Zenon DEF Issue, Activate, Install, Enable, WatchLost, RelinquishInterrupted,
    RelinquishFence, RelinquishFinish
<1>5. ASSUME NEW g \in Locals, StartFails(g) \/ WatchFence(g) PROVE proc'[h] = "dead"
  BY <1>1, <1>5, AbortEffect, Zenon DEF StartFails, WatchFence
<1>6. ASSUME NEW g \in Locals, Prepare(g) \/ WorkerExits(g) \/ RelinquishStop(g) PROVE proc'[h] = "dead"
  BY <1>6, Zenon DEF Prepare, WorkerExits, RelinquishStop
<1>7. ASSUME NEW a \in Acts,
             \/ Qualify(a) \/ Provision(a) \/ Record(a) \/ EnableRemote(a) \/ ControllerFails(a)
             \/ RevokeUncommitted(a) \/ UncommittedRefused(a) \/ Revoke(a) \/ RevokeActivation(a)
             \/ BeginDrain(a) \/ FinishDrain(a)
      PROVE  proc'[h] = "dead"
  BY <1>1, <1>7, Zenon DEF Qualify, Provision, Record, EnableRemote, ControllerFails, RevokeUncommitted,
    UncommittedRefused, Revoke, RevokeActivation, BeginDrain, FinishDrain
<1>8. ASSUME NEW g \in Gens, Claim(g) \/ CancelWork(g) \/ Settle(g) \/ Recover(g) PROVE proc'[h] = "dead"
  BY <1>1, <1>8, Zenon DEF Claim, CancelWork, Settle, Recover, WorkStep
<1>9. CASE UNCHANGED vars
  BY <1>1, <1>9, Zenon DEF vars
<1> QED
  BY <1>2, <1>3, <1>4, <1>5, <1>6, <1>7, <1>8, <1>9, ZenonT(60) DEF Next

(* A step that leaves the receipt alone: it starts no operation on a        *)
(* relinquished generation, restores no file of it and claims nothing for   *)
(* a process that is gone.                                                  *)
LEMMA ReceiptKept ==
  ASSUME Typed, ReceiptInv, [Next]_vars, rel' = rel,
         \/ op' = op \/ op'.kind = "none"
         \/ op'.kind = "start" /\ (rel.state = "complete" => op'.gen # rel.gen),
         rel.state = "complete" => files'.gen # rel.gen,
         \A g \in Locals : HasWork(g)' => HasWork(g) \/ proc[g] # "dead"
  PROVE  ReceiptInv'
<1>1. rel'.state \in {"stopped", "complete"} => rel'.gen \in Locals /\ proc'[rel'.gen] = "dead"
  BY DeadStays, Zenon DEF ReceiptInv
<1>2. RelinquishedGone'
  <2> SUFFICES ASSUME rel.state = "complete"
               PROVE  proc'[rel.gen] = "dead" /\ ~HasWork(rel.gen)' /\ files'.gen # rel.gen
    BY Zenon DEF RelinquishedGone, HasWork
  <2>1. rel.gen \in Locals /\ proc[rel.gen] = "dead" /\ ~HasWork(rel.gen)
    BY Zenon DEF ReceiptInv, RelinquishedGone
  <2> QED
    BY <2>1, DeadStays, Zenon
<1> QED
  BY <1>1, <1>2, Zenon DEF ReceiptInv

(* The files of a generation whose relinquishment is complete do not come back. *)
LEMMA GoneFiles ==
  ASSUME ReceiptInv, files'.gen \in {None, files.gen} \cup Acts
  PROVE  rel.state = "complete" => files'.gen # rel.gen
  BY ActorAssumption, SMT DEF ReceiptInv, RelinquishedGone

(* The steps of the daemon and the begin of a launch keep the receipt honest. *)
LEMMA ReceiptDaemon ==
  ASSUME Typed, ReceiptInv,
         \/ DaemonStart \/ BeginStop \/ FinishStop \/ Crash
         \/ CreateLauncher \/ StartLocal \/ PrepareFails
  PROVE  ReceiptInv'
<1> USE DEF Typed, daemon, disk, events, local, remote
<1>1. [Next]_vars
  BY Zenon DEF Next
<1>2. rel' = rel /\ work' = work
  BY Zenon DEF DaemonStart, BeginStop, FinishStop, Crash, CreateLauncher, StartLocal, PrepareFails
<1>3. \A g \in Locals : HasWork(g)' => HasWork(g)
  BY <1>2, Zenon DEF HasWork
<1>4. files'.gen \in {None, files.gen} \cup Acts
  <2>1. CASE files' = files
    BY <2>1, Zenon
  <2>2. CASE MakeLauncher(FALSE) \/ MakeLauncher(disabled)
    BY <2>2, SMTT(20) DEF MakeLauncher, NoFiles
  <2>3. CASE RevokeActor
    BY <2>3, RevokeEffect, Zenon
  <2> QED
    BY <2>1, <2>2, <2>3, Zenon
      DEF DaemonStart, BeginStop, FinishStop, Crash, CreateLauncher, StartLocal, PrepareFails
<1>5. \/ op' = op \/ op'.kind = "none"
      \/ op'.kind = "start" /\ (rel.state = "complete" => op'.gen # rel.gen)
  <2>1. CASE StartLocal
    <3>1. CASE Step("clear", None)
      BY <3>1, ActorAssumption, SMT DEF Step, ReceiptInv
    <3>2. CASE Reconnect(Metadata) /\ Metadata # None
      <4>1. Metadata \in Locals
        BY <2>1, <3>2, Zenon DEF StartLocal, Unresolved, Exists, Metadata
      <4>2. proc[Metadata] = "alive" /\ op' = [kind |-> "start", step |-> "installed", gen |-> Metadata]
        BY <3>2, Zenon DEF Reconnect, Step
      <4> QED
        BY <4>1, <4>2, Zenon DEF ReceiptInv
    <3>3. CASE op' = op
      BY <3>3, Zenon
    <3> QED
      BY <2>1, <3>1, <3>2, <3>3, Zenon DEF StartLocal, NoReconnect
  <2>2. CASE DaemonStart \/ BeginStop \/ FinishStop \/ Crash \/ CreateLauncher \/ PrepareFails
    <3>1. op' = op \/ op' = NoOp
      BY <2>2, Zenon DEF DaemonStart, BeginStop, FinishStop, Crash, Down, CreateLauncher, PrepareFails
    <3> QED
      BY <3>1, SMTT(20) DEF NoOp
  <2> QED
    BY <2>1, <2>2, Zenon
<1> QED
  BY <1>1, <1>2, <1>3, <1>4, <1>5, GoneFiles, ReceiptKept, Zenon

(* The steps of a local worker keep the receipt honest. *)
LEMMA ReceiptWorker ==
  ASSUME Typed, ReceiptInv, NEW g \in Locals,
         \/ Prepare(g) \/ Issue(g) \/ Activate(g) \/ Install(g) \/ Enable(g) \/ StartFails(g)
         \/ WorkerExits(g) \/ WatchLost(g) \/ WatchFence(g)
  PROVE  ReceiptInv'
<1> USE DEF Typed, daemon, disk, events, local, remote
<1>1. [Next]_vars
  BY Zenon DEF Next
<1>2. rel' = rel /\ work' = work
  BY Zenon DEF Prepare, Issue, Activate, Install, Enable, StartFails, WorkerExits, WatchLost, WatchFence
<1>3. \A h \in Locals : HasWork(h)' => HasWork(h)
  BY <1>2, Zenon DEF HasWork
<1>4. rel.state = "complete" => files'.gen # rel.gen
  <2>1. CASE Issue(g)
    BY <2>1, Zenon DEF Issue, StartAt, Whole, ReceiptInv
  <2>2. CASE files' = files
    BY <2>2, GoneFiles, Zenon
  <2>3. CASE RevokeActor
    BY <2>3, RevokeEffect, GoneFiles, Zenon
  <2> QED
    BY <2>1, <2>2, <2>3, Zenon
      DEF Prepare, Activate, Install, Enable, StartFails, WorkerExits, WatchLost, WatchFence
<1>5. \/ op' = op \/ op'.kind = "none"
      \/ op'.kind = "start" /\ (rel.state = "complete" => op'.gen # rel.gen)
  <2>1. CASE Prepare(g)
    BY <2>1, Zenon DEF Prepare, Step, ReceiptInv
  <2>2. CASE Issue(g) \/ Activate(g) \/ Install(g)
    BY <2>2, SMTT(20) DEF Issue, Activate, Install, StartAt, Step, ReceiptInv
  <2>3. CASE Enable(g) \/ StartFails(g) \/ WorkerExits(g) \/ WatchLost(g) \/ WatchFence(g)
    BY <2>3, SMTT(20) DEF Enable, StartFails, WorkerExits, WatchLost, WatchFence, NoOp
  <2> QED
    BY <2>1, <2>2, <2>3, Zenon
<1> QED
  BY <1>1, <1>2, <1>3, <1>4, <1>5, ReceiptKept, Zenon

(* The steps of a remote activation keep the receipt honest. *)
LEMMA ReceiptRemote ==
  ASSUME Typed, ReceiptInv, NEW a \in Acts,
         \/ Qualify(a) \/ Provision(a) \/ Record(a) \/ EnableRemote(a) \/ ControllerFails(a)
         \/ RevokeUncommitted(a) \/ UncommittedRefused(a) \/ Revoke(a) \/ RevokeActivation(a)
         \/ BeginDrain(a) \/ FinishDrain(a)
  PROVE  ReceiptInv'
<1> USE DEF Typed, daemon, disk, events, local, remote
<1>1. [Next]_vars
  BY Zenon DEF Next
<1>2. UNCHANGED <<rel, work, op>>
  BY Zenon DEF Qualify, Provision, Record, EnableRemote, ControllerFails, RevokeUncommitted,
    UncommittedRefused, Revoke, RevokeActivation, BeginDrain, FinishDrain
<1>3. \A h \in Locals : HasWork(h)' => HasWork(h)
  BY <1>2, Zenon DEF HasWork
<1>4. files'.gen \in {None, files.gen} \cup Acts
  <2>1. CASE files' = files
    BY <2>1, Zenon
  <2>2. CASE Provision(a)
    BY <2>2, SMTT(20) DEF Provision, Whole
  <2>3. CASE Cleanup(a)
    BY <2>3, CleanupEffect, Zenon
  <2> QED
    BY <2>1, <2>2, <2>3, Zenon DEF Qualify, Record, EnableRemote, ControllerFails, RevokeUncommitted,
      UncommittedRefused, Revoke, RevokeActivation, BeginDrain, FinishDrain
<1> QED
  BY <1>1, <1>2, <1>3, <1>4, GoneFiles, ReceiptKept, Zenon

(* The steps of the work keep the receipt honest. *)
LEMMA ReceiptWork ==
  ASSUME Typed, ReceiptInv, NEW g \in Gens, Claim(g) \/ CancelWork(g) \/ Settle(g) \/ Recover(g)
  PROVE  ReceiptInv'
<1> USE DEF Typed, daemon, disk, events, local, remote
<1>1. [Next]_vars
  BY Zenon DEF Next
<1>2. UNCHANGED <<rel, op, files>>
  BY Zenon DEF Claim, CancelWork, Settle, Recover, WorkStep
<1>3. \A h \in Locals : HasWork(h)' => HasWork(h) \/ proc[h] # "dead"
  <2> SUFFICES ASSUME NEW h \in Locals, ~HasWork(h), proc[h] = "dead" PROVE ~HasWork(h)'
    BY Zenon
  <2>0. h \in Gens
    BY Zenon DEF Gens
  <2>1. CASE Claim(g)
    <3>1. h # g
      BY <2>1, ActorAssumption, Zenon DEF Claim
    <3> QED
      BY <2>0, <2>1, <3>1, Zenon DEF Claim, WorkStep, HasWork
  <2>2. CASE CancelWork(g)
    <3>1. h # g
      BY <2>2, Zenon DEF CancelWork, HasWork
    <3> QED
      BY <2>0, <2>2, <3>1, Zenon DEF CancelWork, WorkStep, HasWork
  <2>3. CASE Settle(g) \/ Recover(g)
    BY <2>0, <2>3, Zenon DEF Settle, Recover, WorkStep, HasWork
  <2> QED
    BY <2>1, <2>2, <2>3, Zenon
<1> QED
  BY <1>1, <1>2, <1>3, GoneFiles, ReceiptKept, Zenon

(* The steps of a relinquishment keep the receipt honest. *)
LEMMA ReceiptRelinquish ==
  ASSUME Typed, ReceiptInv, NEW g \in Locals,
         RelinquishInterrupted(g) \/ RelinquishFence(g) \/ RelinquishStop(g) \/ RelinquishFinish(g)
  PROVE  ReceiptInv'
<1> USE DEF Typed, daemon, disk, events, local, remote
<1>1. [Next]_vars
  BY Zenon DEF Next
<1>2. ASSUME Admitted(g)
      PROVE  /\ Checkpoint(g).gen = g /\ Checkpoint(g).state # "complete"
             /\ Checkpoint(g).state = "stopped" => proc[g] = "dead"
  <2>1. CASE RelPending
    BY <1>2, <2>1, Zenon DEF Admitted, Checkpoint, RelPending, ReceiptInv
  <2>2. CASE ~RelPending
    BY <2>2, SMTT(20) DEF Checkpoint
  <2> QED
    BY <2>1, <2>2, Zenon
<1>3. CASE RelinquishInterrupted(g)
  <2>1. rel' = Checkpoint(g) /\ Admitted(g) /\ op' = NoOp /\ proc' = proc
    BY <1>3, Zenon DEF RelinquishInterrupted, Down
  <2>2. op'.kind = "none"
    BY <2>1, Zenon DEF NoOp
  <2> QED
    BY <1>2, <2>1, <2>2, Zenon DEF ReceiptInv, RelinquishedGone
<1>4. CASE RelinquishFence(g)
  <2>1. Admitted(g) /\ op.kind = "none" /\ proc' = proc /\ Checkpoint(g) \in Receipts
        /\ rel' = [Checkpoint(g) EXCEPT !.state = IF @ = "fencing" THEN "fenced" ELSE @]
    BY <1>4, Zenon DEF RelinquishFence, Locked, Checkpoint, Outstanding, Receipts
  <2>2. /\ rel'.gen = g /\ rel'.state # "complete"
        /\ rel'.state = "stopped" => Checkpoint(g).state = "stopped"
    BY <1>2, <2>1, SMTT(20) DEF Receipts
  <2>3. \/ op' = op
        \/ op' = [kind |-> "relinquish", gen |-> g,
                  step |-> IF rel'.state = "stopped" THEN "stopped" ELSE "fenced"]
    BY <1>4, Zenon DEF RelinquishFence
  <2>4. CASE op' = op
    BY <1>2, <2>1, <2>2, <2>4, Zenon DEF ReceiptInv, RelinquishedGone
  <2>5. CASE op' = [kind |-> "relinquish", gen |-> g,
                    step |-> IF rel'.state = "stopped" THEN "stopped" ELSE "fenced"]
    <3>1. op'.kind = "relinquish" /\ op'.gen = g /\ (op'.step = "stopped" => rel'.state = "stopped")
      BY <2>5, SMTT(20)
    <3> QED
      BY <1>2, <2>1, <2>2, <3>1, Zenon DEF ReceiptInv, RelinquishedGone
  <2> QED
    BY <2>3, <2>4, <2>5, Zenon
<1>5. CASE RelinquishStop(g)
  <2>1. rel.gen = g /\ op.kind = "relinquish" /\ op.gen = g
    BY <1>5, Zenon DEF RelinquishStop, Relinquishing, ReceiptInv
  <2>2. CASE /\ proc' = [proc EXCEPT ![g] = "dead"]
             /\ rel' = [rel EXCEPT !.state = "stopped"] /\ op' = [op EXCEPT !.step = "stopped"]
    <3>1. /\ proc'[g] = "dead" /\ rel'.gen = g /\ rel'.state = "stopped"
          /\ op'.kind = "relinquish" /\ op'.gen = g
      BY <2>1, <2>2, Zenon DEF Receipts, Operations
    <3> QED
      BY <3>1, Zenon DEF ReceiptInv, RelinquishedGone
  <2>3. CASE rel' = [rel EXCEPT !.state = "stop_unknown"] /\ op' = NoOp
    <3>1. rel'.state = "stop_unknown" /\ op'.kind = "none"
      BY <2>3, Zenon DEF Receipts, NoOp
    <3> QED
      BY <3>1, Zenon DEF ReceiptInv, RelinquishedGone
  <2> QED
    BY <1>5, <2>2, <2>3, Zenon DEF RelinquishStop
<1>6. CASE RelinquishFinish(g)
  <2>1. rel.state = "stopped" /\ rel.gen = g /\ op' = NoOp /\ proc' = proc /\ proc[g] = "dead"
    BY <1>6, Zenon DEF RelinquishFinish, Relinquishing, ReceiptInv
  <2>2. op'.kind = "none"
    BY <2>1, Zenon DEF NoOp
  <2>3. CASE rel' = rel
    BY <2>1, <2>2, <2>3, Zenon DEF ReceiptInv, RelinquishedGone
  <2>4. CASE /\ \A h \in Gens : Finalized(rel.captured)[h] \notin {"running", "cancelling"}
             /\ work' = Finalized(rel.captured) /\ files' = NoFiles
             /\ rel' = [rel EXCEPT !.state = "complete"]
    <3>1. rel'.state = "complete" /\ rel'.gen = g
      BY <2>1, <2>4, Zenon DEF Receipts
    <3>2. g \in Gens /\ g # None
      BY ActorAssumption, Zenon DEF Gens
    <3>3. ~HasWork(g)'
      BY <2>4, <3>2, Zenon DEF HasWork
    <3>4. files'.gen = None
      BY <2>4, Zenon DEF NoFiles
    <3> QED
      BY <2>1, <2>2, <3>1, <3>2, <3>3, <3>4, Zenon DEF ReceiptInv, RelinquishedGone, HasWork
  <2> QED
    BY <1>6, <2>3, <2>4, Zenon DEF RelinquishFinish
<1> QED
  BY <1>3, <1>4, <1>5, <1>6, Zenon

(* Every step keeps the receipt honest. *)
LEMMA ReceiptStep == Typed /\ ReceiptInv /\ [Next]_vars => ReceiptInv'
<1> SUFFICES ASSUME Typed, ReceiptInv, [Next]_vars PROVE ReceiptInv'
  OBVIOUS
<1>1. CASE UNCHANGED vars
  BY <1>1, Zenon DEF vars, disk, local, ReceiptInv, RelinquishedGone, HasWork
<1>2. CASE Next
  BY <1>2, ReceiptDaemon, ReceiptWorker, ReceiptRelinquish, ReceiptRemote, ReceiptWork, ZenonT(60) DEF Next
<1> QED
  BY <1>1, <1>2, Zenon

(* A completed relinquish means what it says for that generation: the       *)
(* process is gone, no attempt of it is outstanding, no file of it is left. *)
THEOREM RelinquishComplete == Spec => []RelinquishedGone
<1>1. Init => ReceiptInv
  <2> SUFFICES ASSUME Init PROVE ReceiptInv
    OBVIOUS
  <2>1. rel.state = "none" /\ op.kind = "none"
    BY Zenon DEF Init, NoRel, NoOp
  <2> QED
    BY <2>1, Zenon DEF ReceiptInv, RelinquishedGone
<1>2. ReceiptInv => RelinquishedGone
  BY Zenon DEF ReceiptInv
<1> QED
  BY <1>1, <1>2, TypedInit, TypedStep, ReceiptStep, PTL DEF Spec

-----------------------------------------------------------------------------
(* One custodian. *)

Free == launcher.active = None /\ launcher.preparing = None

(* An activation that a request already sent may still record.             *)
Pledged(a) == a \in sent /\ Serving /\ bound[a] = session /\ a \notin Revoked

(* Its credential is in place and nothing local is under way, so a record   *)
(* that arrives late finds what the provision request established.          *)
PledgeInv == \A a \in Acts : Pledged(a) => files = Whole(a) /\ Free /\ op.kind = "none"

(* OneCustodian, and that no preparation is under way either. *)
SoleInv == \A a \in Unrevoked : latest = a /\ files.gen \notin Locals /\ Free /\ op.kind # "start"

(* Only a provision pledges an activation, only a record adds an unrevoked  *)
(* one.                                                                     *)
Stays ==
  /\ \A a \in Acts : Pledged(a)' => Pledged(a)
  /\ Unrevoked' \subseteq Unrevoked

(* A step that touches no history revokes nothing. *)
LEMMA HistorySame ==
  ASSUME UNCHANGED <<history, session, sent>>, Serving' => Serving,
         \A a \in Acts : a \in sent => bound'[a] = bound[a]
  PROVE  Stays /\ Unrevoked' = Unrevoked
  BY Zenon DEF Stays, Pledged, Revoked, Unrevoked

(* The steps of the daemon revoke nothing. *)
LEMMA DaemonStays ==
  ASSUME Typed,
         \/ DaemonStart \/ BeginStop \/ FinishStop \/ Crash
         \/ CreateLauncher \/ StartLocal \/ PrepareFails
  PROVE  Stays /\ Unrevoked' = Unrevoked
<1> USE DEF Typed, daemon, disk, events, local, remote
<1>1. CASE DaemonStart
  <2>1. session' = session + 1 /\ UNCHANGED <<history, bound, sent>>
    BY <1>1, Zenon DEF DaemonStart
  <2>2. \A a \in Acts : bound'[a] # session'
    BY <2>1, ActorAssumption, SMT DEF Gens
  <2>3. \A a \in Acts : ~Pledged(a)'
    BY <2>2, Zenon DEF Pledged
  <2>4. Unrevoked' = Unrevoked
    BY <2>1, Zenon DEF Unrevoked, Revoked
  <2> QED
    BY <2>3, <2>4, Zenon DEF Stays
<1>2. CASE BeginStop \/ FinishStop \/ Crash \/ CreateLauncher \/ StartLocal \/ PrepareFails
  <2>1. UNCHANGED <<history, session, sent, bound>>
    BY <1>2, Zenon DEF BeginStop, FinishStop, Crash, CreateLauncher, StartLocal, PrepareFails
  <2>2. Serving' => Serving
    BY <1>2, Zenon DEF BeginStop, FinishStop, Crash, Down, CreateLauncher, StartLocal, PrepareFails, Serving
  <2> QED
    BY <2>1, <2>2, HistorySame, Zenon
<1> QED
  BY <1>1, <1>2, Zenon

(* The steps of a local worker revoke no remote activation. *)
LEMMA WorkerStays ==
  ASSUME Typed, NEW g \in Locals,
         \/ Prepare(g) \/ Issue(g) \/ Activate(g) \/ Install(g) \/ Enable(g) \/ StartFails(g)
         \/ WorkerExits(g) \/ WatchLost(g) \/ WatchFence(g)
         \/ RelinquishInterrupted(g) \/ RelinquishFence(g) \/ RelinquishStop(g) \/ RelinquishFinish(g)
  PROVE  Stays /\ Unrevoked' = Unrevoked
<1> USE DEF Typed, daemon, disk, events, local, remote
<1>1. UNCHANGED <<history, session, sent>>
  BY Zenon DEF Prepare, Issue, Activate, Install, Enable, StartFails, WorkerExits, WatchLost, WatchFence,
    RelinquishInterrupted, RelinquishFence, RelinquishStop, RelinquishFinish
<1>2. Serving' => Serving
  BY Zenon DEF Prepare, Issue, Activate, Install, Enable, StartFails, WorkerExits, WatchLost, WatchFence,
    RelinquishInterrupted, RelinquishFence, RelinquishStop, RelinquishFinish, Serving
<1>3. \A a \in Acts : bound'[a] = bound[a]
  <2>1. CASE Prepare(g)
    BY <2>1, ActorAssumption, Zenon DEF Prepare, Gens
  <2>2. CASE bound' = bound
    BY <2>2, Zenon
  <2> QED
    BY <2>1, <2>2, Zenon DEF Issue, Activate, Install, Enable, StartFails, WorkerExits, WatchLost, WatchFence,
      RelinquishInterrupted, RelinquishFence, RelinquishStop, RelinquishFinish
<1> QED
  BY <1>1, <1>2, <1>3, HistorySame, Zenon

(* An activation that ends is revoked and no other one changes. *)
Ends(a) == Revoked' = Revoked \cup {a} /\ Unrevoked' = Unrevoked \ {a}

(* The steps that end an activation end it alone. *)
LEMMA EndingRevokes ==
  ASSUME Typed, NEW a \in Acts,
         Revoke(a) \/ RevokeActivation(a) \/ FinishDrain(a) \/ RevokeUncommitted(a)
  PROVE  Ends(a)
<1>1. PICK e \in SUBSET {"revoked", "unqualified", "draining"} : Added(a, e)
  BY EndingAdds, Zenon
<1>2. history'[a] = history[a] \cup e /\ \A b \in Acts \ {a} : history'[b] = history[b]
  BY <1>1, Zenon DEF Added, Typed
<1>3. "revoked" \in history'[a]
  <2>1. CASE Revoke(a)
    <3>1. \/ "revoked" \in history[a]
          \/ history' = [history EXCEPT ![a] = @ \cup {"revoked"}]
          \/ history' = [history EXCEPT ![a] = @ \cup {"revoked", "unqualified"}]
      BY <2>1, Zenon DEF Revoke, Revoked
    <3> QED
      BY <1>2, <3>1, SMTT(20) DEF Typed
  <2>2. CASE RevokeActivation(a) \/ FinishDrain(a) \/ RevokeUncommitted(a)
    <3>1. \/ history' = [history EXCEPT ![a] = @ \cup {"revoked"}]
          \/ history' = [history EXCEPT ![a] = @ \cup {"revoked", "unqualified"}]
      BY <2>2, Zenon DEF RevokeActivation, FinishDrain, RevokeUncommitted
    <3> QED
      BY <3>1, SMTT(20) DEF Typed
  <2> QED
    BY <2>1, <2>2, Zenon
<1>4. Revoked' = Revoked \cup {a}
  BY <1>2, <1>3, Zenon DEF Revoked
<1>5. \A b \in Acts \ {a} : "qualified" \in history'[b] <=> "qualified" \in history[b]
  BY <1>2, Zenon
<1> QED
  BY <1>4, <1>5, Zenon DEF Ends, Unrevoked

(* What remains to be shown of a step after which nothing is pledged or     *)
(* recorded that was not before.                                            *)
LEMMA SoleKept ==
  ASSUME PledgeInv, SoleInv, Stays,
         \A a \in Acts : Pledged(a) /\ Pledged(a)' => files' = files /\ Free' /\ op'.kind = "none",
         \A a \in Unrevoked \cap Unrevoked' :
           latest' = latest /\ files'.gen \notin Locals /\ Free' /\ op'.kind # "start"
  PROVE  PledgeInv' /\ SoleInv'
  BY Zenon DEF PledgeInv, SoleInv, Stays

(* Nothing is pledged or recorded while a launch is under way, nor when     *)
(* the custody is resolved.                                                 *)
LEMMA LaunchAlone ==
  ASSUME PledgeInv, SoleInv, op.kind = "start" \/ ~Free \/ ~Unresolved
  PROVE  (\A a \in Acts : ~Pledged(a)) /\ Unrevoked = {}
<1>1. CASE op.kind = "start" \/ ~Free
  BY <1>1, Zenon DEF PledgeInv, SoleInv
<1>2. CASE ~Unresolved
  <2>1. Unrevoked = {} /\ Metadata \notin Acts
    BY <1>2, Zenon DEF Unresolved
  <2>2. ASSUME NEW a \in Acts, Pledged(a) PROVE FALSE
    <3>1. files = [gen |-> a, whole |-> TRUE]
      BY <2>2, Zenon DEF PledgeInv, Whole
    <3> QED
      BY <2>1, <3>1, Zenon DEF Metadata
  <2> QED
    BY <2>1, <2>2, Zenon
<1> QED
  BY <1>1, <1>2, Zenon

(* Where nothing can be provisioned there is nothing to pledge. *)
LEMMA SoleVacuous ==
  ASSUME PledgeInv, SoleInv, Stays, op.kind = "start" \/ ~Free \/ ~Unresolved
  PROVE  PledgeInv' /\ SoleInv'
  BY LaunchAlone, SoleKept, Zenon

(* The steps of the daemon keep at most one activation unrevoked. *)
LEMMA SoleDaemon ==
  ASSUME Typed, PledgeInv, SoleInv, DaemonStart \/ BeginStop \/ FinishStop \/ Crash
  PROVE  PledgeInv' /\ SoleInv'
<1> USE DEF Typed, daemon, disk, events, local, remote
<1>1. Stays /\ Unrevoked' = Unrevoked
  BY DaemonStays, Zenon
<1>2. \A a \in Acts : ~Pledged(a)'
  <2>1. CASE DaemonStart
    <3>1. session' = session + 1 /\ UNCHANGED bound
      BY <2>1, Zenon DEF DaemonStart
    <3>2. \A a \in Acts : bound'[a] # session'
      BY <3>1, ActorAssumption, SMT DEF Gens
    <3> QED
      BY <3>2, Zenon DEF Pledged
  <2>2. CASE BeginStop \/ FinishStop \/ Crash
    BY <2>2, Zenon DEF BeginStop, FinishStop, Crash, Down, Pledged, Serving
  <2> QED
    BY <2>1, <2>2, Zenon
<1>3. ASSUME NEW a \in Unrevoked
      PROVE  latest' = latest /\ files'.gen \notin Locals /\ Free' /\ op'.kind # "start"
  <2>1. latest' = latest /\ files.gen \notin Locals /\ Free /\ op.kind # "start" /\ None \notin Locals
    BY <1>3, ActorAssumption, Zenon DEF SoleInv, DaemonStart, BeginStop, FinishStop, Crash
  <2>2. CASE DaemonStart
    <3>1. launcher' = NoLauncher /\ UNCHANGED <<files, op>>
      BY <1>3, <2>2, Zenon DEF DaemonStart, Unresolved
    <3> QED
      BY <2>1, <3>1, Zenon DEF Free, NoLauncher
  <2>3. CASE BeginStop
    <3>1. CASE UNCHANGED <<files, launcher>>
      BY <2>1, <2>3, <3>1, Zenon DEF BeginStop, Free
    <3>2. CASE RevokeActor /\ launcher' =
                 [launcher EXCEPT !.shutdown = TRUE, !.active = None, !.preparing = None]
      <4>1. files'.gen \in {None, files.gen} /\ Free' /\ op' = op
        BY <2>3, <3>2, RevokeEffect, Zenon DEF BeginStop, Free, Launchers
      <4> QED
        BY <2>1, <4>1, Zenon
    <3> QED
      BY <2>3, <3>1, <3>2, Zenon DEF BeginStop
  <2>4. CASE FinishStop \/ Crash
    <3>1. launcher' = NoLauncher /\ op' = NoOp /\ files' = files
      BY <2>4, Zenon DEF FinishStop, Crash, Down
    <3> QED
      BY <2>1, <3>1, Zenon DEF Free, NoLauncher, NoOp
  <2> QED
    BY <2>2, <2>3, <2>4, Zenon
<1> QED
  BY <1>1, <1>2, <1>3, SoleKept, Zenon

(* The steps of a start belong to an operation that is a start. *)
LEMMA StartKind ==
  ASSUME NEW s, NEW h, StartAt(s, h)
  PROVE  op.kind = "start"
  BY SMT DEF StartAt

(* The steps of a local worker keep at most one activation unrevoked. *)
LEMMA SoleLocal ==
  ASSUME Typed, PledgeInv, SoleInv,
         \/ CreateLauncher \/ StartLocal \/ PrepareFails
         \/ \E g \in Locals :
              \/ Prepare(g) \/ Issue(g) \/ Activate(g) \/ Install(g) \/ Enable(g) \/ StartFails(g)
              \/ WorkerExits(g) \/ WatchLost(g) \/ WatchFence(g)
  PROVE  PledgeInv' /\ SoleInv'
<1> USE DEF Typed, daemon, disk, events, local, remote
<1>1. Stays
  BY DaemonStays, WorkerStays, Zenon
<1>2. CASE CreateLauncher \/ StartLocal
  BY <1>1, <1>2, SoleVacuous, Zenon DEF CreateLauncher, StartLocal
<1>3. CASE \/ PrepareFails
           \/ \E g \in Locals : Prepare(g) \/ Issue(g) \/ Activate(g) \/ Install(g) \/ Enable(g) \/ StartFails(g)
  <2>1. op.kind = "start" \/ \E s \in Steps, h \in Locals \cup {None} : StartAt(s, h)
    BY <1>3, Zenon DEF PrepareFails, Prepare, Issue, Activate, Install, Enable, StartFails, Steps
  <2>2. op.kind = "start"
    BY <2>1, StartKind, Zenon
  <2> QED
    BY <1>1, <2>2, SoleVacuous, Zenon
<1>4. ASSUME UNCHANGED <<files, launcher, op, latest>> PROVE PledgeInv' /\ SoleInv'
  BY <1>1, <1>4, SoleKept, Zenon DEF PledgeInv, SoleInv, Free
<1>5. ASSUME NEW g \in Locals, WorkerExits(g) \/ WatchLost(g) PROVE PledgeInv' /\ SoleInv'
  BY <1>4, <1>5, Zenon DEF WorkerExits, WatchLost
<1>6. ASSUME NEW g \in Locals, WatchFence(g) PROVE PledgeInv' /\ SoleInv'
  <2>1. CASE UNCHANGED <<files, launcher>>
    BY <1>4, <1>6, <2>1, Zenon DEF WatchFence
  <2>2. CASE g \in {launcher.active, launcher.preparing}
    <3>1. ~Free
      BY <2>2, ActorAssumption, Zenon DEF Free
    <3> QED
      BY <1>1, <3>1, SoleVacuous, Zenon
  <2> QED
    BY <1>6, <2>1, <2>2, Zenon DEF WatchFence
<1> QED
  BY <1>2, <1>3, <1>5, <1>6, Zenon

(* The steps of a relinquishment keep at most one activation unrevoked. *)
LEMMA SoleRelinquish ==
  ASSUME Typed, PledgeInv, SoleInv, NEW g \in Locals,
         RelinquishInterrupted(g) \/ RelinquishFence(g) \/ RelinquishStop(g) \/ RelinquishFinish(g)
  PROVE  PledgeInv' /\ SoleInv'
<1> USE DEF Typed, daemon, disk, events, local, remote
<1>1. Stays /\ Unrevoked' = Unrevoked
  BY WorkerStays, Zenon
<1>2. \A a \in Acts : ~(Pledged(a) /\ Pledged(a)')
  <2>1. CASE RelinquishInterrupted(g)
    BY <2>1, Zenon DEF RelinquishInterrupted, Down, Pledged, Serving
  <2>2. CASE RelinquishFence(g)
    <3>1. Metadata \in {None, g}
      BY <2>2, Zenon DEF RelinquishFence, Admitted
    <3>2. ASSUME NEW a \in Acts, Pledged(a) PROVE FALSE
      <4>0. files = [gen |-> a, whole |-> TRUE]
        BY <3>2, Zenon DEF PledgeInv, Whole
      <4>1. files.gen = a /\ files.whole
        BY <4>0, Zenon
      <4> QED
        BY <3>1, <4>1, ActorAssumption, SMT DEF Metadata
    <3> QED
      BY <3>2, Zenon
  <2>3. CASE RelinquishStop(g) \/ RelinquishFinish(g)
    <3>1. op.kind = "relinquish"
      BY <2>3, SMTT(20) DEF RelinquishStop, RelinquishFinish, Relinquishing
    <3> QED
      BY <3>1, Zenon DEF PledgeInv
  <2> QED
    BY <2>1, <2>2, <2>3, Zenon
<1>3. ASSUME NEW a \in Unrevoked
      PROVE  latest' = latest /\ files'.gen \notin Locals /\ Free' /\ op'.kind # "start"
  <2>1. latest' = latest /\ files.gen \notin Locals /\ Free /\ op.kind # "start" /\ None \notin Locals
    BY <1>3, ActorAssumption, Zenon
      DEF SoleInv, RelinquishInterrupted, RelinquishFence, RelinquishStop, RelinquishFinish
  <2>2. CASE RelinquishInterrupted(g)
    <3>1. launcher' = NoLauncher /\ op' = NoOp /\ files' = files
      BY <2>2, Zenon DEF RelinquishInterrupted, Down
    <3> QED
      BY <2>1, <3>1, Zenon DEF Free, NoLauncher, NoOp
  <2>3. CASE RelinquishFence(g)
    <3>1. UNCHANGED <<launcher, files>> /\ (op' = op \/ op'.kind = "relinquish")
      BY <2>3, SMTT(20) DEF RelinquishFence
    <3> QED
      BY <2>1, <3>1, Zenon DEF Free
  <2>4. CASE RelinquishStop(g)
    <3>1. files' = files /\ (op' = NoOp \/ op' = [op EXCEPT !.step = "stopped"])
      BY <2>4, Zenon DEF RelinquishStop
    <3>2. op'.kind # "start"
      BY <2>1, <3>1, SMTT(20) DEF NoOp, Operations
    <3>3. Free'
      BY <2>1, <2>4, Zenon DEF RelinquishStop, LetGo, Free, Launchers
    <3> QED
      BY <2>1, <3>1, <3>2, <3>3, Zenon
  <2>5. CASE RelinquishFinish(g)
    <3>1. op' = NoOp /\ (launcher' = NoLauncher \/ launcher' = launcher) /\ (RevokeActor \/ files' = files)
      BY <2>5, Zenon DEF RelinquishFinish
    <3>2. files'.gen \in {None, files.gen}
      BY <3>1, RevokeEffect, Zenon
    <3>3. Free' /\ op'.kind = "none"
      BY <2>1, <3>1, SMTT(20) DEF Free, NoLauncher, NoOp
    <3> QED
      BY <2>1, <3>2, <3>3, Zenon
  <2> QED
    BY <2>2, <2>3, <2>4, <2>5, Zenon
<1> QED
  BY <1>1, <1>2, <1>3, SoleKept, Zenon

(* A provisioning keeps at most one activation unrevoked. *)
LEMMA SoleProvision ==
  ASSUME Typed, OpInv, PledgeInv, SoleInv, NEW a \in Acts, Provision(a)
  PROVE  PledgeInv' /\ SoleInv'
<1> USE DEF Typed, daemon, disk, events, local, remote
<1>1. /\ latest = None /\ op.kind = "none" /\ (Metadata \in Acts \ {a} => Metadata \in Revoked)
      /\ sent' \subseteq sent \cup {a}
      /\ UNCHANGED <<history, latest, up, stopping, session, launcher, op, bound>>
  BY Zenon DEF Provision, Control, Locked
<1>2. Free /\ Unrevoked = {} /\ None \notin Acts
  <2>1. Free
    BY Zenon DEF Provision, Control, Idle, OpInv, Free
  <2>2. None \notin Acts
    BY ActorAssumption, Zenon
  <2>3. Unrevoked = {}
    BY <1>1, <2>2, SMTT(20) DEF SoleInv, Unrevoked
  <2> QED
    BY <2>1, <2>2, <2>3, Zenon
<1>3. files' = [gen |-> a, whole |-> TRUE]
  <2>1. CASE Metadata = a /\ files' = files
    BY <1>2, <2>1, SMTT(20) DEF Metadata, Files
  <2> QED
    BY <2>1, Zenon DEF Provision, Whole
<1>4. ASSUME NEW b \in Acts, Pledged(b)' PROVE b = a
  <2> SUFFICES ASSUME b # a PROVE FALSE
    OBVIOUS
  <2>1. Pledged(b)
    BY <1>1, <1>4, Zenon DEF Pledged, Serving, Revoked
  <2>2. files = [gen |-> b, whole |-> TRUE]
    BY <2>1, Zenon DEF PledgeInv, Whole
  <2>3. files.gen = b /\ files.whole
    BY <2>2, Zenon
  <2> QED
    BY <1>1, <2>1, <2>3, Zenon DEF Metadata, Pledged
<1>5. PledgeInv'
  BY <1>1, <1>2, <1>3, <1>4, Zenon DEF PledgeInv, Free, Whole
<1>6. SoleInv'
  BY <1>1, <1>2, Zenon DEF SoleInv, Unrevoked, Revoked
<1> QED
  BY <1>5, <1>6, Zenon

(* Recording an activation keeps at most one unrevoked. *)
LEMMA SoleRecord ==
  ASSUME Typed, PledgeInv, SoleInv, NEW a \in Acts, Record(a)
  PROVE  PledgeInv' /\ SoleInv'
<1> USE DEF Typed, daemon, disk, events, local, remote
<1>1. /\ Pledged(a) /\ UNCHANGED <<up, stopping, session, files, launcher, op, bound, sent>>
  BY Zenon DEF Record, Pledged
<1>2. CASE UNCHANGED <<history, latest>>
  BY <1>1, <1>2, Zenon DEF PledgeInv, SoleInv, Pledged, Serving, Revoked, Unrevoked, Free
<1>3. CASE /\ history[a] = {} /\ latest = None
           /\ history' = [history EXCEPT ![a] = {"qualified", "accepted"}] /\ latest' = a
  <2>1. history'[a] = {"qualified", "accepted"} /\ \A b \in Acts \ {a} : history'[b] = history[b]
    BY <1>3, Zenon
  <2>2. Revoked' = Revoked /\ Unrevoked' \subseteq Unrevoked \cup {a}
    BY <1>3, <2>1, SMTT(20) DEF Revoked, Unrevoked
  <2>3. Unrevoked = {} /\ files.gen = a /\ a \notin Locals /\ Free /\ op.kind = "none"
    BY <1>1, <1>3, ActorAssumption, SMTT(20) DEF SoleInv, PledgeInv, Whole, Unrevoked
  <2>4. SoleInv'
    BY <1>1, <1>3, <2>2, <2>3, Zenon DEF SoleInv, Free
  <2>5. PledgeInv'
    BY <1>1, <2>2, Zenon DEF PledgeInv, Pledged, Serving, Free
  <2> QED
    BY <2>4, <2>5, Zenon
<1> QED
  BY <1>2, <1>3, Zenon DEF Record

(* Ending an activation keeps at most one unrevoked. *)
LEMMA SoleEnds ==
  ASSUME Typed, PledgeInv, SoleInv, NEW a \in Acts,
         Revoke(a) \/ RevokeActivation(a) \/ FinishDrain(a) \/ RevokeUncommitted(a)
  PROVE  PledgeInv' /\ SoleInv'
<1> USE DEF Typed, daemon, disk, events, local, remote
<1>1. Ends(a)
  BY EndingRevokes, Zenon
<1>2. UNCHANGED <<up, stopping, session, launcher, op, bound, sent>>
  BY Zenon DEF Revoke, RevokeActivation, FinishDrain, RevokeUncommitted
<1>3. \/ files' = files
      \/ files.gen = a /\ files'.gen \in {None, a}
  <2>1. files' = files \/ Cleanup(a)
    BY Zenon DEF Revoke, RevokeActivation, FinishDrain, RevokeUncommitted
  <2> QED
    BY <2>1, CleanupEffect, Zenon
<1>4. ASSUME NEW b \in Acts, Pledged(b)' PROVE files' = Whole(b) /\ Free' /\ op'.kind = "none"
  <2>1. Pledged(b) /\ b # a
    BY <1>1, <1>2, <1>4, Zenon DEF Pledged, Serving, Ends
  <2>2. files = Whole(b) /\ Free /\ op.kind = "none"
    BY <2>1, Zenon DEF PledgeInv
  <2>3. files.gen = b
    BY <2>2, Zenon DEF Whole
  <2> QED
    BY <1>2, <1>3, <2>1, <2>2, <2>3, Zenon DEF Free, Whole
<1>5. ASSUME NEW b \in Unrevoked'
      PROVE  latest' = b /\ files'.gen \notin Locals /\ Free' /\ op'.kind # "start"
  <2>1. b \in Unrevoked /\ b # a /\ b # None
    BY <1>1, <1>5, ActorAssumption, Zenon DEF Ends, Unrevoked
  <2>2. latest = b /\ files.gen \notin Locals /\ Free /\ op.kind # "start"
    BY <2>1, Zenon DEF SoleInv
  <2>3. latest' = latest
    BY <2>1, <2>2, Zenon DEF Revoke, RevokeActivation, FinishDrain, RevokeUncommitted
  <2>4. files'.gen \notin Locals
    BY <1>3, <2>2, ActorAssumption, SMTT(20)
  <2> QED
    BY <1>2, <2>2, <2>3, <2>4, Zenon DEF Free
<1> QED
  BY <1>4, <1>5, Zenon DEF PledgeInv, SoleInv

(* The steps of a remote activation keep at most one unrevoked. *)
LEMMA SoleRemote ==
  ASSUME Typed, Known, OpInv, PledgeInv, SoleInv, NEW a \in Acts,
         \/ Qualify(a) \/ Provision(a) \/ Record(a) \/ EnableRemote(a) \/ ControllerFails(a)
         \/ RevokeUncommitted(a) \/ UncommittedRefused(a) \/ Revoke(a) \/ RevokeActivation(a)
         \/ BeginDrain(a) \/ FinishDrain(a)
  PROVE  PledgeInv' /\ SoleInv'
<1> USE DEF Typed, daemon, disk, events, local, remote
<1>1. CASE Qualify(a) \/ EnableRemote(a) \/ ControllerFails(a) \/ UncommittedRefused(a)
  <2>1. UNCHANGED <<history, session, sent, up, stopping, files, launcher, op, latest>>
    BY <1>1, Zenon DEF Qualify, EnableRemote, ControllerFails, UncommittedRefused
  <2>2. \A b \in Acts : b \in sent => bound'[b] = bound[b]
    BY <1>1, Zenon DEF Qualify, EnableRemote, ControllerFails, UncommittedRefused, Known, Gens
  <2>3. Stays
    BY <2>1, <2>2, HistorySame, Zenon DEF Serving
  <2> QED
    BY <2>1, <2>3, SoleKept, Zenon DEF PledgeInv, SoleInv, Free
<1>2. CASE BeginDrain(a)
  <2>1. UNCHANGED <<session, sent, bound, up, stopping, files, launcher, op, latest>>
    BY <1>2, Zenon DEF BeginDrain
  <2>2. history'[a] = history[a] \cup {"draining"} /\ \A b \in Acts \ {a} : history'[b] = history[b]
    BY <1>2, ZenonT(40) DEF BeginDrain
  <2>3. Revoked' = Revoked /\ Unrevoked' = Unrevoked
    BY <2>2, SMTT(20) DEF Revoked, Unrevoked
  <2> QED
    BY <2>1, <2>3, Zenon DEF PledgeInv, SoleInv, Pledged, Serving, Free
<1> QED
  BY <1>1, <1>2, SoleProvision, SoleRecord, SoleEnds, Zenon

(* Every step keeps at most one activation unrevoked. *)
LEMMA SoleStep == Typed /\ Known /\ OpInv /\ PledgeInv /\ SoleInv /\ [Next]_vars => PledgeInv' /\ SoleInv'
<1> SUFFICES ASSUME Typed, Known, OpInv, PledgeInv, SoleInv, [Next]_vars PROVE PledgeInv' /\ SoleInv'
  OBVIOUS
<1>1. ASSUME UNCHANGED <<history, session, sent, bound, up, stopping, files, launcher, op, latest>>
      PROVE  PledgeInv' /\ SoleInv'
  BY <1>1, Zenon DEF PledgeInv, SoleInv, Pledged, Serving, Revoked, Unrevoked, Free
<1>2. CASE UNCHANGED vars
  BY <1>1, <1>2, Zenon DEF vars, daemon, disk, events, local, remote
<1>3. ASSUME NEW g \in Gens, Claim(g) \/ CancelWork(g) \/ Settle(g) \/ Recover(g)
      PROVE  PledgeInv' /\ SoleInv'
  BY <1>1, <1>3, Zenon DEF Claim, CancelWork, Settle, Recover, WorkStep, daemon, disk, events, local, remote
<1>4. CASE Next
  BY <1>3, <1>4, SoleDaemon, SoleLocal, SoleRelinquish, SoleRemote, ZenonT(60) DEF Next
<1> QED
  BY <1>2, <1>4, Zenon

(* An unrevoked remote activation is the only custodian: it is the task's   *)
(* latest one, and no local credential, process in custody or launch exists *)
(* beside it, also when the request that recorded it was delivered late.    *)
THEOREM OneCustody == Spec => []OneCustodian
<1>1. Init => Known /\ BearerInv /\ PledgeInv /\ SoleInv
  <2> SUFFICES ASSUME Init PROVE Known /\ BearerInv /\ PledgeInv /\ SoleInv
    OBVIOUS
  <2>1. Known
    BY Zenon DEF Init, Known
  <2>2. BearerInv
    BY Zenon DEF Init, BearerInv, OpInv, BearerHeld, BearerWorks, NoLauncher, NoOp, Locked
  <2> QED
    BY <2>1, <2>2, Zenon DEF Init, PledgeInv, SoleInv, Pledged, Unrevoked
<1>2. Typed /\ Known /\ [Next]_vars => Known'
  BY KnownStep, Zenon
<1>3. BearerInv => OpInv
  BY Zenon DEF BearerInv
<1>4. SoleInv => OneCustodian
  BY Zenon DEF SoleInv, OneCustodian, Free
<1> QED
  BY <1>1, <1>2, <1>3, <1>4, TypedInit, TypedStep, BearerStep, SoleStep, PTL DEF Spec

-----------------------------------------------------------------------------
(* What an aborted controller was told. *)

(* The tombstone precedes the reply, so a late record finds it. *)
AbortInv == \A a \in Acts : ctl[a] = "aborted" => a \in Revoked /\ "qualified" \notin history[a]

(* Every step keeps true what an aborted controller was told. *)
LEMMA AbortStep == Typed /\ AbortInv /\ [Next]_vars => AbortInv'
<1> SUFFICES ASSUME Typed, AbortInv, [Next]_vars PROVE AbortInv'
  OBVIOUS
<1> USE DEF Typed, AbortInv, daemon, disk, events, local, remote
<1>1. ASSUME UNCHANGED <<history, ctl>> PROVE AbortInv'
  BY <1>1, Zenon DEF Revoked
<1>2. ASSUME NEW a \in Acts, Qualify(a) \/ ControllerFails(a) \/ UncommittedRefused(a) PROVE AbortInv'
  <2>1. history' = history /\ \A b \in Acts : ctl'[b] = "aborted" => ctl[b] = "aborted"
    BY <1>2, Zenon DEF Qualify, ControllerFails, UncommittedRefused
  <2> QED
    BY <2>1, Zenon DEF Revoked
<1>3. ASSUME NEW a \in Acts, Provision(a) PROVE AbortInv'
  <2>1. history' = history /\ \A b \in Acts : ctl'[b] = "aborted" => ctl[b] = "aborted"
    BY <1>3, Zenon DEF Provision
  <2> QED
    BY <2>1, Zenon DEF Revoked
<1>4. ASSUME NEW a \in Acts, Record(a) PROVE AbortInv'
  <2>1. /\ a \notin Revoked /\ \A b \in Acts \ {a} : history'[b] = history[b]
        /\ \A b \in Acts : ctl'[b] = "aborted" => ctl[b] = "aborted"
    BY <1>4, Zenon DEF Record
  <2> QED
    BY <2>1, Zenon DEF Revoked
<1>5. ASSUME NEW a \in Acts,
             Revoke(a) \/ RevokeActivation(a) \/ BeginDrain(a) \/ FinishDrain(a) \/ RevokeUncommitted(a)
      PROVE  AbortInv'
  <2>1. PICK e \in SUBSET {"revoked", "unqualified", "draining"} : Added(a, e)
    BY <1>5, EndingAdds, Zenon
  <2>2. history'[a] = history[a] \cup e /\ \A b \in Acts \ {a} : history'[b] = history[b]
    BY <2>1, Zenon DEF Added
  <2>3. \A b \in Acts : /\ b \in Revoked => b \in Revoked'
                        /\ "qualified" \in history'[b] => "qualified" \in history[b]
    BY <2>2, SMT DEF Revoked
  <2>4. CASE RevokeUncommitted(a)
    <3>1. a \in Revoked' /\ "qualified" \notin history[a] /\ \A b \in Acts \ {a} : ctl'[b] = ctl[b]
      BY <2>4, EndingRevokes, ZenonT(40) DEF RevokeUncommitted, Ends
    <3> QED
      BY <2>3, <3>1, Zenon
  <2>5. CASE ctl' = ctl
    BY <2>3, <2>5, Zenon
  <2> QED
    BY <1>5, <2>4, <2>5, Zenon DEF Revoke, RevokeActivation, BeginDrain, FinishDrain
<1>6. ASSUME NEW g \in Gens, Claim(g) \/ CancelWork(g) \/ Settle(g) \/ Recover(g) PROVE AbortInv'
  BY <1>1, <1>6, Zenon DEF Claim, CancelWork, Settle, Recover, WorkStep
<1>7. ASSUME DaemonStart \/ BeginStop \/ FinishStop \/ Crash \/ CreateLauncher \/ StartLocal \/ PrepareFails
      PROVE  AbortInv'
  BY <1>1, <1>7, Zenon DEF DaemonStart, BeginStop, FinishStop, Crash, CreateLauncher, StartLocal, PrepareFails
<1>8. ASSUME NEW g \in Locals,
             \/ Prepare(g) \/ Issue(g) \/ Activate(g) \/ Install(g) \/ Enable(g) \/ StartFails(g)
             \/ WorkerExits(g) \/ WatchLost(g) \/ WatchFence(g) \/ RelinquishInterrupted(g)
             \/ RelinquishFence(g) \/ RelinquishStop(g) \/ RelinquishFinish(g)
      PROVE  AbortInv'
  BY <1>1, <1>8, Zenon DEF Prepare, Issue, Activate, Install, Enable, StartFails, WorkerExits, WatchLost,
    WatchFence, RelinquishInterrupted, RelinquishFence, RelinquishStop, RelinquishFinish
<1>9. ASSUME NEW a \in Acts, EnableRemote(a) PROVE AbortInv'
  BY <1>1, <1>9, Zenon DEF EnableRemote
<1>10. CASE UNCHANGED vars
  BY <1>1, <1>10, Zenon DEF vars
<1> QED
  BY <1>2, <1>3, <1>4, <1>5, <1>6, <1>7, <1>8, <1>9, <1>10, ZenonT(60) DEF Next

(* A controller that aborted its parked host was told the truth: that       *)
(* activation is never recorded afterwards, by a late request either.       *)
THEOREM AbortIsFinal == Spec => []AbortedNeverAccepted
<1>1. Init => AbortInv
  BY Zenon DEF Init, AbortInv
<1>2. AbortInv => AbortedNeverAccepted
  BY Zenon DEF AbortInv, AbortedNeverAccepted
<1> QED
  BY <1>1, <1>2, TypedInit, TypedStep, AbortStep, PTL DEF Spec
=============================================================================
