-------------------------- MODULE ServiceSupervisor --------------------------
(***************************************************************************)
(* The supervisor of profile services: one thread per service launches the *)
(* service's process tree, watches it, stops what is left of it and        *)
(* launches it again after a back-off; stop() ends all of it.  Processes   *)
(* exit and write their readiness file at any time, and the operating      *)
(* system may refuse to start or to stop a tree, to remove a file or to    *)
(* write the log.  The reason codes of the health report are left out.     *)
(***************************************************************************)
EXTENDS Naturals

CONSTANTS
  Service,
  Restart,    \* Restart[s]: "always" or "on-failure"
  HasReady,   \* HasReady[s]: s declares a readiness file
  FastLimit,  \* _FAST_FAILURE_LIMIT
  MaxDelay    \* the number of doublings after which the back-off stops growing

ASSUME ServiceAssumption ==
  /\ Restart \in [Service -> {"always", "on-failure"}]
  /\ HasReady \in [Service -> BOOLEAN]
ASSUME LimitAssumption == FastLimit \in Nat \ {0} /\ MaxDelay \in Nat

VARIABLES
  pc,        \* pc[s]: where the service's thread is
  state,     \* state[s]: what the health report says
  trees,     \* trees[s]: the process tree of s, if any
  process,   \* the services the supervisor holds a process handle of
  clean,     \* the services whose tree's leader exited with code 0
  ready,     \* ready[s]: whose readiness file is in the support folder
  up,        \* up[s]: how long s has been running in this attempt
  result,    \* result[s]: how the attempt ended
  fast,      \* fast[s]: consecutive fast failures
  delay,     \* delay[s]: doublings of the back-off
  stop,      \* the _stop event
  stopper    \* progress of the thread in stop()

thread == <<pc, state, process, up, result, fast, delay>>
world == <<trees, clean, ready>>
servicesVars == <<thread, world, stop, stopper>>

(* The state has the declared types. *)
ServicesTypeOK ==
  /\ pc \in [Service -> {"new", "top", "prepare", "launch", "watch", "cleanup", "after", "wait", "end"}]
  /\ state \in [Service -> {"starting", "running", "restarting", "failed"}]
  /\ trees \in [Service -> {"none", "alive", "exited"}]
  /\ process \subseteq Service /\ clean \subseteq Service
  /\ ready \in [Service -> {"none", "current", "stale"}]
  /\ up \in [Service -> {"no", "brief", "steady", "minute"}]
  /\ result \in [Service -> {"stopped", "exited", "error"}]
  /\ fast \in [Service -> 0..FastLimit] /\ delay \in [Service -> 0..MaxDelay]
  /\ stop \in BOOLEAN /\ stopper \in {"idle", "join", "retry", "raised", "done"}

ServicesInit ==
  /\ pc = [s \in Service |-> "new"] /\ state = [s \in Service |-> "starting"]
  /\ trees = [s \in Service |-> "none"] /\ process = {}
  /\ clean = {}
  /\ ready \in [Service -> {"none", "stale"}]
  /\ \A s \in Service : ~HasReady[s] => ready[s] = "none"
  /\ up = [s \in Service |-> "no"] /\ result = [s \in Service |-> "stopped"]
  /\ fast = [s \in Service |-> 0] /\ delay = [s \in Service |-> 0]
  /\ stop = FALSE /\ stopper = "idle"

ThreadGoto(s, l) == pc' = [pc EXCEPT ![s] = l]
Report(s, value) == state' = [state EXCEPT ![s] = value]

-----------------------------------------------------------------------------
(* The processes.                                                           *)

TreeExit(s) ==
  /\ trees[s] = "alive"
  /\ trees' = [trees EXCEPT ![s] = "exited"]
  /\ clean' \in {clean, clean \cup {s}}
  /\ UNCHANGED <<thread, ready, stop, stopper>>

WriteReady(s) ==
  /\ trees[s] = "alive" /\ HasReady[s]
  /\ ready' = [ready EXCEPT ![s] = "current"]
  /\ UNCHANGED <<thread, trees, clean, stop, stopper>>

-----------------------------------------------------------------------------
(* The thread of a service.                                                 *)

(* start() *)
Start(s) ==
  /\ pc[s] = "new" /\ ~stop
  /\ ThreadGoto(s, "top")
  /\ UNCHANGED <<state, process, up, result, fast, delay, world, stop, stopper>>

(* The while loop of _run. *)
Top(s) ==
  /\ pc[s] = "top"
  /\ IF stop THEN ThreadGoto(s, "end") /\ UNCHANGED state
             ELSE ThreadGoto(s, "prepare") /\ Report(s, "starting")
  /\ UNCHANGED <<process, up, result, fast, delay, world, stop, stopper>>

(* An OSError while no tree is held counts as a failed launch. *)
LaunchFailed(s) ==
  /\ ThreadGoto(s, "after")
  /\ result' = [result EXCEPT ![s] = "error"]
  /\ up' = [up EXCEPT ![s] = "no"]
  /\ UNCHANGED <<state, process, fast, delay, world, stop, stopper>>

(* Mutant: only the end of an attempt removes the readiness file. *)
PrepareKeeping(s) ==
  /\ pc[s] = "prepare"
  /\ ThreadGoto(s, IF stop THEN "end" ELSE "launch")
  /\ UNCHANGED <<state, process, up, result, fast, delay, world, stop, stopper>>

(* _attempt removes an old readiness file, then looks at the stop event. *)
Prepare(s) ==
  /\ pc[s] = "prepare"
  /\ \/ LaunchFailed(s)
     \/ /\ ready' = [ready EXCEPT ![s] = "none"]
        /\ ThreadGoto(s, IF stop THEN "end" ELSE "launch")
        /\ UNCHANGED <<state, process, up, result, fast, delay, trees, clean, stop, stopper>>

(* spawn_tree *)
Launch(s) ==
  /\ pc[s] = "launch"
  /\ \/ LaunchFailed(s)
     \/ /\ trees' = [trees EXCEPT ![s] = "alive"]
        /\ process' = process \cup {s} /\ clean' = clean \ {s}
        /\ ready' = [ready EXCEPT ![s] = IF @ = "none" THEN "none" ELSE "stale"]
        /\ up' = [up EXCEPT ![s] = "no"]
        /\ ThreadGoto(s, "watch")
        /\ UNCHANGED <<state, result, fast, delay, stop, stopper>>

(* A poll finds the service ready: its file is there or, without one, it    *)
(* has been alive for two seconds.                                          *)
Running(s) ==
  /\ pc[s] = "watch" /\ ~stop /\ up[s] = "no"
  /\ HasReady[s] => ready[s] # "none"
  /\ up' = [up EXCEPT ![s] = IF HasReady[s] THEN "brief" ELSE "steady"]
  /\ Report(s, "running")
  /\ UNCHANGED <<pc, process, result, fast, delay, world, stop, stopper>>

(* Time passes: two seconds of running, then a minute. *)
Age(s) ==
  /\ pc[s] = "watch" /\ up[s] \in {"brief", "steady"}
  /\ up' = [up EXCEPT ![s] = IF @ = "brief" THEN "steady" ELSE "minute"]
  /\ UNCHANGED <<pc, state, process, result, fast, delay, world, stop, stopper>>

(* The watch ends: the stop event, the tree's exit, a log that cannot be    *)
(* written or a file that cannot be examined, or the readiness timeout.     *)
Unwatch(s) ==
  /\ pc[s] = "watch"
  /\ \E r \in {"stopped", "exited", "error"} :
       /\ (r = "stopped") = stop
       /\ r = "exited" => trees[s] = "exited"
       /\ result' = [result EXCEPT ![s] = r]
  /\ ThreadGoto(s, "cleanup")
  /\ UNCHANGED <<state, process, up, fast, delay, world, stop, stopper>>

(* The locals of an attempt are gone when it ends. *)
Ended(s) ==
  /\ up' = [up EXCEPT ![s] = "no"] /\ result' = [result EXCEPT ![s] = "stopped"]
  /\ clean' = clean \ {s}

(* The outer handler of _run: the thread is over. *)
Fail(s) ==
  /\ Report(s, "failed") /\ ThreadGoto(s, "end")
  /\ Ended(s)
  /\ UNCHANGED <<fast, delay>>

(* A tree that was stopped leaves nobody to write the readiness file. *)
TreeStopped(s) ==
  /\ trees' = [trees EXCEPT ![s] = "none"]
  /\ process' = process \ {s}

(* Mutant: an error of stop_tree is treated as a failed launch. *)
CleanupForgetting(s) ==
  /\ pc[s] = "cleanup"
  /\ \/ LaunchFailed(s)
     \/ /\ TreeStopped(s)
        /\ ready' = [ready EXCEPT ![s] = "none"]
        /\ ThreadGoto(s, "after")
        /\ UNCHANGED <<state, up, result, fast, delay, clean, stop, stopper>>

(* The finally block of _attempt.  stop_tree may raise: the handle is kept  *)
(* and the thread ends.  After it, the log's reader may fail to finish      *)
(* (the thread ends) and the readiness file may fail to go (the attempt     *)
(* counts as a failed launch).                                              *)
Cleanup(s) ==
  /\ pc[s] = "cleanup"
  /\ \/ Fail(s) /\ UNCHANGED <<process, trees, ready, stop, stopper>>
     \/ TreeStopped(s) /\ Fail(s) /\ UNCHANGED <<ready, stop, stopper>>
     \/ /\ TreeStopped(s)
        /\ ThreadGoto(s, "after")
        /\ \/ ready' = [ready EXCEPT ![s] = "none"] /\ UNCHANGED <<up, result>>
           \/ /\ up' = [up EXCEPT ![s] = "no"] /\ result' = [result EXCEPT ![s] = "error"]
              /\ UNCHANGED ready
        /\ UNCHANGED <<state, fast, delay, clean, stop, stopper>>

(* The rest of the loop: a clean exit of an on-failure service is final; a  *)
(* run of less than two seconds is a fast failure; a stable minute resets   *)
(* the back-off.  The log line before the wait may fail.                    *)
Least(a, b) == IF a < b THEN a ELSE b
NextFast(s) == IF up[s] \in {"no", "brief"} THEN Least(FastLimit, fast[s] + 1) ELSE 0

WaitFor(s) == IF up[s] = "minute" THEN 0 ELSE delay[s]

(* Mutant: a clean exit ends the thread whatever the policy says. *)
AfterCleanExit(s) ==
  /\ pc[s] = "after"
  /\ IF stop \/ s \in clean
     THEN ThreadGoto(s, "end") /\ UNCHANGED <<state, fast, delay>>
     ELSE /\ fast' = [fast EXCEPT ![s] = NextFast(s)]
          /\ delay' = [delay EXCEPT ![s] = WaitFor(s)]
          /\ ThreadGoto(s, "wait") /\ Report(s, "restarting")
  /\ Ended(s)
  /\ UNCHANGED <<process, trees, ready, stop, stopper>>

After(s) ==
  /\ pc[s] = "after"
  /\ IF stop
     THEN ThreadGoto(s, "end") /\ UNCHANGED <<state, fast, delay>>
     ELSE IF Restart[s] = "on-failure" /\ result[s] = "exited" /\ s \in clean
     THEN ThreadGoto(s, "end") /\ Report(s, "failed") /\ UNCHANGED <<fast, delay>>
     ELSE /\ fast' = [fast EXCEPT ![s] = NextFast(s)]
          /\ delay' = [delay EXCEPT ![s] = WaitFor(s)]
          /\ \/ ThreadGoto(s, "wait") /\ Report(s, IF NextFast(s) >= FastLimit THEN "failed" ELSE "restarting")
             \/ ThreadGoto(s, "end") /\ Report(s, "failed")
  /\ Ended(s)
  /\ UNCHANGED <<process, trees, ready, stop, stopper>>

Wait(s) ==
  /\ pc[s] = "wait"
  /\ IF stop THEN ThreadGoto(s, "end") /\ UNCHANGED delay
             ELSE ThreadGoto(s, "top") /\ delay' = [delay EXCEPT ![s] = Least(MaxDelay, @ + 1)]
  /\ UNCHANGED <<state, process, up, result, fast, world, stop, stopper>>

(* The log cannot be opened. *)
NoLog(s) ==
  /\ pc[s] = "top" /\ state[s] = "starting" /\ fast[s] = 0 /\ delay[s] = 0
  /\ Fail(s)
  /\ UNCHANGED <<process, trees, ready, stop, stopper>>

-----------------------------------------------------------------------------
(* stop(), called again by the daemon when it raised.                       *)

BeginShutdown ==
  /\ ~stop /\ stop' = TRUE
  /\ UNCHANGED <<thread, world, stopper>>

Stop ==
  /\ stopper \in {"idle", "raised"}
  /\ stop' = TRUE /\ stopper' = "join"
  /\ UNCHANGED <<thread, world>>

Over(s) == pc[s] \in {"new", "end"}

(* Mutant: the threads are not waited for. *)
JoinNone ==
  /\ stopper = "join" /\ stopper' = "retry"
  /\ UNCHANGED <<thread, world, stop>>

(* join with a deadline *)
Join ==
  /\ stopper = "join"
  /\ stopper' = IF \A s \in Service : Over(s) THEN "retry" ELSE "raised"
  /\ UNCHANGED <<thread, world, stop>>

(* A tree whose clean-up failed is stopped again. *)
RetryCleanup(s) ==
  /\ stopper = "retry" /\ s \in process
  /\ \/ TreeStopped(s) /\ UNCHANGED stopper
     \/ stopper' = "raised" /\ UNCHANGED <<process, trees>>
  /\ UNCHANGED <<pc, state, up, result, fast, delay, clean, ready, stop>>

Stopped ==
  /\ stopper = "retry" /\ process = {}
  /\ stopper' = "done"
  /\ UNCHANGED <<thread, world, stop>>

-----------------------------------------------------------------------------
Thread(s) ==
  \/ Top(s) \/ Prepare(s) \/ Launch(s) \/ Running(s) \/ Unwatch(s) \/ Cleanup(s)
  \/ After(s) \/ Wait(s) \/ NoLog(s)

ServicesNext ==
  \/ BeginShutdown \/ Stop \/ Join \/ Stopped
  \/ \E s \in Service :
       TreeExit(s) \/ WriteReady(s) \/ Start(s) \/ Thread(s) \/ Age(s) \/ RetryCleanup(s)

ServicesSpec == ServicesInit /\ [][ServicesNext]_servicesVars

(* A thread that can go on does: its polls and waits are bounded, stop_tree *)
(* escalates to a forced kill after the grace period.  Being running is     *)
(* never the reason why a thread does not look at the stop event or at an   *)
(* exited tree.                                                             *)
FairSpec ==
  /\ ServicesSpec
  /\ \A s \in Service :
       /\ WF_servicesVars(Top(s) \/ Prepare(s) \/ Launch(s) \/ Cleanup(s) \/ After(s) \/ Wait(s))
       /\ WF_servicesVars(Unwatch(s) /\ (stop \/ trees[s] = "exited"))

-----------------------------------------------------------------------------
(* stop(): when it has returned, every thread is over and every tree the    *)
(* supervisor launched is gone, those whose clean-up failed before too, and *)
(* none is launched later.                                                  *)
StopComplete == stopper = "done" => \A s \in Service : Over(s) /\ trees[s] = "none"

(* "Retain and retry a tree whose cleanup failed; never launch over it": a  *)
(* launch finds no tree of an earlier attempt.                              *)
LaunchesAlone == [][\A s \in Service : pc[s] = "launch" /\ pc'[s] = "watch" => trees[s] = "none"]_servicesVars

(* The readiness file that makes a service running was written by the tree  *)
(* that is being watched, never by an earlier one.                          *)
ReadyIsCurrent == \A s \in Service : pc[s] = "watch" => ready[s] # "stale"

(* A service that exited is tried again, unless the supervisor is stopped,  *)
(* the service was only to be restarted on failure and exited cleanly, or   *)
(* its thread gave up on what it could not clean up or log; and every       *)
(* thread, in whatever wait, ends after the stop event (_run, _attempt).    *)
SupervisionProgresses ==
  \A s \in Service :
    /\ trees[s] = "exited" ~> pc[s] = "prepare" \/ stop \/ state[s] = "failed"
    /\ stop ~> Over(s)

=============================================================================
