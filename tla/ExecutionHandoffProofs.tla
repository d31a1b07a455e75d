----------------------- MODULE ExecutionHandoffProofs -----------------------
(***************************************************************************)
(* ExecutionHandoff implements OwnershipTransfer, for every number of      *)
(* handoffs.  Two steps of the refinement need more than their own guards: *)
(* custody moves behind the fence only if no rollback releases the fence   *)
(* meanwhile, and a rollback opens it only if custody has not moved.  Both *)
(* follow from an invariant that ties the phase of the relay's journal to  *)
(* the owner and to the request the relay is serving, and follows an       *)
(* acknowledged export from the relay's journal through the reply to the   *)
(* Runtime's.                                                              *)
(***************************************************************************)
EXTENDS ExecutionHandoff, TLAPS

Replies == Outcomes \cup {"none", "refused"}

Calls ==
  [at : {"idle", "sent", "answered", "done", "fresh", "fresh_answered"},
   h : 0..MaxHandoffs, c : Commands \cup {"none"}, reply : Replies]

Requests ==
  [at : {"idle", "transfer", "move", "reconcile", "admit", "begun", "replied"},
   r : Runtimes, h : 0..MaxHandoffs, c : Commands \cup {"none"}, reply : Replies]

Fences ==
  [state : {"none", "held", "released"}, h : 0..MaxHandoffs,
   ack : (0..MaxHandoffs) \X (Commands \cup {"none"})]

Hosts ==
  [phase : Phases, h : 0..MaxHandoffs, bound : Runtimes,
   last : (0..MaxHandoffs) \X (Commands \cup {"none"})]

Types ==
  /\ ledger \in Runtimes /\ work \in {"idle", "busy"}
  /\ rj \in Journals /\ yj \in Journals
  /\ fence \in Fences /\ host \in Hosts
  /\ call \in [Runtimes -> Calls] /\ busy \in Requests

(* A request in progress names a handoff and a command, a reply an outcome.*)
Named ==
  /\ \A r \in Runtimes :
       call[r].at # "idle" => call[r].h \in Handoffs /\ call[r].c \in Commands
  /\ busy.at # "idle" => busy.h \in Handoffs /\ busy.c \in Commands
  /\ busy.at = "replied" => busy.reply \in Outcomes

Unsealed == {"owned", "host_paused"}

(* The host leaves A only after custody has.                               *)
BoundFollows == ledger = "A" => host.bound = "A"

(* Custody is with A until the export, with B from the adoption on.        *)
OwnerByPhase ==
  /\ yj.phase \in Unsealed => ledger = "A"
  /\ yj.phase \notin Unsealed \cup {"export_sealed"} => ledger = "B"

(* A command that the relay journalled starts from the journal's phase.    *)
Serving ==
  busy.at \in {"begun", "replied"} =>
    yj.phase = Before[busy.c] /\ Pending(yj, busy.h, busy.c)

(* A custody move in progress is behind the fence and past the export.     *)
Moving == busy.at = "move" => fence.state = "held" /\ ledger = "A" /\ yj.phase \notin Unsealed

Adopting ==
  busy.c = "adopt" /\ busy.at \in {"reconcile", "admit", "begun", "replied"} => ledger = "B"

(* The host is rebound behind the fence.                                   *)
Committing == busy.at = "begun" /\ busy.c = "commit" => fence.state = "held"

(* An acknowledged export leaves no way back.                              *)
Sealed == \A h \in Handoffs : Acked(yj, h, "export") => yj.phase \notin Unsealed

ExportKnown ==
  /\ \A h \in Handoffs : Acked(rj, h, "export") => Acked(yj, h, "export")
  /\ \A r \in Runtimes :
       call[r].at = "answered" /\ call[r].reply = "ok" /\ call[r].c = "export"
         => Acked(yj, call[r].h, "export")

Inv ==
  /\ Types /\ Named /\ BoundFollows /\ OwnerByPhase /\ Serving
  /\ Moving /\ Adopting /\ Committing /\ Sealed /\ ExportKnown

-----------------------------------------------------------------------------
(* The table of commands and phases.                                       *)
LEMMA CommandTable ==
  /\ Commands = {"prepare", "export", "adopt", "commit", "resume_prepare",
                 "resume_commit", "finalize", "abort"}
  /\ Before["prepare"] = "owned" /\ After["prepare"] = "host_paused"
  /\ Before["export"] = "host_paused" /\ After["export"] = "export_sealed"
  /\ Before["adopt"] = "export_sealed" /\ After["adopt"] = "adopt_prepared"
  /\ Before["commit"] = "adopt_prepared" /\ After["commit"] = "rebind_committed"
  /\ Before["resume_prepare"] = "rebind_committed" /\ After["resume_prepare"] = "resume_armed"
  /\ Before["resume_commit"] = "resume_armed" /\ After["resume_commit"] = "resumed"
  /\ Before["finalize"] = "resumed" /\ After["finalize"] = "finalized"
  /\ Before["abort"] = "host_paused" /\ After["abort"] = "owned"
  BY Zenon DEF Commands, Before, After

(* Only a pause and a rollback reach a phase before the export, and they   *)
(* start from one; only the adoption takes the phase past "export_sealed". *)
LEMMA PhaseTable ==
  \A c \in Commands :
    /\ After[c] \in Phases
    /\ After[c] \in Unsealed => Before[c] \in Unsealed /\ c \in {"prepare", "abort"}
    /\ Before[c] \in Unsealed /\ c \notin {"prepare", "abort"} => c = "export"
    /\ After[c] \notin Unsealed \cup {"export_sealed"} =>
         c = "adopt" \/ Before[c] \notin Unsealed \cup {"export_sealed"}
  BY CommandTable DEF Unsealed, Phases

(* A journal that begins or finishes a command changes that entry alone.   *)
LEMMA BegunJournal ==
  ASSUME NEW j \in Journals, NEW h \in Handoffs, NEW c \in Commands
  PROVE  /\ Begun(j, h, c) \in Journals
         /\ Begun(j, h, c).phase = j.phase
         /\ Pending(Begun(j, h, c), h, c)
         /\ \A g \in Handoffs, d \in Commands :
              Acked(Begun(j, h, c), g, d) => Acked(j, g, d)
         /\ \A g \in Handoffs, d \in Commands :
              <<g, d>> # <<h, c>> => Begun(j, h, c).entry[<<g, d>>] = j.entry[<<g, d>>]
  BY DEF Begun, Journals, Pending, Acked, Entries, Handoffs

(* Finishing a command moves the phase on a success only.                  *)
LEMMA FinishedJournal ==
  ASSUME NEW j \in Journals, NEW h \in Handoffs, NEW c \in Commands, NEW reply \in Outcomes
  PROVE  /\ Finished(j, h, c, reply) \in Journals
         /\ Finished(j, h, c, reply).phase = IF reply = "ok" THEN After[c] ELSE j.phase
         /\ Finished(j, h, c, reply).entry[<<h, c>>] = reply
         /\ \A g \in Handoffs, d \in Commands :
              Acked(Finished(j, h, c, reply), g, d) =>
                Acked(j, g, d) \/ (g = h /\ d = c /\ reply = "ok")
         /\ \A g \in Handoffs, d \in Commands :
              <<g, d>> # <<h, c>> => Finished(j, h, c, reply).entry[<<g, d>>] = j.entry[<<g, d>>]
  BY PhaseTable, Zenon DEF Finished, Journals, Entries, Handoffs, Acked

(* What is left of a call after the relay answered.                         *)
LEMMA AnsweredCall ==
  ASSUME Types, Named,
         NEW r \in Runtimes, NEW h \in Handoffs, NEW c \in Commands, NEW reply \in Replies
  PROVE  /\ Answered(r, h, c, reply) \in [Runtimes -> Calls]
         /\ \A q \in Runtimes :
              /\ Answered(r, h, c, reply)[q].at # "idle" =>
                   /\ Answered(r, h, c, reply)[q].h \in Handoffs
                   /\ Answered(r, h, c, reply)[q].c \in Commands
              /\ Answered(r, h, c, reply)[q].at = "answered" =>
                   \/ Answered(r, h, c, reply)[q] = call[q]
                   \/ /\ Answered(r, h, c, reply)[q].h = h
                      /\ Answered(r, h, c, reply)[q].c = c
                      /\ Answered(r, h, c, reply)[q].reply = reply
  BY Zenon DEF Answered, Types, Named, Calls, Handoffs

(* Steps that change only the calls, and answer no export.                 *)
LEMMA CallChanges ==
  ASSUME Inv, Types', Named', UNCHANGED <<ledger, fence, rj, yj, host, busy>>,
         \A r \in Runtimes : call'[r].at = "answered" =>
           \/ call'[r] = call[r] \/ call'[r].reply # "ok" \/ call'[r].c # "export"
           \/ Acked(yj, call'[r].h, "export")
  PROVE  Inv'
<1>1. Types'
  BY Zenon DEF Inv, Types, Pending, Acked
<1>2. Named'
  BY Zenon DEF Inv, Named, Pending, Acked
<1>3. BoundFollows'
  BY Zenon DEF Inv, BoundFollows, Pending, Acked
<1>4. OwnerByPhase'
  BY Zenon DEF Inv, OwnerByPhase, Pending, Acked
<1>5. Serving'
  BY Zenon DEF Inv, Serving, Pending, Acked
<1>6. Moving'
  BY Zenon DEF Inv, Moving, Pending, Acked
<1>7. Adopting'
  BY Zenon DEF Inv, Adopting, Pending, Acked
<1>8. Committing'
  BY Zenon DEF Inv, Committing, Pending, Acked
<1>9. Sealed'
  BY Zenon DEF Inv, Sealed, Pending, Acked
<1>10. ExportKnown'
  BY Zenon DEF Inv, ExportKnown, Pending, Acked
<1> QED BY <1>1, <1>2, <1>3, <1>4, <1>5, <1>6, <1>7, <1>8, <1>9, <1>10, Zenon DEF Inv

(* A Runtime crashes, gives a command up or returns from one.              *)
LEMMA CallEnds ==
  ASSUME Inv, NEW r \in Runtimes, Crash(r) \/ Drop(r) \/ Return(r)
  PROVE  Inv'
<1>1. call' = [call EXCEPT ![r] = NoCall] /\ UNCHANGED <<ledger, work, fence, rj, yj, host, busy>>
  BY Zenon DEF Crash, Drop, Return, jvars, hvars
<1>2. Types' /\ Named'
  BY <1>1, HandoffsAssumption DEF Inv, Types, Named, Calls, NoCall, Replies
<1>3. \A q \in Runtimes : call'[q].at = "answered" => call'[q] = call[q]
  BY <1>1, Zenon DEF Inv, Types, NoCall
<1> QED BY <1>1, <1>2, <1>3, CallChanges, Zenon

(* A successor that connects afresh only adds its call.                    *)
LEMMA AdoptFreshKeeps ==
  ASSUME Inv, NEW h \in Handoffs, AdoptFresh(h)
  PROVE  Inv'
<1>1. /\ call' = [call EXCEPT !["B"] = [at |-> "fresh", h |-> h, c |-> "adopt", reply |-> "none"]]
      /\ UNCHANGED <<ledger, work, fence, rj, yj, host, busy>>
  BY Zenon DEF AdoptFresh, jvars, hvars
<1>2. "B" \in Runtimes /\ "adopt" \in Commands
  BY CommandTable, Zenon DEF Runtimes
<1>3. Types' /\ Named'
  BY <1>1, <1>2 DEF Inv, Types, Named, Calls, Replies, Handoffs
<1>4. \A q \in Runtimes : call'[q].at = "answered" => call'[q] = call[q]
  BY <1>1, <1>2, Zenon DEF Inv, Types
<1> QED BY <1>1, <1>3, <1>4, CallChanges, Zenon

(* The relay answers at once: an acknowledgement is one of its journal.    *)
LEMMA ReplyKeeps ==
  ASSUME Inv, NEW r \in Runtimes, Reply(r)
  PROVE  Inv'
<1> DEFINE h == call[r].h
           c == call[r].c
<1>1. h \in Handoffs /\ c \in Commands
  BY Zenon DEF Reply, Receivable, Inv, Named
<1>2. PICK reply \in Replies :
        /\ call' = Answered(r, h, c, reply)
        /\ reply = "ok" => Acked(yj, h, c)
  <2> DEFINE permitted == Recognized(r) /\ ~(r = "A" /\ c \in SuccessorCommands)
             replay == permitted /\ Replied(yj, h, c)
             reply == IF Refused(h, c) THEN "refused"
                      ELSE IF replay THEN yj.entry[<<h, c>>] ELSE "unresolved"
  <2>1. call' = Answered(r, h, c, reply)
    BY Zenon DEF Reply
  <2>2. replay => yj.entry[<<h, c>>] \in Outcomes
    BY Zenon DEF Replied
  <2>3. reply \in Replies
    BY <2>2, Zenon DEF Replies, Outcomes
  <2>4. reply = "ok" => Acked(yj, h, c)
    BY Zenon DEF Acked
  <2> QED BY <2>1, <2>3, <2>4, Zenon
<1>3. UNCHANGED <<ledger, work, fence, rj, yj, host, busy>>
  BY Zenon DEF Reply, jvars
<1> HIDE DEF h, c
<1>4. Types /\ Named
  BY Zenon DEF Inv
<1>5. Types' /\ Named'
  BY <1>1, <1>2, <1>3, <1>4, AnsweredCall, Zenon DEF Types, Named
<1>6. ASSUME NEW q \in Runtimes, call'[q].at = "answered",
             call'[q] # call[q], call'[q].reply = "ok", call'[q].c = "export"
      PROVE  Acked(yj, call'[q].h, "export")
  BY <1>1, <1>2, <1>4, <1>6, AnsweredCall, Zenon
<1> QED BY <1>3, <1>5, <1>6, CallChanges, Zenon

(* Steps of a Runtime that change its journal and its call: what it        *)
(* acknowledges of exports the relay has acknowledged.                     *)
LEMMA RuntimeJournals ==
  ASSUME Inv, Types', Named', UNCHANGED <<ledger, fence, yj, host, busy>>,
         \A h \in Handoffs : Acked(rj', h, "export") => Acked(rj, h, "export") \/ Acked(yj, h, "export"),
         \A r \in Runtimes : call'[r].at = "answered" => call'[r] = call[r]
  PROVE  Inv'
<1>1. Types'
  BY Zenon DEF Inv, Types, Pending, Acked
<1>2. Named'
  BY Zenon DEF Inv, Named, Pending, Acked
<1>3. BoundFollows'
  BY Zenon DEF Inv, BoundFollows, Pending, Acked
<1>4. OwnerByPhase'
  BY Zenon DEF Inv, OwnerByPhase, Pending, Acked
<1>5. Serving'
  BY Zenon DEF Inv, Serving, Pending, Acked
<1>6. Moving'
  BY Zenon DEF Inv, Moving, Pending, Acked
<1>7. Adopting'
  BY Zenon DEF Inv, Adopting, Pending, Acked
<1>8. Committing'
  BY Zenon DEF Inv, Committing, Pending, Acked
<1>9. Sealed'
  BY Zenon DEF Inv, Sealed, Pending, Acked
<1>10. ExportKnown'
  BY Zenon DEF Inv, ExportKnown, Pending, Acked
<1> QED BY <1>1, <1>2, <1>3, <1>4, <1>5, <1>6, <1>7, <1>8, <1>9, <1>10, Zenon DEF Inv

(* A command sent or replayed acknowledges nothing new in the journal.     *)
LEMMA SendKeeps ==
  ASSUME Inv, NEW r \in Runtimes, NEW h \in Handoffs, NEW c \in Commands, Send(r, h, c)
  PROVE  Inv'
<1>1. Types /\ Named /\ "export" \in Commands
  BY CommandTable, Zenon DEF Inv
<1>2. UNCHANGED <<ledger, work, fence, yj, host, busy>>
  BY Zenon DEF Send, hvars
<1>3. CASE rj' = rj /\ Replied(rj, h, c)
           /\ call' = [call EXCEPT ![r] =
                 [at |-> "done", h |-> h, c |-> c, reply |-> rj.entry[<<h, c>>]]]
  <2>1. rj.entry[<<h, c>>] \in Replies
    BY <1>3, Zenon DEF Replied, Replies
  <2>2. Types' /\ Named'
    BY <1>1, <1>2, <1>3, <2>1 DEF Types, Named, Calls, Handoffs
  <2>3. \A q \in Runtimes : call'[q].at = "answered" => call'[q] = call[q]
    BY <1>1, <1>3, Zenon DEF Types
  <2> QED BY <1>2, <1>3, <2>2, <2>3, RuntimeJournals, Zenon
<1>4. CASE rj' = Begun(rj, h, c)
           /\ call' = [call EXCEPT ![r] = [at |-> "sent", h |-> h, c |-> c, reply |-> "none"]]
  <2>1. rj' \in Journals /\ \A g \in Handoffs : Acked(rj', g, "export") => Acked(rj, g, "export")
    BY <1>1, <1>4, BegunJournal, Zenon DEF Types
  <2>2. Types' /\ Named'
    BY <1>1, <1>2, <1>4, <2>1 DEF Types, Named, Calls, Replies, Handoffs
  <2>3. \A q \in Runtimes : call'[q].at = "answered" => call'[q] = call[q]
    BY <1>1, <1>4, Zenon DEF Types
  <2> QED BY <1>2, <2>1, <2>2, <2>3, RuntimeJournals, Zenon
<1> QED BY <1>3, <1>4, Zenon DEF Send

(* A Runtime acknowledges an export only on the relay's reply, which the   *)
(* relay's journal holds.                                                  *)
LEMMA ConcludeKeeps ==
  ASSUME Inv, NEW r \in Runtimes, Conclude(r)
  PROVE  Inv'
<1> DEFINE h == call[r].h
           c == call[r].c
           reply == call[r].reply
<1>1. Types /\ Named /\ ExportKnown /\ "export" \in Commands
  BY CommandTable, Zenon DEF Inv
<1>2. h \in Handoffs /\ c \in Commands /\ reply \in Replies /\ call[r].at = "answered"
  BY <1>1, Zenon DEF Conclude, Named, Types, Calls
<1>3. UNCHANGED <<ledger, work, fence, yj, host, busy>>
  BY Zenon DEF Conclude, hvars
<1>4. CASE rj' = rj /\ call' = [call EXCEPT ![r] = NoCall]
  <2>1. Types' /\ Named'
    BY <1>1, <1>3, <1>4, HandoffsAssumption DEF Types, Named, Calls, NoCall, Replies
  <2>2. \A q \in Runtimes : call'[q].at = "answered" => call'[q] = call[q]
    BY <1>1, <1>4, Zenon DEF Types, NoCall
  <2> QED BY <1>3, <1>4, <2>1, <2>2, RuntimeJournals, Zenon
<1>5. CASE /\ reply \in Outcomes /\ rj' = Finished(rj, h, c, reply)
           /\ call' = [call EXCEPT ![r] = [at |-> "done", h |-> h, c |-> c, reply |-> reply]]
  <2>1. reply = "ok" /\ c = "export" => Acked(yj, h, "export")
    BY <1>1, <1>2, Zenon DEF ExportKnown
  <2> HIDE DEF h, c, reply
  <2>2. /\ rj' \in Journals
        /\ \A g \in Handoffs : Acked(rj', g, "export") => Acked(rj, g, "export") \/ Acked(yj, g, "export")
    <3>1. /\ Finished(rj, h, c, reply) \in Journals
          /\ \A g \in Handoffs, d \in Commands :
               Acked(Finished(rj, h, c, reply), g, d) =>
                 Acked(rj, g, d) \/ (g = h /\ d = c /\ reply = "ok")
      BY <1>1, <1>2, <1>5, FinishedJournal, ZenonT(60) DEF Types
    <3> QED BY <1>1, <1>5, <2>1, <3>1, Zenon
  <2>3. Types' /\ Named'
    BY <1>1, <1>2, <1>3, <1>5, <2>2 DEF Types, Named, Calls, Handoffs
  <2>4. \A q \in Runtimes : call'[q].at = "answered" => call'[q] = call[q]
    BY <1>1, <1>5, Zenon DEF Types
  <2> QED BY <1>3, <2>2, <2>3, <2>4, RuntimeJournals, Zenon
<1> QED BY <1>4, <1>5, ZenonT(60) DEF Conclude

(* The adoption's own entry is not an export.                              *)
LEMMA AdoptionKeeps ==
  ASSUME Inv, AdoptBegin \/ AdoptFinish
  PROVE  Inv'
<1> DEFINE h == call["B"].h
<1>1. Types /\ Named /\ "export" \in Commands /\ "adopt" \in Commands /\ "B" \in Runtimes
      /\ "ok" \in Outcomes /\ "export" # "adopt"
  BY CommandTable, Zenon DEF Inv, Runtimes, Outcomes
<1>2. h \in Handoffs
  BY <1>1, Zenon DEF AdoptBegin, AdoptFinish, Named
<1>3. UNCHANGED <<ledger, work, fence, yj, host, busy>>
  BY Zenon DEF AdoptBegin, AdoptFinish, hvars
<1>4. /\ rj' = Begun(rj, h, "adopt") \/ rj' = Finished(rj, h, "adopt", "ok")
      /\ call' = call \/ call' = [call EXCEPT !["B"] = NoCall]
  BY Zenon DEF AdoptBegin, AdoptFinish
<1> HIDE DEF h
<1>5. rj' \in Journals /\ \A g \in Handoffs : Acked(rj', g, "export") => Acked(rj, g, "export")
  <2>1. CASE rj' = Begun(rj, h, "adopt")
    BY <1>1, <1>2, <2>1, BegunJournal, Zenon DEF Types
  <2>2. CASE rj' = Finished(rj, h, "adopt", "ok")
    <3>1. ASSUME NEW c \in Commands, NEW reply \in Outcomes
          PROVE  /\ Finished(rj, h, c, reply) \in Journals
                 /\ \A g \in Handoffs, d \in Commands :
                      Acked(Finished(rj, h, c, reply), g, d) =>
                        Acked(rj, g, d) \/ (g = h /\ d = c /\ reply = "ok")
      BY <1>1, <1>2, FinishedJournal, ZenonT(60) DEF Types
    <3> QED BY <1>1, <2>2, <3>1, Zenon
  <2> QED BY <1>4, <2>1, <2>2, Zenon
<1>6. Types' /\ Named'
  BY <1>1, <1>3, <1>4, <1>5, HandoffsAssumption DEF Types, Named, Calls, NoCall, Replies
<1>7. \A q \in Runtimes : call'[q].at = "answered" => call'[q] = call[q]
  BY <1>1, <1>4 DEF Types, NoCall
<1> QED BY <1>3, <1>5, <1>6, <1>7, RuntimeJournals, Zenon

(* The fence is held for a paused handoff; no held fence opens.            *)
LEMMA HoldFenceKeeps ==
  ASSUME Inv, NEW r \in Runtimes, HoldFence(r)
  PROVE  Inv'
<1>1. Types /\ Named /\ call[r].h \in Handoffs
  BY Zenon DEF Inv, HoldFence, Done, Named
<1>2. UNCHANGED <<ledger, work, rj, yj, host, busy>> /\ call' = [call EXCEPT ![r] = NoCall]
  BY Zenon DEF HoldFence, jvars, hvars
<1>3. fence' = fence \/ fence' = [state |-> "held", h |-> call[r].h, ack |-> <<0, "none">>]
  BY Zenon DEF HoldFence
<1>4. fence' \in Fences /\ (fence.state = "held" => fence'.state = "held")
  BY <1>1, <1>3, HandoffsAssumption DEF Types, Fences, Handoffs
<1>5. Types' /\ Named'
  BY <1>1, <1>2, <1>4, HandoffsAssumption DEF Types, Named, Calls, NoCall, Replies
<1>6. BoundFollows' /\ OwnerByPhase' /\ Serving' /\ Adopting' /\ Sealed'
  BY <1>2, Zenon DEF Inv, BoundFollows, OwnerByPhase, Serving, Adopting, Sealed, Pending, Acked
<1>7. Moving' /\ Committing'
  BY <1>2, <1>4, Zenon DEF Inv, Moving, Committing
<1>8. ExportKnown'
  BY <1>1, <1>2, Zenon DEF Inv, Types, ExportKnown, NoCall, Acked
<1> QED BY <1>5, <1>6, <1>7, <1>8, Zenon DEF Inv

(* The fence opens neither under a move nor under a commit: a rollback     *)
(* proves the relay's journal is "owned", a finalization that custody has  *)
(* moved and that the journal is "finalized".                              *)
LEMMA ReleaseFenceKeeps ==
  ASSUME Inv, NEW r \in Runtimes, NEW c \in {"abort", "finalize"}, ReleaseFence(r, c)
  PROVE  Inv'
<1>1. Types /\ Named /\ call[r].h \in Handoffs /\ c \in Commands
  BY CommandTable, Zenon DEF Inv, ReleaseFence, Done, Named
<1>2. UNCHANGED <<ledger, work, rj, yj, host, busy>> /\ call' = [call EXCEPT ![r] = NoCall]
  BY Zenon DEF ReleaseFence, jvars, hvars
<1>3. \/ fence' = fence
      \/ /\ fence' = [state |-> "released", h |-> fence.h, ack |-> <<call[r].h, c>>]
         /\ \/ yj.phase = "owned"
            \/ ledger = "B" /\ yj.phase = "finalized"
  BY Zenon DEF ReleaseFence, AbortProven, FinalProven
<1>4. fence' \in Fences
  BY <1>1, <1>3 DEF Types, Fences, Handoffs
<1>5. Types' /\ Named'
  BY <1>1, <1>2, <1>4, HandoffsAssumption DEF Types, Named, Calls, NoCall, Replies
<1>6. BoundFollows' /\ OwnerByPhase' /\ Serving' /\ Adopting' /\ Sealed'
  BY <1>2, Zenon DEF Inv, BoundFollows, OwnerByPhase, Serving, Adopting, Sealed, Pending, Acked
<1>7. Moving'
  BY <1>2, <1>3, Zenon DEF Inv, Moving, Unsealed
<1>8. Committing'
  BY <1>2, <1>3, CommandTable, Zenon DEF Inv, Committing, Serving
<1>9. ExportKnown'
  BY <1>1, <1>2, Zenon DEF Inv, Types, ExportKnown, NoCall, Acked
<1> QED BY <1>5, <1>6, <1>7, <1>8, <1>9, Zenon DEF Inv

(* The relay takes a request: nothing durable changes.                     *)
LEMMA ReceiveKeeps ==
  ASSUME Inv, NEW r \in Runtimes, Receive(r)
  PROVE  Inv'
<1>1. Types /\ Named /\ call[r].h \in Handoffs /\ call[r].c \in Commands
  BY Zenon DEF Inv, Receive, Receivable, Named
<1>2. UNCHANGED <<ledger, work, fence, rj, yj, host, call>>
  BY Zenon DEF Receive, jvars, hvars
<1>3. busy' = [at |-> IF call[r].c = "adopt" THEN "transfer" ELSE "admit",
               r |-> r, h |-> call[r].h, c |-> call[r].c, reply |-> "none"]
  BY Zenon DEF Receive
<1>4. Types' /\ Named'
  BY <1>1, <1>2, <1>3 DEF Types, Named, Requests, Replies, Handoffs
<1>5. BoundFollows' /\ OwnerByPhase' /\ Sealed' /\ ExportKnown'
  BY <1>2, Zenon DEF Inv, BoundFollows, OwnerByPhase, Sealed, ExportKnown, Acked
<1>6. Serving' /\ Moving' /\ Adopting' /\ Committing'
  BY <1>2, <1>3, Zenon DEF Serving, Moving, Adopting, Committing
<1> QED BY <1>4, <1>5, <1>6, Zenon DEF Inv

(* The custody move of an adoption, up to the relay's journal.  The move   *)
(* begins with an export that the Runtime knows to be acknowledged, hence  *)
(* one that the relay acknowledged: no rollback can follow.                *)
LEMMA TransferKeeps ==
  ASSUME Inv, TransferPrepare \/ TransferMove \/ TransferReconcile
  PROVE  Inv'
<1>1. Types /\ Named /\ busy.at # "idle" /\ busy.h \in Handoffs
  BY Zenon DEF Inv, Named, TransferPrepare, TransferMove, TransferReconcile
<1>2. UNCHANGED <<work, fence, rj, yj, host, call>>
  BY Zenon DEF TransferPrepare, TransferMove, TransferReconcile, jvars, hvars
<1>3. \/ /\ busy' = [busy EXCEPT !.at = "move"] /\ ledger' = ledger /\ ledger = "A"
         /\ Held(busy.h) /\ Acked(rj, busy.h, "export")
      \/ busy' = [busy EXCEPT !.at = "reconcile"] /\ ledger' = ledger /\ ledger = "B"
      \/ busy' = [busy EXCEPT !.at = "reconcile"] /\ ledger' = "B" /\ busy.at = "move"
      \/ busy' = [busy EXCEPT !.at = "admit"] /\ ledger' = ledger /\ ledger = "B"
  BY Zenon DEF TransferPrepare, TransferMove, TransferReconcile, Committed
<1>4. busy' \in Requests /\ busy'.h = busy.h /\ busy'.c = busy.c
      /\ busy'.at \in {"move", "reconcile", "admit"}
  BY <1>1, <1>3, Zenon DEF Types, Requests
<1>5. ledger' \in Runtimes /\ (ledger' = ledger \/ (ledger' = "B" /\ busy.at = "move"))
  BY <1>1, <1>3, Zenon DEF Types, Runtimes
<1>6. Types' /\ Named'
  BY <1>1, <1>2, <1>4, <1>5, Zenon DEF Types, Named
<1>7. BoundFollows' /\ Serving' /\ Committing' /\ Sealed' /\ ExportKnown'
  BY <1>2, <1>4, <1>5, Zenon DEF Inv, BoundFollows, Serving, Committing, Sealed, ExportKnown, Acked
<1>8. OwnerByPhase'
  BY <1>2, <1>5, Zenon DEF Inv, OwnerByPhase, Moving
<1>9. Adopting'
  BY <1>1, <1>3, Zenon DEF Types, Requests, Adopting
<1>10. Moving'
  <2>1. Acked(rj, busy.h, "export") => yj.phase \notin Unsealed
    BY <1>1, Zenon DEF Inv, Sealed, ExportKnown
  <2> QED BY <1>1, <1>2, <1>3, <2>1, Zenon DEF Types, Requests, Moving, Held
<1> QED BY <1>6, <1>7, <1>8, <1>9, <1>10, Zenon DEF Inv

(* The relay journals a command it admits: the entry had no outcome, so no *)
(* acknowledgement is lost.                                                *)
LEMMA RelayBeginKeeps ==
  ASSUME Inv, RelayBegin
  PROVE  Inv'
<1> DEFINE h == busy.h
           c == busy.c
<1>1. Types /\ Named /\ h \in Handoffs /\ c \in Commands /\ busy.at = "admit"
  BY Zenon DEF Inv, Named, RelayBegin
<1>2. UNCHANGED <<ledger, work, fence, rj, host, call>> /\ yj' = Begun(yj, h, c)
      /\ busy' = [busy EXCEPT !.at = "begun"]
  BY Zenon DEF RelayBegin, hvars
<1>3. yj.phase = Before[c] /\ yj.entry[<<h, c>>] = "none" /\ (c # "prepare" => fence.state = "held")
  BY Zenon DEF RelayBegin, Admits, Held
<1>4. busy' \in Requests /\ busy'.h = h /\ busy'.c = c /\ busy'.at = "begun"
  BY <1>1, <1>2, Zenon DEF Types, Requests
<1> HIDE DEF h, c
<1>5. /\ Begun(yj, h, c) \in Journals
      /\ Begun(yj, h, c).phase = yj.phase
      /\ Pending(Begun(yj, h, c), h, c)
      /\ \A g \in Handoffs, d \in Commands :
           Acked(Begun(yj, h, c), g, d) => Acked(yj, g, d)
      /\ \A g \in Handoffs, d \in Commands :
           <<g, d>> # <<h, c>> => Begun(yj, h, c).entry[<<g, d>>] = yj.entry[<<g, d>>]
  BY <1>1, BegunJournal, Zenon DEF Types
<1>6. Types' /\ Named'
  BY <1>1, <1>2, <1>4, <1>5, Zenon DEF Types, Named
<1>7. BoundFollows' /\ OwnerByPhase'
  BY <1>2, <1>5, Zenon DEF Inv, BoundFollows, OwnerByPhase
<1>8. Serving'
  BY <1>2, <1>3, <1>4, <1>5, Zenon DEF Serving
<1>9. Moving' /\ Committing'
  BY <1>2, <1>3, <1>4, Zenon DEF Moving, Committing
<1>10. Adopting'
  BY <1>1, <1>2, <1>4, Zenon DEF Inv, Adopting, h, c
<1>11. Sealed'
  BY <1>2, <1>5, CommandTable, Zenon DEF Inv, Sealed
<1>12. \A g \in Handoffs : Acked(yj, g, "export") => Acked(yj', g, "export")
  BY <1>2, <1>3, <1>5, CommandTable, ZenonT(60) DEF Acked
<1>13. ExportKnown'
  BY <1>1, <1>2, <1>12, Zenon DEF Inv, ExportKnown, Named, Acked
<1> QED BY <1>6, <1>7, <1>8, <1>9, <1>10, <1>11, <1>13, Zenon DEF Inv

(* The relay gives a request up before or after the host acted on it.      *)
LEMMA RelayGivesUp ==
  ASSUME Inv, RelayRefuse \/ HostLost
  PROVE  Inv'
<1>1. Types /\ Named /\ busy.h \in Handoffs /\ busy.c \in Commands /\ busy.r \in Runtimes
  BY Zenon DEF Inv, Named, RelayRefuse, HostLost, Types, Requests
<1>2. UNCHANGED <<ledger, work, fence, rj, yj, host>> /\ busy' = NoRequest
  BY Zenon DEF RelayRefuse, HostLost, jvars, hvars
<1>3. PICK reply \in Replies : reply # "ok" /\ call' = Answered(busy.r, busy.h, busy.c, reply)
  BY Zenon DEF RelayRefuse, HostLost, Replies, Outcomes
<1>4. /\ Answered(busy.r, busy.h, busy.c, reply) \in [Runtimes -> Calls]
      /\ \A q \in Runtimes :
           /\ Answered(busy.r, busy.h, busy.c, reply)[q].at # "idle" =>
                /\ Answered(busy.r, busy.h, busy.c, reply)[q].h \in Handoffs
                /\ Answered(busy.r, busy.h, busy.c, reply)[q].c \in Commands
           /\ Answered(busy.r, busy.h, busy.c, reply)[q].at = "answered" =>
                \/ Answered(busy.r, busy.h, busy.c, reply)[q] = call[q]
                \/ /\ Answered(busy.r, busy.h, busy.c, reply)[q].h = busy.h
                   /\ Answered(busy.r, busy.h, busy.c, reply)[q].c = busy.c
                   /\ Answered(busy.r, busy.h, busy.c, reply)[q].reply = reply
  BY <1>1, AnsweredCall
<1>5. Types' /\ Named'
  BY <1>1, <1>2, <1>3, <1>4, HandoffsAssumption
     DEF Types, Named, NoRequest, Requests, Runtimes, Replies
<1>6. BoundFollows' /\ OwnerByPhase' /\ Sealed'
  BY <1>2, Zenon DEF Inv, BoundFollows, OwnerByPhase, Sealed, Acked
<1>7. Serving' /\ Moving' /\ Adopting' /\ Committing'
  BY <1>2, Zenon DEF NoRequest, Serving, Moving, Adopting, Committing
<1>8. ExportKnown'
  BY <1>2, <1>3, <1>4, Zenon DEF Inv, ExportKnown, Acked
<1> QED BY <1>5, <1>6, <1>7, <1>8, Zenon DEF Inv

(* The host acts on a journalled command.  It is bound to the successor by *)
(* a commit only, which the relay journals after the adoption.             *)
LEMMA HostDoKeeps ==
  ASSUME Inv, HostDo
  PROVE  Inv'
<1>1. Types /\ Named /\ busy.h \in Handoffs /\ busy.c \in Commands /\ busy.at = "begun"
  BY Zenon DEF Inv, Named, HostDo
<1>2. UNCHANGED <<ledger, work, fence, rj, yj, call>>
  BY Zenon DEF HostDo, jvars
<1>3. PICK reply \in Outcomes : busy' = HostReplies(reply)
  BY Zenon DEF HostDo, Outcomes
<1>4. /\ busy' \in Requests /\ busy'.at = "replied" /\ busy'.reply \in Outcomes
      /\ busy'.h = busy.h /\ busy'.c = busy.c
  BY <1>1, <1>3, Zenon DEF HostReplies, Types, Requests, Replies
<1>5. \/ host' = host
      \/ host' = [phase |-> After[busy.c], h |-> busy.h,
                  bound |-> IF busy.c = "commit" THEN "B" ELSE host.bound,
                  last |-> <<busy.h, busy.c>>]
  BY Zenon DEF HostDo
<1>6. host' \in Hosts
  BY <1>1, <1>5, PhaseTable DEF Types, Hosts, Handoffs, Runtimes
<1>7. Types' /\ Named'
  BY <1>1, <1>2, <1>4, <1>6, Zenon DEF Types, Named
<1>8. busy.c = "commit" => ledger = "B"
  BY <1>1, CommandTable, Zenon DEF Inv, Serving, OwnerByPhase, Unsealed
<1>9. BoundFollows'
  BY <1>1, <1>2, <1>5, <1>8 DEF Inv, BoundFollows, Types, Hosts, Runtimes
<1>10. OwnerByPhase' /\ Sealed' /\ ExportKnown'
  BY <1>2, Zenon DEF Inv, OwnerByPhase, Sealed, ExportKnown, Acked
<1>11. Serving' /\ Moving' /\ Adopting' /\ Committing'
  BY <1>1, <1>2, <1>4, Zenon DEF Inv, Serving, Moving, Adopting, Committing, Pending
<1> QED BY <1>7, <1>9, <1>10, <1>11, Zenon DEF Inv

(* The relay journals the host's outcome: the phase moves along the table, *)
(* from one whose owner is known to one with the same owner.               *)
LEMMA RelayFinishKeeps ==
  ASSUME Inv, RelayFinish
  PROVE  Inv'
<1> DEFINE h == busy.h
           c == busy.c
           reply == busy.reply
<1>1. /\ Types /\ Named /\ h \in Handoffs /\ c \in Commands /\ busy.r \in Runtimes
      /\ busy.at = "replied" /\ reply \in Outcomes
  BY Zenon DEF Inv, Named, RelayFinish, Types, Requests
<1>2. UNCHANGED <<ledger, work, fence, rj, host>> /\ busy' = NoRequest
  BY Zenon DEF RelayFinish
<1>3. \/ yj' = Finished(yj, h, c, reply) /\ call' = Answered(busy.r, h, c, reply)
      \/ yj' = yj /\ call' = Answered(busy.r, h, c, "unresolved")
  BY Zenon DEF RelayFinish
<1>4. PICK answer \in Replies :
        /\ call' = Answered(busy.r, h, c, answer)
        /\ answer = "ok" => yj' = Finished(yj, h, c, reply) /\ reply = "ok"
  BY <1>1, <1>3, Zenon DEF Replies, Outcomes
<1>5. yj.phase = Before[c] /\ yj.entry[<<h, c>>] = "pending"
  BY <1>1, Zenon DEF Inv, Serving, Pending
<1>6. c = "adopt" => ledger = "B"
  BY <1>1, Zenon DEF Inv, Adopting
<1> HIDE DEF h, c, reply
<1>7. /\ Finished(yj, h, c, reply) \in Journals
      /\ Finished(yj, h, c, reply).phase = IF reply = "ok" THEN After[c] ELSE yj.phase
      /\ Finished(yj, h, c, reply).entry[<<h, c>>] = reply
      /\ \A g \in Handoffs, d \in Commands :
           Acked(Finished(yj, h, c, reply), g, d) =>
             Acked(yj, g, d) \/ (g = h /\ d = c /\ reply = "ok")
      /\ \A g \in Handoffs, d \in Commands :
           <<g, d>> # <<h, c>> => Finished(yj, h, c, reply).entry[<<g, d>>] = yj.entry[<<g, d>>]
  BY <1>1, FinishedJournal DEF Types
<1>8. yj' \in Journals /\ (yj'.phase = yj.phase \/ yj'.phase = After[c])
  BY <1>1, <1>3, <1>7, Zenon DEF Types
<1>9. /\ Answered(busy.r, h, c, answer) \in [Runtimes -> Calls]
      /\ \A q \in Runtimes :
           /\ Answered(busy.r, h, c, answer)[q].at # "idle" =>
                /\ Answered(busy.r, h, c, answer)[q].h \in Handoffs
                /\ Answered(busy.r, h, c, answer)[q].c \in Commands
           /\ Answered(busy.r, h, c, answer)[q].at = "answered" =>
                \/ Answered(busy.r, h, c, answer)[q] = call[q]
                \/ /\ Answered(busy.r, h, c, answer)[q].h = h
                   /\ Answered(busy.r, h, c, answer)[q].c = c
                   /\ Answered(busy.r, h, c, answer)[q].reply = answer
  BY <1>1, AnsweredCall
<1>10. Types' /\ Named'
  BY <1>1, <1>2, <1>4, <1>8, <1>9, HandoffsAssumption
     DEF Types, Named, NoRequest, Requests, Runtimes, Replies
<1>11. BoundFollows' /\ Serving' /\ Moving' /\ Adopting' /\ Committing'
  BY <1>2, Zenon DEF Inv, BoundFollows, NoRequest, Serving, Moving, Adopting, Committing
<1>12. OwnerByPhase'
  BY <1>1, <1>2, <1>5, <1>6, <1>8, PhaseTable, Zenon DEF Inv, OwnerByPhase
<1>13. Sealed'
  <2>1. SUFFICES ASSUME NEW g \in Handoffs, Acked(yj', g, "export")
                 PROVE  yj'.phase \notin Unsealed
    BY Zenon DEF Sealed
  <2>2. CASE Acked(yj, g, "export")
    BY <1>1, <1>5, <1>8, <2>2, PhaseTable, Zenon DEF Inv, Sealed
  <2>3. CASE ~Acked(yj, g, "export")
    <3>1. yj' = Finished(yj, h, c, reply) /\ c = "export" /\ reply = "ok"
      BY <1>3, <1>7, <2>1, <2>3, CommandTable, Zenon
    <3> QED BY <1>7, <3>1, CommandTable, Zenon DEF Unsealed
  <2> QED BY <2>2, <2>3, Zenon
<1>14. \A g \in Handoffs : Acked(yj, g, "export") => Acked(yj', g, "export")
  BY <1>3, <1>5, <1>7, CommandTable, ZenonT(60) DEF Acked
<1>15. answer = "ok" => Acked(yj', h, c)
  BY <1>4, <1>7, Zenon DEF Acked
<1>16. ExportKnown'
  <2>1. \A g \in Handoffs : Acked(rj', g, "export") => Acked(yj', g, "export")
    BY <1>2, <1>14, Zenon DEF Inv, ExportKnown
  <2>2. ASSUME NEW q \in Runtimes, call'[q].at = "answered", call'[q].reply = "ok",
               call'[q].c = "export"
        PROVE  Acked(yj', call'[q].h, "export")
    <3>1. CASE call'[q] = call[q]
      BY <1>1, <1>14, <2>2, <3>1, Zenon DEF Inv, ExportKnown, Named
    <3>2. CASE call'[q].h = h /\ call'[q].c = c /\ call'[q].reply = answer
      BY <1>15, <2>2, <3>2, Zenon
    <3> QED BY <1>4, <1>9, <2>2, <3>1, <3>2, Zenon
  <2> QED BY <2>1, <2>2, Zenon DEF ExportKnown
<1> QED BY <1>10, <1>11, <1>12, <1>13, <1>16, Zenon DEF Inv

(* The launch is aborted, or the relay ends its supervision: the host may  *)
(* be gone, its binding stays.                                             *)
LEMMA SupervisionEnds ==
  ASSUME Inv, RelayExpire \/ \E r \in Runtimes : RelayAbort(r) \/ LoseControl(r)
  PROVE  Inv'
<1>1. UNCHANGED <<ledger, work, fence, rj, yj, call>> /\ (busy' = busy \/ busy' = NoRequest)
  BY Zenon DEF RelayExpire, RelayAbort, LoseControl, FailSupervision, jvars
<1>2. host' = host \/ host' = [host EXCEPT !.phase = "gone"]
  BY Zenon DEF RelayExpire, RelayAbort, LoseControl, FailSupervision
<1>3. Types /\ Named
  BY Zenon DEF Inv
<1>4. host' \in Hosts /\ host'.bound = host.bound
  BY <1>2, <1>3, Zenon DEF Types, Hosts, Phases
<1>5. NoRequest \in Requests /\ NoRequest.at = "idle"
  BY HandoffsAssumption DEF NoRequest, Requests, Runtimes, Replies
<1>6. Types' /\ Named'
  BY <1>1, <1>3, <1>4, <1>5, Zenon DEF Types, Named
<1>7. BoundFollows' /\ OwnerByPhase' /\ Sealed' /\ ExportKnown'
  BY <1>1, <1>4, Zenon DEF Inv, BoundFollows, OwnerByPhase, Sealed, ExportKnown, Acked
<1>8. Serving' /\ Moving' /\ Adopting' /\ Committing'
  BY <1>1, <1>5, Zenon DEF Inv, Serving, Moving, Adopting, Committing, Pending
<1> QED BY <1>6, <1>7, <1>8, Zenon DEF Inv

(* Steps of the worker, the realm and the clock touch nothing of Inv but   *)
(* whether the worker is busy.                                             *)
LEMMA QuietKeeps ==
  ASSUME Inv, \/ Claim \/ Settle \/ Yield \/ OpenSuccessor
              \/ \E h \in Handoffs : Expire(h)
              \/ UNCHANGED vars
  PROVE  Inv'
<1>1. UNCHANGED <<ledger, fence, rj, yj, host, call, busy>> /\ work' \in {"idle", "busy"}
  BY Zenon DEF Inv, Types, Claim, Settle, Yield, OpenSuccessor, Expire, vars, jvars, hvars
<1>2. Types' /\ Named'
  BY <1>1, Zenon DEF Inv, Types, Named
<1> QED BY <1>1, <1>2, CallChanges, Zenon

-----------------------------------------------------------------------------
(* Initially custody, binding and journals are all at their start.         *)
LEMMA InitInv == Init => Inv
<1> SUFFICES ASSUME Init PROVE Inv
  OBVIOUS
<1>1. NoJournal \in Journals /\ NoCall \in Calls /\ NoRequest \in Requests /\ NoFence \in Fences
  BY HandoffsAssumption
     DEF NoJournal, Journals, Phases, Entries, NoCall, Calls, NoRequest, Requests, NoFence, Fences,
         Replies, Runtimes
<1>2. host \in Hosts
  BY HandoffsAssumption DEF Init, Hosts, Phases, Runtimes
<1>3. Types /\ Named
  BY <1>1, <1>2, Zenon DEF Init, Types, Named, NoCall, NoRequest, Runtimes
<1>4. BoundFollows /\ OwnerByPhase /\ Serving /\ Moving /\ Adopting /\ Committing
  BY Zenon DEF Init, BoundFollows, OwnerByPhase, Serving, Moving, Adopting, Committing, NoJournal,
         NoRequest, Unsealed
<1>5. Sealed /\ ExportKnown
  BY CommandTable, Zenon DEF Init, Sealed, ExportKnown, Acked, NoJournal, NoCall
<1> QED BY <1>3, <1>4, <1>5, Zenon DEF Inv

(* Every step keeps the invariant.                                         *)
LEMMA NextInv == Inv /\ [Next]_vars => Inv'
<1> SUFFICES ASSUME Inv, [Next]_vars PROVE Inv'
  OBVIOUS
<1>1. CASE \E r \in Runtimes : RuntimeStep(r)
  <2>1. PICK r \in Runtimes : RuntimeStep(r)
    BY <1>1, Zenon
  <2>2. CASE \E h \in Handoffs, c \in Commands : Send(r, h, c)
    BY <2>2, SendKeeps, Zenon
  <2>3. CASE Conclude(r)
    BY <2>3, ConcludeKeeps, Zenon
  <2>4. CASE HoldFence(r)
    BY <2>4, HoldFenceKeeps, Zenon
  <2>5. CASE ReleaseFence(r, "abort") \/ ReleaseFence(r, "finalize")
    <3>1. \A c \in {"abort", "finalize"} : ReleaseFence(r, c) => Inv'
      BY ReleaseFenceKeeps, Zenon
    <3> QED BY <2>5, <3>1, Zenon
  <2>6. CASE Crash(r) \/ Drop(r) \/ Return(r)
    BY <2>6, CallEnds, Zenon
  <2> QED BY <2>1, <2>2, <2>3, <2>4, <2>5, <2>6, Zenon DEF RuntimeStep
<1>2. CASE RelayServe
  <2>1. CASE \E r \in Runtimes : Reply(r) \/ Receive(r)
    BY <2>1, ReplyKeeps, ReceiveKeeps, Zenon
  <2> QED BY <1>2, <2>1, TransferKeeps, RelayBeginKeeps, RelayGivesUp, HostDoKeeps, RelayFinishKeeps, Zenon
          DEF RelayServe
<1>3. CASE RelayExpire \/ \E r \in Runtimes : RelayAbort(r) \/ LoseControl(r)
  BY <1>3, SupervisionEnds, Zenon
<1>4. CASE \E h \in Handoffs : AdoptFresh(h)
  BY <1>4, AdoptFreshKeeps, Zenon
<1>5. CASE AdoptBegin \/ AdoptFinish
  BY <1>5, AdoptionKeeps, Zenon
<1>6. CASE \/ Claim \/ Settle \/ Yield \/ OpenSuccessor
           \/ \E h \in Handoffs : Expire(h)
           \/ UNCHANGED vars
  BY <1>6, QuietKeeps, Zenon
<1> QED BY <1>1, <1>2, <1>3, <1>4, <1>5, <1>6, Zenon DEF Next

(* Custody, the host's binding, the fence and the relay's journal stay in  *)
(* step through every crash, lost reply and repeated command: custody is   *)
(* with the source until the export and with the successor from the        *)
(* adoption on, and the host is bound to the successor only after that     *)
(* (RelayHandoffEndpoint, transfer_relay_to_successor).                    *)
THEOREM HandoffInvariant == Spec => []Inv
<1> QED BY InitInv, NextInv, PTL DEF Spec

-----------------------------------------------------------------------------
(* A step that leaves custody, binding, fence and work alone stutters.     *)
LEMMA StepStutters ==
  ASSUME UNCHANGED <<ledger, work>>, host'.bound = host.bound, fence'.state = fence.state
  PROVE  UNCHANGED Baton!vars
BY Zenon DEF Baton!vars

(* Every step of the handoff is a step of OwnershipTransfer or a stutter.  *)
LEMMA StepRefines == Inv /\ [Next]_vars => [Baton!Next]_(Baton!vars)
<1> SUFFICES ASSUME Inv, [Next]_vars PROVE Baton!Next \/ UNCHANGED Baton!vars
  OBVIOUS
<1>1. CASE Claim
  BY <1>1, Zenon DEF Claim, hvars, Baton!Next, Baton!Claim
<1>2. CASE Settle
  BY <1>2, Zenon DEF Settle, hvars, Baton!Next, Baton!Settle
<1>3. CASE \E r \in Runtimes : HoldFence(r)
  <2>1. UNCHANGED <<ledger, work, host>>
    BY <1>3, Zenon DEF HoldFence, hvars
  <2>2. CASE fence' = fence
    BY <2>1, <2>2, StepStutters, Zenon
  <2>3. CASE fence.state # "held" /\ work = "idle" /\ fence'.state = "held"
    BY <2>1, <2>3, Zenon DEF Baton!Next, Baton!Close
  <2> QED BY <1>3, <2>2, <2>3 DEF HoldFence, Holdable
<1>4. CASE \E r \in Runtimes : ReleaseFence(r, "abort") \/ ReleaseFence(r, "finalize")
  <2>1. UNCHANGED <<ledger, work, host>>
    BY <1>4, Zenon DEF ReleaseFence, hvars
  <2>2. CASE fence' = fence
    BY <2>1, <2>2, StepStutters, Zenon
  <2>3. CASE fence' # fence
    <3>1. /\ fence.state = "held" /\ fence'.state = "released"
          /\ yj.phase = "owned" \/ (ledger = "B" /\ host.bound = "B")
      BY <1>4, <2>3 DEF ReleaseFence, AbortProven, FinalProven
    <3>2. host.bound = ledger
      BY <3>1, Zenon DEF Inv, BoundFollows, OwnerByPhase, Unsealed
    <3> QED BY <2>1, <3>1, <3>2, Zenon DEF Baton!Next, Baton!Reopen
  <2> QED BY <2>2, <2>3, Zenon
<1>5. CASE TransferMove
  <2>1. ledger = "A" /\ host.bound = "A" /\ fence.state = "held"
    BY <1>5, Zenon DEF Inv, TransferMove, Moving, BoundFollows
  <2> QED BY <1>5, <2>1, Zenon DEF TransferMove, hvars, Baton!Next, Baton!Move
<1>6. CASE HostDo
  <2>1. UNCHANGED <<ledger, work, fence>> /\ busy.at = "begun" /\ Types
    BY <1>6, Zenon DEF HostDo, Inv
  <2>2. CASE host'.bound = host.bound
    BY <2>1, <2>2, StepStutters, Zenon
  <2>3. CASE host'.bound # host.bound
    <3>1. busy.c = "commit" /\ host'.bound = "B"
      BY <1>6, <2>3 DEF HostDo
    <3>2. ledger = "B" /\ fence.state = "held"
      BY <2>1, <3>1, CommandTable, Zenon DEF Inv, Serving, OwnerByPhase, Unsealed, Committing
    <3> QED BY <2>1, <3>1, <3>2, Zenon DEF Baton!Next, Baton!Rebind
  <2> QED BY <2>2, <2>3, Zenon
<1>7. CASE RelayExpire \/ \E r \in Runtimes : RelayAbort(r) \/ LoseControl(r)
  <2>1. UNCHANGED <<ledger, work, fence>>
    BY <1>7, ZenonT(60) DEF RelayExpire, RelayAbort, LoseControl
  <2>2. host' = host \/ host' = [host EXCEPT !.phase = "gone"]
    BY <1>7, Zenon DEF RelayExpire, RelayAbort, LoseControl, FailSupervision
  <2>3. host'.bound = host.bound
    BY <2>2, Zenon DEF Inv, Types, Hosts
  <2> QED BY <2>1, <2>3, StepStutters, Zenon
<1>8. CASE \/ Yield \/ OpenSuccessor \/ AdoptBegin \/ AdoptFinish \/ UNCHANGED vars
           \/ \E h \in Handoffs : AdoptFresh(h) \/ Expire(h)
  <2>1. UNCHANGED <<ledger, work, host, fence>>
    BY <1>8, Zenon DEF Yield, OpenSuccessor, AdoptBegin, AdoptFinish, AdoptFresh, Expire, vars, hvars
  <2> QED BY <2>1, StepStutters, Zenon
<1>9. CASE \E r \in Runtimes : \/ \E h \in Handoffs, c \in Commands : Send(r, h, c)
                             \/ Conclude(r) \/ Return(r) \/ Drop(r) \/ Crash(r)
  <2>1. UNCHANGED <<ledger, work, host, fence>>
    BY <1>9, ZenonT(60) DEF Send, Conclude, Return, Drop, Crash, hvars
  <2> QED BY <2>1, StepStutters, Zenon
<1>10. CASE \/ \E r \in Runtimes : Reply(r) \/ Receive(r)
            \/ TransferPrepare \/ TransferReconcile \/ RelayBegin \/ RelayRefuse
            \/ HostLost \/ RelayFinish
  <2>1. UNCHANGED <<ledger, work, host, fence>>
    BY <1>10, ZenonT(60) DEF Reply, Receive, TransferPrepare, TransferReconcile, RelayBegin, RelayRefuse,
                 HostLost, RelayFinish, hvars
  <2> QED BY <2>1, StepStutters, Zenon
<1> QED BY <1>1, <1>2, <1>3, <1>4, <1>5, <1>6, <1>7, <1>8, <1>9, <1>10, Zenon
        DEF Next, RuntimeStep, RelayServe

(* The journalled handoff implements the transfer of ownership, for any    *)
(* number of handoffs: the claim fence closes only over an idle worker,    *)
(* custody and the host's binding move only behind it, and claims are      *)
(* admitted again only by the Runtime that owns the worker                 *)
(* (hold_local_claim_fence, transfer_relay_to_successor,                   *)
(* release_local_claim_fence).                                             *)
THEOREM HandoffRefines == Spec => TransferRefined
<1>1. Init => Baton!Init
  BY DEF Init, NoFence, Baton!Init
<1>2. Spec => []Inv
  BY HandoffInvariant, Zenon
<1> QED BY <1>1, <1>2, StepRefines, PTL DEF Spec, TransferRefined, Baton!Spec

-----------------------------------------------------------------------------
(* The split commit: a move in progress has its durable intent.            *)
Intended == WriterFollows /\ (busy.at = "move" => writer = "A" /\ transfer = "prepared")

(* Only the three steps of the transfer touch the writer or its intent.    *)
LEMMA IntendedKept == Inv /\ Intended /\ [Next]_vars => Intended'
<1> SUFFICES ASSUME Inv, Intended, [Next]_vars PROVE Intended'
  OBVIOUS
<1>1. CASE TransferPrepare
  BY <1>1, Zenon DEF Intended, WriterFollows, TransferPrepare, PrepareWriter, Inv, Types, Requests
<1>2. CASE TransferMove
  BY <1>2, Zenon DEF Intended, WriterFollows, TransferMove, jvars, Inv, Types, Requests, Moving
<1>3. CASE TransferReconcile
  BY <1>3, Zenon DEF Intended, WriterFollows, TransferReconcile, Committed, Inv, Types, Requests
<1>4. CASE UNCHANGED <<ledger, writer, transfer>> /\ (busy'.at = "move" => busy.at = "move")
  BY <1>4, Zenon DEF Intended, WriterFollows
<1>5. CASE \/ Claim \/ Settle \/ Yield \/ OpenSuccessor \/ AdoptBegin \/ AdoptFinish
           \/ \E h \in Handoffs : AdoptFresh(h) \/ Expire(h)
           \/ UNCHANGED vars
  BY <1>4, <1>5, Zenon DEF Claim, Settle, Yield, OpenSuccessor, AdoptBegin, AdoptFinish, AdoptFresh,
                    Expire, vars, jvars
<1>6. CASE \E r \in Runtimes : RuntimeStep(r)
  <2>1. UNCHANGED <<ledger, writer, transfer, busy>>
    BY <1>6, ZenonT(60) DEF RuntimeStep, Send, Conclude, HoldFence, ReleaseFence, Return, Drop, Crash, jvars
  <2> QED BY <1>4, <2>1, Zenon
<1>7. CASE RelayExpire \/ \E r \in Runtimes : RelayAbort(r) \/ LoseControl(r)
  BY <1>4, <1>7 DEF RelayExpire, RelayAbort, LoseControl, FailSupervision, NoRequest, jvars
<1>8. CASE \/ \E r \in Runtimes : Reply(r) \/ Receive(r)
           \/ RelayRefuse \/ HostLost \/ RelayFinish
  <2>1. UNCHANGED <<ledger, writer, transfer>>
    BY <1>8, ZenonT(60) DEF Reply, Receive, RelayRefuse, HostLost, RelayFinish, jvars
  <2>2. ASSUME NEW r \in Runtimes, Receive(r)
        PROVE  busy'.at \in {"transfer", "admit"}
    <3>1. busy' = [at |-> IF call[r].c = "adopt" THEN "transfer" ELSE "admit",
                   r |-> r, h |-> call[r].h, c |-> call[r].c, reply |-> "none"]
      BY <2>2, Zenon DEF Receive
    <3> QED BY <3>1, Zenon
  <2>3. \A r \in Runtimes : Reply(r) => busy' = busy
    BY Zenon DEF Reply
  <2>4. RelayRefuse \/ HostLost \/ RelayFinish => busy'.at = "idle"
    BY DEF RelayRefuse, HostLost, RelayFinish, NoRequest
  <2> QED BY <1>4, <1>8, <2>1, <2>2, <2>3, <2>4, Zenon
<1>9. CASE RelayBegin \/ HostDo
  BY <1>4, <1>9 DEF RelayBegin, HostDo, HostReplies, jvars, Inv, Types, Requests
<1> QED BY <1>1, <1>2, <1>3, <1>5, <1>6, <1>7, <1>8, <1>9, Zenon DEF Next, RelayServe

(* The journal's writer never runs ahead of the custody ledger, and while  *)
(* the two differ the durable intent names the successor, whichever steps  *)
(* of the transfer are lost or repeated (prepare_writer_transfer,          *)
(* reconcile_writer_transfer).                                             *)
THEOREM WriterFollowsLedger == Spec => []WriterFollows
<1>1. Init => Intended
  BY DEF Init, Intended, WriterFollows, NoRequest
<1>2. Intended => WriterFollows
  BY Zenon DEF Intended
<1> QED BY <1>1, <1>2, IntendedKept, HandoffInvariant, PTL DEF Spec

-----------------------------------------------------------------------------
(* Acknowledgements: one that a Runtime received or journalled is in the   *)
(* relay's journal, and an adoption in progress is one.                    *)
AnswerKnown(k, j) ==
  /\ k.at \in {"answered", "fresh_answered"} /\ k.reply = "ok" => Acked(j, k.h, k.c)
  /\ k.at \in {"fresh", "fresh_answered"} => k.c = "adopt"

AckKnown ==
  /\ \A h \in Handoffs, c \in Commands : Acked(rj, h, c) => Acked(yj, h, c)
  /\ \A r \in Runtimes : AnswerKnown(call[r], yj)

KnownCalls(f, j) == \A r \in Runtimes : f[r] = call[r] \/ AnswerKnown(f[r], j)

(* The relay keeps what it acknowledged; a step that journals or answers   *)
(* only what the relay acknowledged keeps the invariant.                   *)
LEMMA AckEffect ==
  ASSUME Inv, AckKnown,
         \A h \in Handoffs, c \in Commands : Acked(yj, h, c) => Acked(yj', h, c),
         \A h \in Handoffs, c \in Commands : Acked(rj', h, c) => Acked(rj, h, c) \/ Acked(yj', h, c),
         KnownCalls(call', yj')
  PROVE  AckKnown'
<1>1. ASSUME NEW r \in Runtimes PROVE AnswerKnown(call[r], yj')
  <2>1. call[r].at # "idle" => call[r].h \in Handoffs /\ call[r].c \in Commands
    BY Zenon DEF Inv, Named
  <2> QED BY <2>1, Zenon DEF AckKnown, AnswerKnown
<1>2. \A r \in Runtimes : AnswerKnown(call'[r], yj')
  BY <1>1, Zenon DEF KnownCalls
<1>3. \A h \in Handoffs, c \in Commands : Acked(rj', h, c) => Acked(yj', h, c)
  BY Zenon DEF AckKnown
<1> QED BY <1>2, <1>3, Zenon DEF AckKnown

(* A call that ends, or that is not answered yet, acknowledges nothing.    *)
LEMMA CallKnown ==
  ASSUME Inv, NEW r \in Runtimes, NEW k, NEW j, AnswerKnown(k, j)
  PROVE  KnownCalls([call EXCEPT ![r] = k], j)
  BY Zenon DEF Inv, Types, KnownCalls

(* No call, a call only sent and a call that is done claim nothing of a journal. *)
LEMMA SilentKnown ==
  ASSUME NEW h, NEW c, NEW reply, NEW j
  PROVE  /\ AnswerKnown(NoCall, j)
         /\ AnswerKnown([at |-> "sent", h |-> h, c |-> c, reply |-> reply], j)
         /\ AnswerKnown([at |-> "done", h |-> h, c |-> c, reply |-> reply], j)
         /\ AnswerKnown([at |-> "fresh", h |-> h, c |-> "adopt", reply |-> reply], j)
  BY Zenon DEF AnswerKnown, NoCall

(* An answer is as good as the reply it carries.                           *)
LEMMA AnsweredKnown ==
  ASSUME Inv, AckKnown, NEW r \in Runtimes, NEW h, NEW c, NEW reply, NEW j,
         reply = "ok" => Acked(j, h, c)
  PROVE  KnownCalls(Answered(r, h, c, reply), j)
<1>1. CASE call[r].at \in {"sent", "fresh"} /\ call[r].h = h /\ call[r].c = c
  <2> DEFINE k == [at |-> IF call[r].at = "sent" THEN "answered" ELSE "fresh_answered",
                   h |-> h, c |-> c, reply |-> reply]
  <2>1. call[r].at = "fresh" => c = "adopt"
    BY <1>1, Zenon DEF AckKnown, AnswerKnown
  <2>2. AnswerKnown(k, j)
    BY <1>1, <2>1, Zenon DEF AnswerKnown
  <2>3. Answered(r, h, c, reply) = [call EXCEPT ![r] = k]
    BY <1>1, Zenon DEF Answered
  <2> HIDE DEF k
  <2> QED BY <2>2, <2>3, CallKnown, Zenon
<1>2. CASE ~(call[r].at \in {"sent", "fresh"} /\ call[r].h = h /\ call[r].c = c)
  BY <1>2, Zenon DEF Answered, KnownCalls
<1> QED BY <1>1, <1>2, Zenon

(* The Runtimes' steps journal an acknowledgement only on the relay's.     *)
LEMMA RuntimeAcks ==
  ASSUME Inv, AckKnown, NEW r \in Runtimes, RuntimeStep(r)
  PROVE  AckKnown'
<1>1. yj' = yj
  BY ZenonT(60) DEF RuntimeStep, Send, Conclude, HoldFence, ReleaseFence, Return, Drop, Crash, jvars
<1>2. CASE rj' = rj /\ call' = [call EXCEPT ![r] = NoCall]
  <2>1. KnownCalls(call', yj')
    BY <1>2, CallKnown, SilentKnown, Zenon
  <2> QED BY <1>1, <1>2, <2>1, AckEffect, Zenon
<1>3. ASSUME NEW h \in Handoffs, NEW c \in Commands, Send(r, h, c)
      PROVE  AckKnown'
  <2>1. CASE rj' = rj /\ call' = [call EXCEPT ![r] =
                 [at |-> "done", h |-> h, c |-> c, reply |-> rj.entry[<<h, c>>]]]
    <3>1. KnownCalls(call', yj')
      BY <2>1, CallKnown, SilentKnown, Zenon
    <3> QED BY <1>1, <2>1, <3>1, AckEffect, Zenon
  <2>2. CASE rj' = Begun(rj, h, c)
             /\ call' = [call EXCEPT ![r] = [at |-> "sent", h |-> h, c |-> c, reply |-> "none"]]
    <3>1. \A g \in Handoffs, d \in Commands : Acked(rj', g, d) => Acked(rj, g, d)
      BY <2>2, BegunJournal, Zenon DEF Inv, Types
    <3>2. KnownCalls(call', yj')
      BY <2>2, CallKnown, SilentKnown, Zenon
    <3> QED BY <1>1, <3>1, <3>2, AckEffect, Zenon
  <2> QED BY <1>3, <2>1, <2>2, Zenon DEF Send
<1>4. CASE Conclude(r)
  <2> DEFINE h == call[r].h
             c == call[r].c
             reply == call[r].reply
  <2>1. h \in Handoffs /\ c \in Commands /\ (reply = "ok" => Acked(yj, h, c))
    BY <1>4, Zenon DEF Conclude, Inv, Named, AckKnown, AnswerKnown
  <2>2. \/ rj' = rj /\ call' = [call EXCEPT ![r] = NoCall]
        \/ /\ reply \in Outcomes /\ rj' = Finished(rj, h, c, reply)
           /\ call' = [call EXCEPT ![r] = [at |-> "done", h |-> h, c |-> c, reply |-> reply]]
    BY <1>4, Zenon DEF Conclude
  <2> HIDE DEF h, c, reply
  <2>3. CASE /\ reply \in Outcomes /\ rj' = Finished(rj, h, c, reply)
             /\ call' = [call EXCEPT ![r] = [at |-> "done", h |-> h, c |-> c, reply |-> reply]]
    <3>1. \A g \in Handoffs, d \in Commands :
            Acked(rj', g, d) => Acked(rj, g, d) \/ (g = h /\ d = c /\ reply = "ok")
      BY <2>1, <2>3, FinishedJournal, Zenon DEF Inv, Types
    <3>2. KnownCalls(call', yj')
      BY <2>3, CallKnown, SilentKnown, Zenon
    <3> QED BY <1>1, <2>1, <3>1, <3>2, AckEffect, Zenon
  <2> QED BY <1>2, <2>2, <2>3, Zenon
<1>5. CASE \/ HoldFence(r) \/ ReleaseFence(r, "abort") \/ ReleaseFence(r, "finalize")
           \/ Return(r) \/ Drop(r) \/ Crash(r)
  BY <1>2, <1>5, Zenon DEF HoldFence, ReleaseFence, Return, Drop, Crash, jvars
<1> QED BY <1>3, <1>4, <1>5, Zenon DEF RuntimeStep

(* The successor's adoption journals the relay's acknowledgement of it.    *)
LEMMA AdoptionAcks ==
  ASSUME Inv, AckKnown, AdoptBegin \/ AdoptFinish
  PROVE  AckKnown'
<1>1. /\ yj' = yj /\ "B" \in Runtimes /\ "adopt" \in Commands /\ "ok" \in Outcomes
      /\ call["B"].h \in Handoffs
      /\ Acked(yj, call["B"].h, "adopt")
  BY CommandTable, Zenon DEF AdoptBegin, AdoptFinish, Inv, Named, AckKnown, AnswerKnown, Runtimes, Outcomes
<1>2. CASE AdoptBegin
  <2>1. \A g \in Handoffs, d \in Commands : Acked(rj', g, d) => Acked(rj, g, d)
    BY <1>1, <1>2, BegunJournal, Zenon DEF Inv, Types, AdoptBegin
  <2>2. call' = call
    BY <1>2, Zenon DEF AdoptBegin
  <2> QED BY <1>1, <2>1, <2>2, AckEffect, Zenon DEF KnownCalls
<1>3. CASE AdoptFinish
  <2>1. \A g \in Handoffs, d \in Commands :
          Acked(rj', g, d) => Acked(rj, g, d) \/ (g = call["B"].h /\ d = "adopt")
    <3>1. rj \in Journals /\ rj' = Finished(rj, call["B"].h, "adopt", "ok")
      BY <1>3, Zenon DEF Inv, Types, AdoptFinish
    <3>2. ASSUME NEW h \in Handoffs, NEW c \in Commands, NEW reply \in Outcomes
          PROVE  \A g \in Handoffs, d \in Commands :
                   Acked(Finished(rj, h, c, reply), g, d) =>
                     Acked(rj, g, d) \/ (g = h /\ d = c /\ reply = "ok")
      BY <3>1, FinishedJournal, Zenon
    <3> QED BY <1>1, <3>1, <3>2, Zenon
  <2>2. call' = [call EXCEPT !["B"] = NoCall]
    BY <1>3, Zenon DEF AdoptFinish
  <2>3. KnownCalls(call', yj')
    <3>1. AnswerKnown(NoCall, yj')
      BY SilentKnown, Zenon
    <3> QED BY <1>1, <2>2, <3>1, CallKnown, Zenon
  <2> QED BY <1>1, <2>1, <2>3, AckEffect, Zenon
<1> QED BY <1>2, <1>3, Zenon

(* The relay acknowledges what it journalled, and journals a command once. *)
LEMMA RelayAcks ==
  ASSUME Inv, AckKnown, RelayServe
  PROVE  AckKnown'
<1>1. CASE UNCHANGED <<rj, yj, call>>
  BY <1>1, AckEffect, Zenon DEF KnownCalls
<1>2. CASE \/ \E r \in Runtimes : Receive(r)
           \/ TransferPrepare \/ TransferMove \/ TransferReconcile \/ HostDo
  BY <1>1, <1>2, Zenon DEF Receive, TransferPrepare, TransferMove, TransferReconcile, HostDo, jvars
<1>3. ASSUME NEW r \in Runtimes, Reply(r)
      PROVE  AckKnown'
  <2> DEFINE h == call[r].h
             c == call[r].c
             permitted == Recognized(r) /\ ~(r = "A" /\ c \in SuccessorCommands)
             replay == permitted /\ Replied(yj, h, c)
             reply == IF Refused(h, c) THEN "refused"
                      ELSE IF replay THEN yj.entry[<<h, c>>] ELSE "unresolved"
  <2>1. call' = Answered(r, h, c, reply) /\ rj' = rj /\ yj' = yj
    BY <1>3, Zenon DEF Reply, jvars
  <2>2. reply = "ok" => Acked(yj, h, c)
    BY Zenon DEF Acked
  <2> HIDE DEF h, c, reply
  <2>3. KnownCalls(call', yj')
    <3>1. KnownCalls(Answered(r, h, c, reply), yj)
      BY <2>2, AnsweredKnown, Zenon
    <3> QED BY <2>1, <3>1, Zenon
  <2> QED BY <2>1, <2>3, AckEffect, Zenon
<1>4. CASE RelayRefuse \/ HostLost
  <2>1. /\ rj' = rj /\ yj' = yj
        /\ \/ call' = Answered(busy.r, busy.h, busy.c, "unresolved")
           \/ call' = Answered(busy.r, busy.h, busy.c, "refused")
    BY <1>4, Zenon DEF RelayRefuse, HostLost, jvars
  <2>2. busy.r \in Runtimes
    BY Zenon DEF Inv, Types, Requests
  <2>3. KnownCalls(call', yj')
    <3>1. /\ KnownCalls(Answered(busy.r, busy.h, busy.c, "unresolved"), yj)
          /\ KnownCalls(Answered(busy.r, busy.h, busy.c, "refused"), yj)
      BY <2>2, AnsweredKnown
    <3> QED BY <2>1, <3>1, Zenon
  <2> QED BY <2>1, <2>3, AckEffect, Zenon
<1>5. CASE RelayBegin
  <2>1. /\ busy.h \in Handoffs /\ busy.c \in Commands /\ yj.entry[<<busy.h, busy.c>>] = "none"
        /\ yj' = Begun(yj, busy.h, busy.c) /\ UNCHANGED <<rj, call>>
    BY <1>5, Zenon DEF RelayBegin, Admits, Inv, Named
  <2>2. \A g \in Handoffs, d \in Commands :
          <<g, d>> # <<busy.h, busy.c>> => yj'.entry[<<g, d>>] = yj.entry[<<g, d>>]
    BY <2>1, BegunJournal, Zenon DEF Inv, Types
  <2>3. \A g \in Handoffs, d \in Commands : Acked(yj, g, d) => Acked(yj', g, d)
    BY <2>1, <2>2, Zenon DEF Acked
  <2> QED BY <2>1, <2>3, AckEffect, Zenon DEF KnownCalls
<1>6. CASE RelayFinish
  <2> DEFINE h == busy.h
             c == busy.c
             reply == busy.reply
  <2>1. /\ h \in Handoffs /\ c \in Commands /\ busy.r \in Runtimes /\ reply \in Outcomes
        /\ yj.entry[<<h, c>>] = "pending" /\ rj' = rj
    BY <1>6, Zenon DEF RelayFinish, Inv, Types, Named, Requests, Serving, Pending
  <2>2. \/ yj' = yj /\ call' = Answered(busy.r, h, c, "unresolved")
        \/ yj' = Finished(yj, h, c, reply) /\ call' = Answered(busy.r, h, c, reply)
    BY <1>6, Zenon DEF RelayFinish
  <2> HIDE DEF h, c, reply
  <2>3. CASE yj' = yj /\ call' = Answered(busy.r, h, c, "unresolved")
    <3>1. KnownCalls(call', yj')
      <4>1. KnownCalls(Answered(busy.r, h, c, "unresolved"), yj)
        BY <2>1, AnsweredKnown
      <4> QED BY <2>3, <4>1, Zenon
    <3> QED BY <2>1, <2>3, <3>1, AckEffect, Zenon
  <2>4. CASE yj' = Finished(yj, h, c, reply) /\ call' = Answered(busy.r, h, c, reply)
    <3>1. /\ yj'.entry[<<h, c>>] = reply
          /\ \A g \in Handoffs, d \in Commands :
               <<g, d>> # <<h, c>> => yj'.entry[<<g, d>>] = yj.entry[<<g, d>>]
      <4>1. yj \in Journals
        BY Zenon DEF Inv, Types
      <4> QED BY <2>1, <2>4, <4>1, FinishedJournal
    <3>2. \A g \in Handoffs, d \in Commands : Acked(yj, g, d) => Acked(yj', g, d)
      BY <2>1, <3>1, Zenon DEF Acked
    <3>3. reply = "ok" => Acked(yj', h, c)
      BY <3>1, Zenon DEF Acked
    <3>4. KnownCalls(call', yj')
      <4>1. KnownCalls(Answered(busy.r, h, c, reply), yj')
        BY <2>1, <3>3, AnsweredKnown
      <4> QED BY <2>4, <4>1, Zenon
    <3> QED BY <2>1, <3>2, <3>4, AckEffect, Zenon
  <2> QED BY <2>2, <2>3, <2>4, Zenon
<1> QED BY <1>2, <1>3, <1>4, <1>5, <1>6, Zenon DEF RelayServe

(* Every step keeps what the acknowledgements in flight claim. *)
LEMMA AckKept == Inv /\ AckKnown /\ [Next]_vars => AckKnown'
<1> SUFFICES ASSUME Inv, AckKnown, [Next]_vars PROVE AckKnown'
  OBVIOUS
<1>1. CASE UNCHANGED <<rj, yj, call>>
  BY <1>1, AckEffect, Zenon DEF KnownCalls
<1>2. CASE \/ Claim \/ Settle \/ Yield \/ OpenSuccessor
           \/ \E h \in Handoffs : Expire(h)
           \/ UNCHANGED vars
  BY <1>1, <1>2, Zenon DEF Claim, Settle, Yield, OpenSuccessor, Expire, vars, jvars
<1>3. CASE RelayExpire \/ \E r \in Runtimes : RelayAbort(r) \/ LoseControl(r)
  BY <1>1, <1>3, Zenon DEF RelayExpire, RelayAbort, LoseControl, jvars
<1>4. ASSUME NEW h \in Handoffs, AdoptFresh(h) PROVE AckKnown'
  <2>1. /\ UNCHANGED <<rj, yj>> /\ "B" \in Runtimes
        /\ call' = [call EXCEPT !["B"] = [at |-> "fresh", h |-> h, c |-> "adopt", reply |-> "none"]]
    BY <1>4, Zenon DEF AdoptFresh, jvars, Runtimes
  <2>2. KnownCalls(call', yj')
    <3>1. AnswerKnown([at |-> "fresh", h |-> h, c |-> "adopt", reply |-> "none"], yj')
      BY SilentKnown, Zenon
    <3> QED BY <2>1, <3>1, CallKnown, Zenon
  <2> QED BY <2>1, <2>2, AckEffect, Zenon
<1> QED BY <1>2, <1>3, <1>4, RuntimeAcks, AdoptionAcks, RelayAcks, Zenon DEF Next

-----------------------------------------------------------------------------
(* The relay and its host: only the command being served can be pending    *)
(* while stream and relay are in order, and the host is in the journal's   *)
(* phase but for the reply that is not journalled yet.                     *)
InOrder == stream # "failed" /\ relay # "failed"
Executing == busy.at \in {"begun", "replied"}

HostKnown ==
  /\ ~InOrder => busy.at = "idle"
  /\ \A h \in Handoffs, c \in Commands :
       InOrder /\ Pending(yj, h, c) => Executing /\ busy.h = h /\ busy.c = c
  /\ host.phase # "gone" =>
       /\ (\A h \in Handoffs, c \in Commands : ~Pending(yj, h, c)) => yj.phase = host.phase
       /\ busy.at = "begun" => host.phase = yj.phase
       /\ busy.at = "replied" =>
            host.phase = IF busy.reply = "ok" THEN After[busy.c] ELSE yj.phase

(* Before the relay journals a command nothing is pending, and a request   *)
(* that is refused there leaves no trace.                                  *)
LEMMA HostEarly ==
  ASSUME HostKnown, UNCHANGED <<yj, host, stream, relay>>, ~Executing, ~Executing',
         ~InOrder => busy'.at = "idle"
  PROVE  HostKnown'
  BY Zenon DEF HostKnown, InOrder, Executing, Pending

(* A command abandoned in the middle stays pending.                        *)
LEMMA HostAbandoned ==
  ASSUME Inv, HostKnown, Executing, yj' = yj, ~InOrder', busy'.at = "idle"
  PROVE  HostKnown'
<1>1. busy.h \in Handoffs /\ busy.c \in Commands /\ Pending(yj', busy.h, busy.c)
  BY Zenon DEF Inv, Named, Serving, Executing
<1>2. busy'.at \notin {"begun", "replied"}
  OBVIOUS
<1> QED BY <1>1, <1>2, Zenon DEF HostKnown

(* The steps that serve a request.                                         *)
LEMMA HostServes ==
  ASSUME Inv, HostKnown, RelayServe
  PROVE  HostKnown'
<1>1. ASSUME NEW r \in Runtimes, Reply(r) PROVE HostKnown'
  BY <1>1, Zenon DEF Reply, HostKnown, InOrder, Executing, Pending, jvars
<1>2. ASSUME NEW r \in Runtimes, Receive(r) PROVE HostKnown'
  <2>1. busy = NoRequest /\ relay = "serving" /\ stream # "failed"
        /\ UNCHANGED <<yj, host, stream, relay>>
    BY <1>2, Zenon DEF Receive, Receivable, Refused, Replied, Outcomes, jvars, hvars
  <2>2. busy' = [at |-> IF call[r].c = "adopt" THEN "transfer" ELSE "admit",
                 r |-> r, h |-> call[r].h, c |-> call[r].c, reply |-> "none"]
    BY <1>2, Zenon DEF Receive
  <2>3. ~Executing /\ ~Executing' /\ InOrder
    BY <2>1, <2>2 DEF Executing, InOrder, NoRequest
  <2> QED BY <2>1, <2>3, HostEarly, Zenon
<1>3. CASE TransferPrepare \/ TransferMove \/ TransferReconcile \/ RelayRefuse
  <2>1. UNCHANGED <<yj, host, stream, relay>>
    BY <1>3, Zenon DEF TransferPrepare, TransferMove, TransferReconcile, RelayRefuse, jvars, hvars
  <2>2. busy.at \in {"transfer", "move", "reconcile", "admit"}
    BY <1>3, Zenon DEF TransferPrepare, TransferMove, TransferReconcile, RelayRefuse
  <2>3. busy'.at \in {"move", "reconcile", "admit", "idle"}
    BY <1>3 DEF TransferPrepare, TransferMove, TransferReconcile, RelayRefuse, NoRequest,
                Inv, Types, Requests
  <2>4. ~Executing /\ ~Executing' /\ InOrder
    BY <2>2, <2>3 DEF Executing, HostKnown
  <2> QED BY <2>1, <2>4, HostEarly, Zenon
<1>4. CASE RelayBegin
  <2>1. /\ busy.at = "admit" /\ busy.h \in Handoffs /\ busy.c \in Commands
        /\ yj' = Begun(yj, busy.h, busy.c) /\ UNCHANGED <<host, stream, relay>>
        /\ busy' = [busy EXCEPT !.at = "begun"]
    BY <1>4, Zenon DEF RelayBegin, Inv, Named, hvars
  <2>2. InOrder /\ ~Executing
    BY <2>1 DEF HostKnown, Executing
  <2>3. host.phase # "gone" => yj.phase = host.phase
    BY <2>2, Zenon DEF HostKnown
  <2>4. busy'.at = "begun" /\ busy'.h = busy.h /\ busy'.c = busy.c
    BY <2>1 DEF Inv, Types, Requests
  <2>5. yj'.phase = yj.phase /\ Pending(yj', busy.h, busy.c)
    BY <2>1, BegunJournal, Zenon DEF Inv, Types
  <2>6. \A g \in Handoffs, d \in Commands :
          <<g, d>> # <<busy.h, busy.c>> => yj'.entry[<<g, d>>] = yj.entry[<<g, d>>]
    BY <2>1, BegunJournal, Zenon DEF Inv, Types
  <2>7. \A g \in Handoffs, d \in Commands : Pending(yj', g, d) => g = busy.h /\ d = busy.c
    BY <2>2, <2>6, Zenon DEF HostKnown, Pending
  <2>8. InOrder' /\ Executing'
    BY <2>1, <2>2, <2>4, Zenon DEF InOrder, Executing
  <2>9. busy'.at # "replied"
    BY <2>4
  <2> QED BY <2>1, <2>3, <2>4, <2>5, <2>7, <2>8, <2>9, Zenon DEF HostKnown
<1>5. CASE HostDo
  <2>1. /\ busy.at = "begun" /\ busy.c \in Commands /\ busy.reply \in Replies
        /\ UNCHANGED <<yj, stream, relay>>
    BY <1>5, Zenon DEF HostDo, Inv, Named, Types, Requests, jvars
  <2>2. PICK reply \in Outcomes :
          /\ busy' = HostReplies(reply)
          /\ \/ reply = "ok" /\ host'.phase = After[busy.c]
             \/ reply # "ok" /\ host' = host
    <3>1. CASE busy' = HostReplies("ok") /\ host'.phase = After[busy.c]
      BY <3>1, Zenon DEF Outcomes
    <3> DEFINE no == IF busy.c = "prepare" /\ work = "busy" THEN "active_work" ELSE "unresolved"
    <3>2. CASE host' = host /\ busy' = HostReplies(no)
      <4>1. no \in Outcomes /\ no # "ok"
        BY Zenon DEF Outcomes
      <4> HIDE DEF no
      <4> QED BY <3>2, <4>1, Zenon
    <3>3. \/ /\ busy' = HostReplies("ok")
             /\ host' = [phase |-> After[busy.c], h |-> busy.h,
                         bound |-> IF busy.c = "commit" THEN "B" ELSE host.bound,
                         last |-> <<busy.h, busy.c>>]
          \/ host' = host /\ busy' = HostReplies(no)
      BY <1>5, Zenon DEF HostDo
    <3> HIDE DEF no
    <3> QED BY <3>1, <3>2, <3>3
  <2>3. /\ busy'.at = "replied" /\ busy'.h = busy.h /\ busy'.c = busy.c /\ busy'.reply = reply
    BY <2>2, Zenon DEF HostReplies
  <2>4. host'.phase # "gone" =>
          host'.phase = IF busy'.reply = "ok" THEN After[busy'.c] ELSE yj'.phase
    BY <2>1, <2>2, <2>3, Zenon DEF HostKnown
  <2>5. InOrder /\ Executing' /\ busy'.at # "begun" /\ InOrder'
    BY <2>1, <2>3 DEF HostKnown, InOrder, Executing
  <2>6. \A g \in Handoffs, d \in Commands : Pending(yj', g, d) => g = busy'.h /\ d = busy'.c
    BY <2>1, <2>3, <2>5 DEF HostKnown, Pending
  <2>7. busy.h \in Handoffs /\ Pending(yj', busy.h, busy.c)
    BY <2>1, Zenon DEF Inv, Serving, Named
  <2> QED BY <2>1, <2>4, <2>5, <2>6, <2>7, Zenon DEF HostKnown
<1>6. CASE HostLost
  <2>1. Executing /\ yj' = yj /\ ~InOrder' /\ busy' = NoRequest
    BY <1>6, Zenon DEF HostLost, Executing, InOrder, jvars
  <2>2. busy'.at = "idle"
    BY <2>1, Zenon DEF NoRequest
  <2> QED BY <2>1, <2>2, HostAbandoned, Zenon
<1>7. CASE RelayFinish
  <2>1. /\ busy.at = "replied" /\ busy.h \in Handoffs /\ busy.c \in Commands
        /\ busy.reply \in Outcomes /\ UNCHANGED <<host, relay>> /\ busy' = NoRequest
        /\ \/ yj' = yj /\ stream' = "failed"
           \/ yj' = Finished(yj, busy.h, busy.c, busy.reply) /\ stream' = stream
    BY <1>7, Zenon DEF RelayFinish, Inv, Named
  <2>2. Executing /\ busy'.at = "idle" /\ InOrder
    BY <2>1 DEF Executing, HostKnown, NoRequest
  <2>5. yj \in Journals
    BY Zenon DEF Inv, Types
  <2>3. CASE yj' = yj /\ stream' = "failed"
    BY <2>2, <2>3, HostAbandoned, Zenon DEF InOrder
  <2>4. CASE yj' = Finished(yj, busy.h, busy.c, busy.reply) /\ stream' = stream
    <3> DEFINE h == busy.h
               c == busy.c
               reply == busy.reply
    <3>0. h \in Handoffs /\ c \in Commands /\ reply \in Outcomes /\ yj' = Finished(yj, h, c, reply)
      BY <2>1, <2>4, Zenon
    <3> HIDE DEF h, c, reply
    <3>1. /\ yj'.phase = IF reply = "ok" THEN After[c] ELSE yj.phase
          /\ yj'.entry[<<h, c>>] = reply
          /\ \A g \in Handoffs, d \in Commands :
               <<g, d>> # <<h, c>> => yj'.entry[<<g, d>>] = yj.entry[<<g, d>>]
      BY <2>5, <3>0, FinishedJournal
    <3>3. reply # "pending"
      BY <3>0, Zenon DEF Outcomes
    <3>4. \A g \in Handoffs, d \in Commands : ~Pending(yj', g, d)
      BY <2>2, <3>1, <3>3, Zenon DEF HostKnown, Pending, h, c
    <3>5. host'.phase # "gone" => yj'.phase = host'.phase
      BY <2>1, <3>1, Zenon DEF HostKnown, c, reply
    <3>6. InOrder' /\ busy'.at \notin {"begun", "replied"}
      BY <2>1, <2>2, <2>4 DEF InOrder
    <3> QED BY <3>4, <3>5, <3>6, Zenon DEF HostKnown
  <2> QED BY <2>1, <2>3, <2>4, Zenon
<1> QED BY <1>1, <1>2, <1>3, <1>4, <1>5, <1>6, <1>7, Zenon DEF RelayServe

(* The other steps change nothing of this, or end the relay's supervision. *)
LEMMA HostKept == Inv /\ HostKnown /\ [Next]_vars => HostKnown'
<1> SUFFICES ASSUME Inv, HostKnown, [Next]_vars PROVE HostKnown'
  OBVIOUS
<1>1. CASE UNCHANGED <<yj, host, busy, stream, relay>>
  BY <1>1, Zenon DEF HostKnown, InOrder, Executing, Pending
<1>2. CASE \/ Claim \/ Settle \/ Yield \/ OpenSuccessor \/ AdoptBegin \/ AdoptFinish
           \/ \E h \in Handoffs : AdoptFresh(h) \/ Expire(h)
           \/ UNCHANGED vars
  BY <1>1, <1>2, Zenon DEF Claim, Settle, Yield, OpenSuccessor, AdoptBegin, AdoptFinish, AdoptFresh,
                    Expire, vars, jvars, hvars
<1>3. CASE \E r \in Runtimes : RuntimeStep(r)
  <2>1. UNCHANGED <<yj, host, busy, stream, relay>>
    BY <1>3, ZenonT(60) DEF RuntimeStep, Send, Conclude, HoldFence, ReleaseFence, Return, Drop, Crash,
                            jvars, hvars
  <2> QED BY <1>1, <2>1, Zenon
<1>4. CASE RelayExpire \/ \E r \in Runtimes : RelayAbort(r) \/ LoseControl(r)
  <2>1. /\ yj' = yj /\ stream' = stream /\ (host' = host \/ host'.phase = "gone")
        /\ \/ busy' = busy /\ relay' = relay
           \/ busy' = NoRequest /\ relay' = "failed"
    <3>1. host' = host \/ host' = [host EXCEPT !.phase = "gone"]
      BY <1>4, Zenon DEF RelayExpire, RelayAbort, LoseControl, FailSupervision
    <3>2. host' = host \/ host'.phase = "gone"
      BY <3>1, Zenon DEF Inv, Types, Hosts
    <3> QED BY <1>4, <3>2, Zenon DEF RelayExpire, RelayAbort, LoseControl, FailSupervision, jvars
  <2>2. CASE busy' = busy /\ relay' = relay
    BY <2>1, <2>2, Zenon DEF HostKnown, InOrder, Executing, Pending
  <2>3. CASE busy' = NoRequest /\ relay' = "failed"
    <3>1. ~InOrder' /\ busy'.at = "idle" /\ busy'.at \notin {"begun", "replied"}
      BY <2>3 DEF InOrder, NoRequest
    <3>2. CASE Executing
      BY <2>1, <3>1, <3>2, HostAbandoned, Zenon
    <3>3. CASE ~Executing
      BY <2>1, <3>1, <3>3, Zenon DEF HostKnown, Executing, Pending
    <3> QED BY <3>2, <3>3, Zenon
  <2> QED BY <2>1, <2>2, <2>3, Zenon
<1> QED BY <1>2, <1>3, <1>4, HostServes, Zenon DEF Next

(* No journal acknowledges what the next one did not, through crashes of   *)
(* either Runtime, lost replies, timeouts and repeated deliveries: what a  *)
(* Runtime journals as done the relay has journalled, and a relay that     *)
(* waits for nothing is in its host's phase (HandoffJournal.finish,        *)
(* RelayHandoffEndpoint._handoff, _host_call).                             *)
THEOREM JournalsInStep == Spec => []JournalsAgree
<1>1. Init => AckKnown /\ HostKnown
  <2> SUFFICES ASSUME Init PROVE AckKnown /\ HostKnown
    OBVIOUS
  <2>1. \A k \in Handoffs \X Commands : rj.entry[k] = "none" /\ yj.entry[k] = "none"
    BY Zenon DEF Init, NoJournal
  <2>2. AckKnown
    BY <2>1, SilentKnown, Zenon DEF Init, AckKnown, Acked
  <2>3. HostKnown
    BY <2>1 DEF Init, HostKnown, InOrder, Executing, Pending, NoJournal, NoRequest
  <2> QED BY <2>2, <2>3, Zenon
<1>2. Inv /\ AckKnown /\ HostKnown => JournalsAgree
  <2> SUFFICES ASSUME Inv, AckKnown, HostKnown PROVE JournalsAgree
    OBVIOUS
  <2>1. DOMAIN yj.entry = Handoffs \X Commands
    BY DEF Inv, Types, Journals
  <2>2. (\A k \in DOMAIN yj.entry : yj.entry[k] # "pending") =>
          \A h \in Handoffs, c \in Commands : ~Pending(yj, h, c)
    BY <2>1, Zenon DEF Pending
  <2> QED BY <2>2, Zenon DEF JournalsAgree, AckKnown, HostKnown
<1> QED BY <1>1, <1>2, AckKept, HostKept, HandoffInvariant, PTL DEF Spec
=============================================================================
