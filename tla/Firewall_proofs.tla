-------------------------- MODULE Firewall_proofs --------------------------
(***************************************************************************)
(* Proofs about Firewall, for every set of nodes, whatever their protocols,  *)
(* and every bound.                                                          *)
(***************************************************************************)
EXTENDS Firewall, SequenceTheorems, TLAPS

----------------------------------------------------------------------------
(* The invariants. *)

(* A call in flight is a call of the verb its thread stands at. *)
Calling == \A t \in Threads : call[t].state # "none" => at[t] \in Verbs

(* A verb in the line that has an owner is the one verb its owner waits for. *)
Owned ==
    \A i \in 1..Len(queue) : queue[i].by \in Threads =>
        /\ call[queue[i].by].state = "queued"
        /\ \A j \in 1..Len(queue) : queue[j].by = queue[i].by => j = i

(* Only a thread with a job is at a step, and only a running application has jobs. *)
Working ==
    \A t \in Threads : (at[t] # "idle" => job[t] # NoJob) /\ (job[t] # NoJob => alive)

Inv == TypeOK /\ Calling /\ Owned /\ Working

(* The backup never holds our own resolver. *)
Recoverable ==
    /\ resolver \in {"user", "vpn"} /\ backup \in {"none", "user"}
    /\ resolver = "vpn" => backup = "user"

(* What MarkersAreHonest leaves out has not happened. *)
Plain == excused \cap {"overlap", "quiet"} = {}

(* One thread works at a time. *)
Alone == job["lock"] = NoJob \/ job["launch"] = NoJob

(* A thread that waits for its verb has the last one in the line. *)
InLine ==
    /\ \A t \in Threads : call[t].state = "queued" =>
           queue # <<>> /\ queue[Len(queue)].by = t /\ queue[Len(queue)].verb = at[t]
    /\ \A i \in 1..Len(queue) : queue[i].by \in Threads =>
           i = Len(queue) /\ call[queue[i].by].state = "queued"

(* What drops traffic or takes over the resolver, or is about to, is marked. *)
Marked ==
    /\ Blocked => ksMarker
    /\ resolver = "vpn" => dnsMarker
    /\ \A i \in 1..Len(queue) :
           (queue[i].verb = "on" => ksMarker) /\ (queue[i].verb = "set" => dnsMarker)
    /\ \A t \in Threads : (at[t] = "on" => ksMarker) /\ (at[t] = "set" => dnsMarker)

(* When a removal is reported, it is done, and nothing in the line undoes it. *)
Removed ==
    \A t \in Threads :
        /\ at[t] = "off" /\ Ok(t) => chain = NoChain /\ queue = <<>>
        /\ at[t] = "restore" /\ Ok(t) => resolver = "user" /\ queue = <<>>

MarkerInv == Plain => Alone /\ InLine /\ Marked /\ Removed

----------------------------------------------------------------------------
(* Types. *)

(* The values the threads start and stop at have their types. *)
LEMMA RestTypes ==
    /\ NoChain \in Chains /\ NoCall \in Calls /\ NoJob \in Jobs /\ NoSettings \in Snaps
    /\ \A op \in Ops \cup {"orphan", "stranded"} : JobOf(op) \in Jobs
BY DEF NoChain, Chains, NoCall, Calls, NoJob, JobOf, Jobs, NoSettings, Snaps

(* The threads are where they may be, and t alone has moved. *)
Moved(t) ==
    /\ at' \in [Threads -> Steps] /\ call' \in [Threads -> Calls] /\ Calling'
    /\ \A u \in Threads \ {t} : at'[u] = at[u] /\ call'[u] = call[u]
    /\ call'[t].state \in {"asked", "none"}

(* What a thread that asks, goes on or ends its job leaves. *)
LEMMA MoveTypes ==
    ASSUME ThreadsOK, Calling, NEW t \in Threads
    PROVE  /\ \A verb \in Verbs, with \in Chains : Ask(t, verb, with) => Moved(t)
           /\ \A step \in Steps : GoTo(t, step) => Moved(t)
           /\ Finish(t) => Moved(t) /\ job' \in [Threads -> Jobs]
           /\ RestoreDns(t) => Moved(t)
           /\ GoOn(t) => Moved(t) /\ job' \in [Threads -> Jobs]
           /\ \A wanted \in BOOLEAN : OverrideDns(t, wanted) => Moved(t)
<1>1. \A verb \in Verbs, with \in Chains : Ask(t, verb, with) => Moved(t)
    BY DEF Moved, ThreadsOK, Calling, Ask, Verbs, Steps, Calls
<1>2. \A step \in Steps : GoTo(t, step) => Moved(t)
    BY RestTypes DEF Moved, ThreadsOK, Calling, GoTo, NoCall
<1>3. Finish(t) => Moved(t) /\ job' \in [Threads -> Jobs]
    BY <1>2, RestTypes DEF ThreadsOK, Finish, Steps, Ops
<1>4. RestoreDns(t) => Moved(t)
    BY <1>1, <1>2, RestTypes DEF RestoreDns, Verbs, Steps
<1>5. GoOn(t) => Moved(t) /\ job' \in [Threads -> Jobs]
    BY <1>2, <1>3 DEF GoOn, Steps, ThreadsOK
<1>6. \A wanted \in BOOLEAN : OverrideDns(t, wanted) => Moved(t)
    BY <1>1, <1>2, RestTypes DEF OverrideDns, Verbs, Steps
<1>7. QED BY <1>1, <1>2, <1>3, <1>4, <1>5, <1>6

(* A verb's answer is a call's state. *)
LEMMA AnswerType ==
    ASSUME ThreadsOK, NEW by, NEW state \in {"ok", "failed"}, Answer(by, state)
    PROVE  call' \in [Threads -> Calls]
BY DEF ThreadsOK, Answer, Calls

(* A thread's own step: it was at work and awaited no verb, and keeps its job or ends it. *)
Stepped(t) ==
    /\ at[t] # "idle" /\ call[t].state # "queued" /\ queue' = queue /\ alive' = alive
    /\ job' = job \/ Finish(t)

(* Such a step keeps the line's owners and the threads' jobs in order. *)
LEMMA StepKept ==
    ASSUME Inv, NEW t \in Threads, Stepped(t), Moved(t)
    PROVE  Owned' /\ Working'
<1>1. Owned' BY DEF Inv, Owned, Stepped, Moved
<1>2. Working'
    <2>1. job[t] # NoJob /\ alive BY DEF Inv, Working, Stepped
    <2>2. CASE job' = job BY <2>1, <2>2 DEF Inv, Working, Stepped, Moved
    <2>3. CASE Finish(t)
        BY <2>1, <2>3 DEF Inv, TypeOK, ThreadsOK, Working, Stepped, Moved, Finish, GoTo,
           JobOf, NoJob
    <2>4. QED BY <2>2, <2>3 DEF Stepped
<1>3. QED BY <1>1, <1>2

(* Disowning a verb leaves it in its place. *)
LEMMA DisownType ==
    ASSUME NEW q \in Seq(Requested), NEW ts \in SUBSET Threads
    PROVE  /\ Disown(q, ts) \in Seq(Requested) /\ Len(Disown(q, ts)) = Len(q)
           /\ \A i \in 1..Len(q) : /\ Disown(q, ts)[i].verb = q[i].verb
                                   /\ Disown(q, ts)[i].by =
                                          IF q[i].by \in ts THEN "nobody" ELSE q[i].by
<1>1. /\ Len(q) \in Nat /\ DOMAIN q = 1..Len(q)
      /\ \A i \in 1..Len(q) : q[i] \in Requested
    BY LenProperties
<1>2. \A i \in 1..Len(q) :
          (IF q[i].by \in ts THEN [q[i] EXCEPT !.by = "nobody"] ELSE q[i]) \in Requested
    BY <1>1 DEF Requested
<1>3. Disown(q, ts) \in [1..Len(q) -> Requested]
    BY <1>1, <1>2 DEF Disown
<1>4. Disown(q, ts) \in Seq(Requested) /\ Len(Disown(q, ts)) = Len(q)
    BY <1>1, <1>3
<1>5. \A i \in 1..Len(q) : /\ Disown(q, ts)[i].verb = q[i].verb
                           /\ Disown(q, ts)[i].by = IF q[i].by \in ts THEN "nobody" ELSE q[i].by
    BY <1>1 DEF Disown, Requested
<1>6. QED BY <1>4, <1>5

(* What each step of a thread leaves. *)
LEMMA ThreadType ==
    ASSUME Inv, NEW t \in Threads, ThreadStep(t)
    PROVE  Inv' /\ Stepped(t) /\ Moved(t)
<1> USE DEF Inv, TypeOK
<1>1. CASE Revert(t)
    <2>1. (DiskOK /\ AppOK /\ HistoryOK)'
        BY <1>1, RestTypes DEF DiskOK, AppOK, HistoryOK, markers, settings, session,
           notices, history, Revert, MustDisarm
    <2>2. MachineOK'
        BY <1>1 DEF MachineOK, machine, Revert, MustDisarm
    <2>3. ThreadsOK' /\ Moved(t)
        BY <1>1, MoveTypes, RestTypes DEF ThreadsOK, Calls, Chains, Moved, Snaps, Verbs,
           Steps, threads, Revert, MustDisarm
    <2>4. Stepped(t)
        BY <1>1 DEF Calling, Verbs, Answered, Stepped, Revert, Reverts
    <2>5. QED BY <2>1, <2>2, <2>3, <2>4, StepKept DEF Moved
<1>2. CASE StandDownBlocked(t)
    <2>1. (DiskOK /\ AppOK /\ HistoryOK)'
        BY <1>2 DEF DiskOK, AppOK, HistoryOK, markers, settings, session, notices,
           history, StandDownBlocked
    <2>2. MachineOK'
        BY <1>2 DEF MachineOK, machine, StandDownBlocked
    <2>3. ThreadsOK' /\ Moved(t)
        BY <1>2, MoveTypes, RestTypes DEF ThreadsOK, Calls, Chains, Moved, Snaps, Verbs,
           Steps, threads, StandDownBlocked
    <2>4. Stepped(t)
        BY <1>2 DEF Calling, Verbs, Answered, Stepped, StandDownBlocked
    <2>5. QED BY <2>1, <2>2, <2>3, <2>4, StepKept DEF Moved
<1>3. CASE NothingToHeal(t)
    <2>1. (DiskOK /\ AppOK /\ HistoryOK)'
        BY <1>3 DEF DiskOK, AppOK, HistoryOK, markers, settings, session, notices,
           history, NothingToHeal
    <2>2. MachineOK'
        BY <1>3 DEF MachineOK, machine, NothingToHeal
    <2>3. ThreadsOK' /\ Moved(t)
        BY <1>3, MoveTypes, RestTypes DEF ThreadsOK, Calls, Chains, Moved, Snaps, Verbs,
           Steps, threads, NothingToHeal
    <2>4. Stepped(t)
        BY <1>3 DEF Calling, Verbs, Answered, Stepped, NothingToHeal
    <2>5. QED BY <2>1, <2>2, <2>3, <2>4, StepKept DEF Moved
<1>4. CASE OffAnswered(t)
    <2>1. (DiskOK /\ AppOK /\ HistoryOK)'
        BY <1>4, RestTypes DEF DiskOK, AppOK, HistoryOK, markers, settings, session,
           notices, history, OffAnswered, Answered, MarkerAfterOff, Ok
    <2>2. MachineOK'
        BY <1>4 DEF MachineOK, machine, OffAnswered, Answered, MarkerAfterOff, Ok
    <2>3. ThreadsOK' /\ Moved(t)
        BY <1>4, MoveTypes, RestTypes DEF ThreadsOK, Calls, Chains, Moved, Snaps, Verbs,
           Steps, threads, OffAnswered, Answered, MarkerAfterOff, Ok
    <2>4. Stepped(t)
        BY <1>4 DEF Calling, Verbs, Answered, Stepped, OffAnswered
    <2>5. QED BY <2>1, <2>2, <2>3, <2>4, StepKept DEF Moved
<1>5. CASE RestoreAnswered(t)
    <2>1. (DiskOK /\ AppOK /\ HistoryOK)'
        BY <1>5 DEF DiskOK, AppOK, HistoryOK, markers, settings, session, notices,
           history, RestoreAnswered, Answered, Ok
    <2>2. MachineOK'
        BY <1>5 DEF MachineOK, machine, RestoreAnswered, Answered, Ok
    <2>3. ThreadsOK' /\ Moved(t)
        BY <1>5, MoveTypes, RestTypes DEF ThreadsOK, Calls, Chains, Moved, Snaps, Verbs,
           Steps, threads, RestoreAnswered, Answered, Ok
    <2>4. Stepped(t)
        BY <1>5 DEF Calling, Verbs, Answered, Stepped, RestoreAnswered
    <2>5. QED BY <2>1, <2>2, <2>3, <2>4, StepKept DEF Moved
<1>6. CASE TakeDown(t)
    <2>1. (DiskOK /\ AppOK /\ HistoryOK)'
        BY <1>6 DEF DiskOK, AppOK, HistoryOK, markers, settings, session, notices,
           history, TakeDown
    <2>2. MachineOK'
        BY <1>6 DEF MachineOK, machine, TakeDown
    <2>3. ThreadsOK' /\ Moved(t)
        BY <1>6, MoveTypes, RestTypes DEF ThreadsOK, Calls, Chains, Moved, Snaps, Verbs,
           Steps, threads, TakeDown
    <2>4. Stepped(t)
        BY <1>6 DEF Calling, Verbs, Answered, Stepped, TakeDown
    <2>5. QED BY <2>1, <2>2, <2>3, <2>4, StepKept DEF Moved
<1>7. CASE RefuseConnect(t)
    <2>1. (DiskOK /\ AppOK /\ HistoryOK)'
        BY <1>7 DEF DiskOK, AppOK, HistoryOK, markers, settings, session, notices,
           history, RefuseConnect
    <2>2. MachineOK'
        BY <1>7 DEF MachineOK, machine, RefuseConnect
    <2>3. ThreadsOK' /\ Moved(t)
        BY <1>7, MoveTypes, RestTypes DEF ThreadsOK, Calls, Chains, Moved, Snaps, Verbs,
           Steps, threads, RefuseConnect
    <2>4. Stepped(t)
        BY <1>7 DEF Calling, Verbs, Answered, Stepped, RefuseConnect
    <2>5. QED BY <2>1, <2>2, <2>3, <2>4, StepKept DEF Moved
<1>8. CASE StartConnect(t)
    <2>1. (DiskOK /\ AppOK /\ HistoryOK)'
        BY <1>8 DEF DiskOK, AppOK, HistoryOK, markers, settings, session, notices,
           history, StartConnect
    <2>2. MachineOK'
        BY <1>8 DEF MachineOK, machine, StartConnect
    <2>3. ThreadsOK' /\ Moved(t)
        BY <1>8, MoveTypes, RestTypes DEF ThreadsOK, Calls, Chains, Moved, Snaps, Verbs,
           Steps, threads, StartConnect
    <2>4. Stepped(t)
        BY <1>8 DEF Calling, Verbs, Answered, Stepped, StartConnect
    <2>5. QED BY <2>1, <2>2, <2>3, <2>4, StepKept DEF Moved
<1>9. CASE BringUp(t)
    <2>1. (DiskOK /\ AppOK /\ HistoryOK)'
        BY <1>9 DEF DiskOK, AppOK, HistoryOK, markers, settings, session, notices,
           history, BringUp
    <2>2. MachineOK'
        BY <1>9 DEF MachineOK, ThreadsOK, Jobs, machine, BringUp
    <2>3. ThreadsOK' /\ Moved(t)
        BY <1>9, MoveTypes, RestTypes DEF ThreadsOK, Calls, Chains, Moved, Snaps, Verbs,
           Steps, threads, BringUp
    <2>4. Stepped(t)
        BY <1>9 DEF Calling, Verbs, Answered, Stepped, BringUp
    <2>5. QED BY <2>1, <2>2, <2>3, <2>4, StepKept DEF Moved
<1>10. CASE PostConnect(t)
    <2>1. (DiskOK /\ AppOK /\ HistoryOK)'
        BY <1>10 DEF DiskOK, AppOK, HistoryOK, markers, settings, session, notices,
           history, PostConnect, ReadSettings, OverrideDns
    <2>2. MachineOK'
        BY <1>10 DEF MachineOK, machine, PostConnect, ReadSettings
    <2>3. ThreadsOK' /\ Moved(t)
        <3>1. OverridesDns(job[t].host) \in BOOLEAN BY DEF OverridesDns
        <3>2. Moved(t) BY <1>10, <3>1, MoveTypes DEF PostConnect
        <3>3. QED
            BY <1>10, <3>2 DEF ThreadsOK, DiskOK, Moved, Jobs, Snaps, PostConnect,
               ReadSettings
    <2>4. Stepped(t)
        BY <1>10 DEF Calling, Verbs, Answered, Stepped, PostConnect, OverrideDns, GoTo, Ask
    <2>5. QED BY <2>1, <2>2, <2>3, <2>4, StepKept DEF Moved
<1>11. CASE Arm(t)
    <2>1. (DiskOK /\ AppOK /\ HistoryOK)'
        BY <1>11 DEF DiskOK, AppOK, HistoryOK, markers, settings, session, notices,
           history, Arm, Answered
    <2>2. MachineOK'
        BY <1>11 DEF MachineOK, machine, Arm, Answered
    <2>3. ThreadsOK' /\ Moved(t)
        BY <1>11, MoveTypes, RestTypes DEF ThreadsOK, Calls, Chains, Moved, Snaps,
           Verbs, Steps, threads, Arm, Answered
    <2>4. Stepped(t)
        BY <1>11 DEF Calling, Verbs, Answered, Stepped, Arm, GoOn, Ask
    <2>5. QED BY <2>1, <2>2, <2>3, <2>4, StepKept DEF Moved
<1>12. CASE OnAnswered(t)
    <2>1. (DiskOK /\ AppOK /\ HistoryOK)'
        BY <1>12, RestTypes DEF DiskOK, AppOK, HistoryOK, ThreadsOK, Calls, markers,
           settings, session, notices, history, OnAnswered, Answered, Ok
    <2>2. MachineOK'
        BY <1>12 DEF MachineOK, machine, OnAnswered, Answered, Ok
    <2>3. ThreadsOK' /\ Moved(t)
        BY <1>12, MoveTypes, RestTypes DEF ThreadsOK, Calls, Chains, Moved, Snaps,
           Verbs, Steps, threads, OnAnswered, Answered, Ok
    <2>4. Stepped(t)
        BY <1>12 DEF Calling, Verbs, Answered, Stepped, OnAnswered, GoOn
    <2>5. QED BY <2>1, <2>2, <2>3, <2>4, StepKept DEF Moved
<1>13. CASE Probe(t)
    <2>1. (DiskOK /\ AppOK /\ HistoryOK)'
        BY <1>13 DEF DiskOK, AppOK, HistoryOK, markers, settings, session, notices,
           history, Probe
    <2>2. MachineOK'
        BY <1>13 DEF MachineOK, machine, Probe
    <2>3. ThreadsOK' /\ Moved(t)
        BY <1>13, MoveTypes, RestTypes DEF ThreadsOK, Calls, Chains, Moved, Snaps,
           Verbs, Steps, threads, Probe
    <2>4. Stepped(t)
        BY <1>13 DEF Calling, Verbs, Answered, Stepped, Probe
    <2>5. QED BY <2>1, <2>2, <2>3, <2>4, StepKept DEF Moved
<1>14. CASE reapplyFirewall(t)
    <2>1. (DiskOK /\ AppOK /\ HistoryOK)'
        <3>1. DiskOK'
            BY <1>14 DEF DiskOK, markers, settings, reapplyFirewall, Disarm, Rearm,
               ArmLive, LeaveFirewall, OverrideDns
        <3>2. AppOK'
            BY <1>14 DEF AppOK, session, reapplyFirewall, Disarm, Rearm, ArmLive,
               LeaveFirewall
        <3>3. HistoryOK' BY <1>14 DEF HistoryOK, history, reapplyFirewall
        <3>4. QED BY <3>1, <3>2, <3>3
    <2>2. MachineOK'
        BY <1>14 DEF MachineOK, machine, reapplyFirewall, Disarm, Rearm, ArmLive,
           LeaveFirewall, ReadSettings, OverrideDns
    <2>3. ThreadsOK' /\ Moved(t)
        <3>1. CASE Disarm(t)
            BY <1>14, <3>1, MoveTypes, RestTypes DEF ThreadsOK, Moved, Verbs,
               reapplyFirewall, Disarm
        <3>2. CASE Rearm(t)
            <4>1. [host |-> armedWith.host, lan |-> lanSharing] \in Chains
                BY DEF AppOK, DiskOK, Chains
            <4>2. Moved(t) BY <3>2, <4>1, MoveTypes DEF Rearm, Verbs
            <4>3. QED BY <1>14, <3>2, <4>2 DEF ThreadsOK, Moved, reapplyFirewall, Rearm
        <3>3. CASE ArmLive(t)
            <4>1. (OverridesDns(tunnel) /\ ~dnsMarker) \in BOOLEAN BY DEF OverridesDns
            <4>2. Moved(t) BY <3>3, <4>1, MoveTypes DEF ArmLive
            <4>3. QED
                BY <1>14, <3>3, <4>2 DEF ThreadsOK, Moved, DiskOK, MachineOK,
                   Snaps, reapplyFirewall, ArmLive, ReadSettings
        <3>4. CASE LeaveFirewall(t)
            BY <1>14, <3>4, MoveTypes DEF ThreadsOK, Moved, reapplyFirewall, LeaveFirewall
        <3>5. QED BY <1>14, <3>1, <3>2, <3>3, <3>4 DEF reapplyFirewall
    <2>4. Stepped(t)
        BY <1>14 DEF Calling, Verbs, Answered, Stepped, reapplyFirewall, Disarm, Rearm,
           ArmLive, LeaveFirewall
    <2>5. QED BY <2>1, <2>2, <2>3, <2>4, StepKept DEF Moved
<1>15. QED
    BY <1>1, <1>2, <1>3, <1>4, <1>5, <1>6, <1>7, <1>8, <1>9, <1>10, <1>11, <1>12, <1>13,
       <1>14 DEF ThreadStep

(* What becomes of a call leaves. *)
LEMMA CallType ==
    ASSUME Inv, NEW t \in Threads, CallStep(t)
    PROVE  Inv'
<1> USE DEF Inv, TypeOK
<1>1. CASE Arrives(t)
    <2>1. (DiskOK /\ AppOK /\ HistoryOK)'
        BY <1>1 DEF DiskOK, AppOK, HistoryOK, markers, settings, session, notices,
           history, Arrives
    <2>2. MachineOK'
        BY <1>1 DEF MachineOK, ThreadsOK, Calls, Calling, Requested, machine, Arrives
    <2>3. (ThreadsOK /\ Calling)'
        BY <1>1 DEF ThreadsOK, Calling, Calls, threads, Arrives
    <2>4. Owned'
        <3>1. \A i \in 1..Len(queue) : queue[i].by # t BY <1>1 DEF Owned, Arrives
        <3>2. /\ Len(queue) \in Nat /\ Len(queue') = Len(queue) + 1 /\ queue'[Len(queue) + 1].by = t
              /\ \A i \in 1..Len(queue) : queue'[i] = queue[i]
            BY <1>1 DEF MachineOK, Arrives
        <3>3. call'[t].state = "queued" /\ \A u \in Threads \ {t} : call'[u] = call[u]
            BY <1>1 DEF ThreadsOK, Calls, Arrives
        <3>4. QED BY <3>1, <3>2, <3>3 DEF Owned
    <2>5. Working' BY <1>1 DEF Working, Arrives
    <2>6. QED BY <2>1, <2>2, <2>3, <2>4, <2>5
<1>2. CASE IsRefused(t)
    <2>1. (DiskOK /\ AppOK /\ HistoryOK)'
        BY <1>2 DEF DiskOK, AppOK, HistoryOK, markers, settings, session, notices,
           history, IsRefused
    <2>2. MachineOK'
        BY <1>2 DEF MachineOK, machine, IsRefused
    <2>3. (ThreadsOK /\ Calling)'
        BY <1>2 DEF ThreadsOK, Calling, Calls, threads, IsRefused
    <2>4. Owned' BY <1>2 DEF Owned, MachineOK, ThreadsOK, Calls, IsRefused
    <2>5. Working' BY <1>2 DEF Working, IsRefused
    <2>6. QED BY <2>1, <2>2, <2>3, <2>4, <2>5
<1>3. CASE TimesOut(t)
    <2>1. (DiskOK /\ AppOK /\ HistoryOK)'
        BY <1>3 DEF DiskOK, AppOK, HistoryOK, markers, settings, session, notices,
           history, TimesOut
    <2>2. MachineOK'
        <3>1. Disown(queue, {t}) \in Seq(Requested) BY DisownType DEF MachineOK
        <3>2. QED BY <1>3, <3>1 DEF MachineOK, machine, TimesOut
    <2>3. (ThreadsOK /\ Calling)'
        BY <1>3 DEF ThreadsOK, Calling, Calls, threads, TimesOut
    <2>4. Owned'
        <3>1. Len(queue') = Len(queue) /\ Len(queue) \in Nat /\ \A i \in 1..Len(queue) :
                  queue'[i].by = IF queue[i].by = t THEN "nobody" ELSE queue[i].by
            BY <1>3, DisownType DEF MachineOK, TimesOut
        <3>2. \A u \in Threads \ {t} : call'[u] = call[u] BY <1>3 DEF ThreadsOK, TimesOut
        <3>3. QED BY <3>1, <3>2 DEF Owned, Threads
    <2>5. Working' BY <1>3 DEF Working, TimesOut
    <2>6. QED BY <2>1, <2>2, <2>3, <2>4, <2>5
<1>4. QED BY <1>1, <1>2, <1>3 DEF CallStep

(* What the user, the lock, the helper, and the application's end and start leave. *)
LEMMA RestType ==
    ASSUME Inv,
           \/ Request \/ StartJob \/ VerbRuns \/ DaemonDies
           \/ Exit \/ Reboot \/ Launch
    PROVE  Inv'
<1> USE DEF Inv, TypeOK
<1>1. CASE Request
    <2>1. PICK j \in Wanted : Enqueue(j)
        BY <1>1 DEF Request, RequestConnect, RequestDisconnect, StandDown, ToggleKillSwitch,
                    ToggleLanSharing, Wanted, JobOf, Ops
    <2>2. waiting' \in Seq(Wanted) BY <2>1 DEF Enqueue, ThreadsOK
    <2>3. (killSwitch \in BOOLEAN /\ lanSharing \in BOOLEAN /\ customDns \in BOOLEAN)'
          /\ tunnel' \in Hosts \cup {NoHost}
        BY <1>1 DEF Request, RequestConnect, RequestDisconnect, StandDown, ToggleKillSwitch,
                    ToggleLanSharing, settings, DiskOK, MachineOK
    <2>4. (ThreadsOK /\ Calling /\ Owned /\ Working)'
        BY <2>1, <2>2 DEF Enqueue, ThreadsOK, Calling, Owned, Working, threads
    <2>5. (DiskOK /\ MachineOK)' BY <2>1, <2>3 DEF Enqueue, DiskOK, MachineOK, markers, machine
    <2>6. (AppOK /\ HistoryOK)' BY <2>1 DEF Enqueue, AppOK, HistoryOK, session, notices
    <2>7. QED BY <2>4, <2>5, <2>6
<1>2. CASE StartJob
    <2>1. Head(waiting) \in Wanted /\ Tail(waiting) \in Seq(Wanted)
        BY <1>2 DEF StartJob, ThreadsOK
    <2>2. Head(waiting) \in Jobs /\ Head(waiting) # NoJob
        BY <2>1 DEF Wanted, Jobs, NoJob, JobOf, Ops
    <2>3. ThreadsOK' BY <1>2, <2>1, <2>2 DEF StartJob, ThreadsOK, Steps
    <2>4. (Calling /\ Owned /\ Working)'
        BY <1>2, <2>2 DEF StartJob, ThreadsOK, Calling, Owned, Working, Verbs, Threads
    <2>5. (DiskOK /\ MachineOK /\ AppOK)'
        BY <1>2 DEF StartJob, DiskOK, MachineOK, AppOK, markers, settings, machine,
           session, notices
    <2>6. HistoryOK' BY <1>2 DEF StartJob, HistoryOK
    <2>7. QED BY <2>3, <2>5, <2>6, <2>4
<1>3. CASE VerbRuns
    <2> DEFINE c == Head(queue)
    <2>1. c \in Requested /\ Tail(queue) \in Seq(Requested) BY <1>3 DEF VerbRuns, MachineOK
    <2>2. \/ ArmVerb(c) /\ UNCHANGED <<resolver, backup, excused>>
          \/ DisarmVerb(c) /\ UNCHANGED <<resolver, backup>>
          \/ SetDnsVerb(c) /\ UNCHANGED <<chain, excused>>
          \/ RestoreVerb(c) /\ UNCHANGED chain
        BY <1>3 DEF VerbRuns
    <2>3. \E state \in {"ok", "failed"} : Answer(c.by, state)
        BY <2>2 DEF ArmVerb, DisarmVerb, SetDnsVerb, RestoreVerb
    <2>4. chain' \in Chains
        BY <2>1, <2>2, RestTypes DEF ArmVerb, DisarmVerb, Requested, MachineOK
    <2>5. resolver' \in {"user", "vpn"} /\ backup' \in {"none", "user", "vpn"}
        BY <2>2 DEF SetDnsVerb, RestoreVerb, Snapshot, Restored, MachineOK
    <2>6. excused' \subseteq {"overlap", "quiet", "unconfirmed", "forgotten"}
        BY <2>2 DEF DisarmVerb, RestoreVerb, HistoryOK
    <2>7. call' \in [Threads -> Calls] BY <2>3, AnswerType
    <2>8. \A i \in 1..Len(Tail(queue)) : Tail(queue)[i] = queue[i + 1] /\ i + 1 \in 1..Len(queue)
        BY <1>3 DEF VerbRuns, MachineOK
    <2>9. c.by \in Threads => call[c.by].state = "queued" /\ 1 \in 1..Len(queue) /\ c = queue[1]
        BY <1>3 DEF VerbRuns, MachineOK, Owned
    <2>10. Calling'
        BY <1>3, <2>3, <2>9 DEF VerbRuns, Answer, Calling, ThreadsOK, Calls
    <2>11. Owned'
        <3>1. \A u \in Threads : u = c.by \/ call'[u] = call[u]
            BY <2>3 DEF Answer, ThreadsOK, Calls
        <3>2. \A i \in 1..Len(Tail(queue)) :
                  Tail(queue)[i].by \in Threads => Tail(queue)[i].by # c.by
            BY <1>3, <2>8, <2>9 DEF VerbRuns, MachineOK, Owned
        <3>3. QED BY <1>3, <2>8, <3>1, <3>2 DEF VerbRuns, MachineOK, Owned
    <2>12. ThreadsOK' BY <1>3, <2>7 DEF VerbRuns, ThreadsOK
    <2>13. Working' BY <1>3 DEF VerbRuns, Working
    <2>14. (DiskOK /\ AppOK)'
        BY <1>3 DEF VerbRuns, DiskOK, AppOK, markers, settings, session, notices
    <2>15. (MachineOK /\ HistoryOK)'
        BY <1>3, <2>1, <2>4, <2>5, <2>6 DEF VerbRuns, MachineOK, HistoryOK
    <2>16. QED BY <2>10, <2>11, <2>12, <2>14, <2>15, <2>13
<1>4. CASE DaemonDies
    <2>1. (ThreadsOK /\ Calling)' BY <1>4 DEF DaemonDies, ThreadsOK, Calling, Calls
    <2>2. (Owned /\ Working)' BY <1>4 DEF DaemonDies, Owned, Working
    <2>3. (DiskOK /\ AppOK /\ HistoryOK)'
        BY <1>4 DEF DaemonDies, DiskOK, AppOK, HistoryOK, markers, settings, session,
           notices, history
    <2>4. MachineOK' BY <1>4 DEF DaemonDies, MachineOK, machine
    <2>5. QED BY <2>1, <2>3, <2>4, <2>2
<1>5. CASE AppEnds /\ UNCHANGED <<chain, tunnel>> /\ queue' = Disown(queue, Threads)
    <2>1. (ThreadsOK /\ Calling /\ Working)'
        BY <1>5, RestTypes DEF AppEnds, ThreadsOK, Calling, Working, AtRest, NoJobs,
           NoCalls, NoCall, Steps
    <2>2. AppOK' BY <1>5, RestTypes DEF AppEnds, AppOK
    <2>3. HistoryOK' BY <1>5 DEF AppEnds, HistoryOK
    <2>4. (DiskOK /\ AppOK /\ HistoryOK)'
        BY <1>5, <2>2, <2>3 DEF AppEnds, DiskOK, markers, settings
    <2>5. /\ Disown(queue, Threads) \in Seq(Requested)
          /\ \A i \in 1..Len(Disown(queue, Threads)) : Disown(queue, Threads)[i].by \notin Threads
        BY DisownType DEF MachineOK, Threads
    <2>6. MachineOK' BY <1>5, <2>5 DEF AppEnds, MachineOK
    <2>7. Owned' BY <1>5, <2>5 DEF Owned
    <2>8. QED BY <2>1, <2>4, <2>6, <2>7
<1>6. CASE Reboot
    <2>1. (ThreadsOK /\ Calling /\ Working)'
        BY <1>6, RestTypes DEF Reboot, AppEnds, ThreadsOK, Calling, Working, AtRest,
           NoJobs, NoCalls, NoCall, Steps
    <2>2. AppOK' BY <1>6, RestTypes DEF Reboot, AppEnds, AppOK
    <2>3. HistoryOK' BY <1>6 DEF Reboot, AppEnds, HistoryOK
    <2>4. (DiskOK /\ AppOK /\ HistoryOK)'
        BY <1>6, <2>2, <2>3 DEF Reboot, AppEnds, DiskOK, markers, settings
    <2>5. (MachineOK /\ Owned)' BY <1>6, RestTypes DEF Reboot, AppEnds, MachineOK, Owned
    <2>6. QED BY <2>1, <2>4, <2>5
<1>7. CASE Launch
    <2>1. (ThreadsOK /\ Calling /\ Owned /\ Working)'
        BY <1>7, RestTypes DEF Launch, ThreadsOK, Calling, Owned, Working, JobOf, NoJob,
           Steps, Verbs, Threads
    <2>2. (DiskOK /\ MachineOK /\ AppOK /\ HistoryOK)'
        BY <1>7 DEF Launch, DiskOK, MachineOK, AppOK, HistoryOK, markers, settings,
           machine, session, notices, history
    <2>3. QED BY <2>1, <2>2
<1>8. QED BY <1>1, <1>2, <1>3, <1>4, <1>5, <1>6, <1>7 DEF Exit

(* The invariant of the types is kept, and holds at first. *)
LEMMA InvInductive ==
    (Init => Inv) /\ (Inv /\ [Next]_vars => Inv')
<1>1. ASSUME Init PROVE Inv
    <2>1. AppOK BY <1>1, RestTypes DEF Init, AppOK
    <2>2. HistoryOK BY <1>1 DEF Init, HistoryOK
    <2>3. DiskOK BY <1>1 DEF Init, DiskOK
    <2>4. tunnel = NoHost /\ chain = NoChain /\ resolver = "user" /\ backup = "none" /\ queue = <<>>
        BY <1>1 DEF Init
    <2>5. queue \in Seq(Requested) BY <2>4
    <2>6. MachineOK BY <2>4, <2>5, RestTypes DEF MachineOK
    <2>7. ThreadsOK /\ Calling /\ Owned /\ Working
        BY <1>1, RestTypes DEF Init, ThreadsOK, Calling, Owned, Working, AtRest, NoJobs,
           NoCalls, NoCall, Steps
    <2>8. QED BY <2>6, <2>7, <2>1, <2>2, <2>3 DEF Inv, TypeOK
<1>2. ASSUME Inv, UNCHANGED vars PROVE Inv'
    BY <1>2 DEF Inv, TypeOK, Calling, Owned, Working, DiskOK, MachineOK, AppOK, ThreadsOK,
       HistoryOK, vars, markers, settings, machine, session, notices, threads, history
<1>3. QED BY <1>1, <1>2, ThreadType, CallType, RestType DEF Next

(* Every variable keeps its type: in particular a thread waits for a helper's answer at a *)
(* verb, and the lines of jobs and verbs hold nothing else. *)
THEOREM TypeCorrect == Spec => []TypeOK
<1>1. Spec => []Inv BY InvInductive, PTL DEF Spec
<1>2. Inv => TypeOK BY DEF Inv
<1>3. QED BY <1>1, <1>2, PTL

----------------------------------------------------------------------------
(* The resolver. *)

(* Only a verb touches the resolver or its backup. *)
LEMMA RecoverableInductive ==
    (Init => Recoverable) /\ (Recoverable /\ [Next]_vars => Recoverable')
<1> USE DEF Recoverable
<1>1. Init => Recoverable BY DEF Init
<1>2. ASSUME Recoverable, VerbRuns PROVE Recoverable'
    <2>1. CASE UNCHANGED <<resolver, backup>> BY <1>2, <2>1
    <2>2. CASE SetDnsVerb(Head(queue)) BY <1>2, <2>2 DEF SetDnsVerb, Snapshot
    <2>3. CASE RestoreVerb(Head(queue)) BY <1>2, <2>3 DEF RestoreVerb, Restored
    <2>4. QED BY <1>2, <2>1, <2>2, <2>3 DEF VerbRuns
<1>3. ASSUME Next, ~VerbRuns PROVE UNCHANGED <<resolver, backup>>
    <2>1. CASE Request
        BY <2>1 DEF Request, RequestConnect, RequestDisconnect, StandDown, ToggleKillSwitch,
                    ToggleLanSharing, Enqueue, machine
    <2>2. ASSUME NEW t \in Threads, ThreadStep(t) PROVE UNCHANGED <<resolver, backup>>
        BY <2>2 DEF ThreadStep, Revert, StandDownBlocked, NothingToHeal, OffAnswered,
                    RestoreAnswered, TakeDown, RefuseConnect, StartConnect, BringUp, PostConnect,
                    Arm, OnAnswered, Probe, reapplyFirewall, machine
    <2>3. ASSUME NEW t \in Threads, CallStep(t) PROVE UNCHANGED <<resolver, backup>>
        BY <2>3 DEF CallStep, Arrives, IsRefused, TimesOut, machine
    <2>4. CASE StartJob \/ DaemonDies \/ Exit \/ Reboot \/ Launch
        BY <2>4 DEF StartJob, DaemonDies, Exit, Reboot, AppEnds, Launch, machine
    <2>5. QED BY <1>3, <2>1, <2>2, <2>3, <2>4 DEF Next
<1>4. UNCHANGED vars => UNCHANGED <<resolver, backup>> BY DEF vars, machine
<1>5. QED BY <1>1, <1>2, <1>3, <1>4

(* However often dns-set runs, whatever times out, and across crashes, the backup that a *)
(* restore will use is the user's while the resolver is ours. *)
THEOREM ResolverStaysRecoverable == Spec => []ResolverIsRecoverable
<1>1. Spec => []Recoverable BY RecoverableInductive, PTL DEF Spec
<1>2. Recoverable => ResolverIsRecoverable BY DEF Recoverable, ResolverIsRecoverable
<1>3. QED BY <1>1, <1>2, PTL

----------------------------------------------------------------------------
(* The markers. *)

(* What a thread's own step does to the markers: set before the verb is asked for, cleared *)
(* only by the removal that was confirmed. *)
Marks(t) ==
    /\ UNCHANGED machine
    /\ ksMarker => ksMarker' \/ (at[t] = "off" /\ Ok(t))
    /\ dnsMarker => dnsMarker' \/ (at[t] = "restore" /\ Ok(t))
    /\ at'[t] = "on" => ksMarker'
    /\ at'[t] = "set" => dnsMarker'
    /\ excused \subseteq excused'

(* Every step of a thread's own marks so. *)
LEMMA ThreadMarks ==
    ASSUME Inv, NEW t \in Threads, ThreadStep(t)
    PROVE  Marks(t)
<1> USE DEF Inv, TypeOK, ThreadsOK, DiskOK, Marks, Ask, GoTo
<1>1. CASE Revert(t)
    BY <1>1 DEF machine, markers, history, Revert, MustDisarm, RestoreDns
<1>2. CASE StandDownBlocked(t)
    BY <1>2 DEF machine, markers, history, StandDownBlocked, RestoreDns
<1>3. CASE NothingToHeal(t)
    BY <1>3 DEF machine, markers, history, NothingToHeal, Finish
<1>4. CASE OffAnswered(t)
    BY <1>4 DEF machine, markers, history, OffAnswered, Answered, MarkerAfterOff, Ok,
       RestoreDns, Finish
<1>5. CASE RestoreAnswered(t)
    BY <1>5 DEF machine, markers, history, RestoreAnswered, Answered, Ok
<1>6. CASE TakeDown(t)
    BY <1>6 DEF machine, markers, history, TakeDown, Finish
<1>7. CASE RefuseConnect(t)
    BY <1>7 DEF machine, markers, history, RefuseConnect, Finish
<1>8. CASE StartConnect(t)
    BY <1>8 DEF machine, markers, history, StartConnect
<1>9. CASE BringUp(t)
    BY <1>9 DEF machine, markers, history, BringUp, Finish
<1>10. CASE PostConnect(t)
    BY <1>10 DEF machine, markers, history, PostConnect, OverrideDns
<1>11. CASE Arm(t)
    BY <1>11 DEF machine, markers, history, Arm, GoOn, Finish
<1>12. CASE OnAnswered(t)
    BY <1>12 DEF machine, markers, history, OnAnswered, GoOn, Finish
<1>13. CASE Probe(t)
    BY <1>13 DEF machine, markers, history, Probe, Finish
<1>14. CASE reapplyFirewall(t)
    BY <1>14 DEF machine, markers, history, reapplyFirewall, Disarm, Rearm, ArmLive,
       LeaveFirewall, OverrideDns, Finish
<1>15. QED
    BY <1>1, <1>2, <1>3, <1>4, <1>5, <1>6, <1>7, <1>8, <1>9, <1>10, <1>11, <1>12, <1>13,
       <1>14 DEF ThreadStep

(* The one thread at work takes a step of its own. *)
LEMMA ThreadKeepsMarkers ==
    ASSUME Inv, MarkerInv, NEW t \in Threads, ThreadStep(t), Plain'
    PROVE  (Alone /\ InLine /\ Marked /\ Removed)'
<1>1. Stepped(t) /\ Moved(t) BY ThreadType
<1>2. Marks(t) BY ThreadMarks
<1>3. Plain /\ Alone /\ InLine /\ Marked /\ Removed
    BY <1>2 DEF MarkerInv, Plain, Marks
<1>4. job[t] # NoJob /\ \A u \in Threads \ {t} : job[u] = NoJob /\ at[u] = "idle"
    BY <1>1, <1>3 DEF Inv, Working, Stepped, Alone, Threads
<1>5. \A u \in Threads \ {t} : job'[u] = NoJob /\ at'[u] = "idle"
    BY <1>1, <1>4 DEF Inv, TypeOK, ThreadsOK, Stepped, Moved, Finish
<1>6. Alone' BY <1>5 DEF Alone, Threads
<1>7. InLine' BY <1>1, <1>3 DEF InLine, Stepped, Moved
<1>8. Removed' BY <1>1, <1>5 DEF Removed, Moved, Ok
<1>9. Marked'
    <2>1. (\A u \in Threads : (at[u] = "on" => ksMarker) /\ (at[u] = "set" => dnsMarker))'
        BY <1>2, <1>5 DEF Marks
    <2>2. (Blocked => ksMarker)' /\ (\A i \in 1..Len(queue) : queue[i].verb = "on" => ksMarker)'
        <3>1. chain' = chain /\ queue' = queue BY <1>1, <1>2 DEF Stepped, Marks, machine
        <3>2. ksMarker => ksMarker' \/ (chain = NoChain /\ queue = <<>>)
            BY <1>2, <1>3 DEF Marks, Removed
        <3>3. CASE ksMarker' BY <3>3
        <3>4. CASE chain = NoChain /\ queue = <<>>
            <4>1. queue' = <<>> /\ chain' = NoChain BY <3>1, <3>4
            <4>2. Len(queue') = 0 BY <4>1
            <4>3. QED BY <4>1, <4>2 DEF Blocked
        <3>5. CASE ~ksMarker
            BY <1>3, <3>1, <3>5 DEF Marked, Blocked
        <3>6. QED BY <3>2, <3>3, <3>4, <3>5
    <2>3. /\ (resolver = "vpn" => dnsMarker)'
          /\ (\A i \in 1..Len(queue) : queue[i].verb = "set" => dnsMarker)'
        BY <1>1, <1>2, <1>3 DEF Inv, TypeOK, MachineOK, Marks, Marked, Removed, Stepped, machine
    <2>4. QED BY <2>1, <2>2, <2>3 DEF Marked
<1>10. QED BY <1>6, <1>7, <1>8, <1>9

(* A call arrives, is refused, or is given up. *)
LEMMA CallKeepsMarkers ==
    ASSUME Inv, MarkerInv, NEW t \in Threads, CallStep(t), Plain'
    PROVE  (Alone /\ InLine /\ Marked /\ Removed)'
<1> USE DEF Inv, TypeOK
<1>1. /\ at' = at /\ job' = job /\ chain' = chain /\ resolver' = resolver
      /\ ksMarker' = ksMarker /\ dnsMarker' = dnsMarker /\ excused' = excused
    BY DEF CallStep, Arrives, IsRefused, TimesOut, markers, machine, history
<1>2. Alone /\ InLine /\ Marked /\ Removed
    BY <1>1 DEF MarkerInv, Plain
<1>3. at[t] \in Verbs /\ call[t].state \in {"asked", "queued"}
    BY DEF Calling, CallStep, Arrives, IsRefused, TimesOut
<1>4. \A u \in Threads \ {t} : at[u] = "idle" /\ call[u].state = "none"
    BY <1>2, <1>3 DEF Alone, Working, Calling, Threads, Verbs
<1>5. /\ call'[t].state \in {"queued", "failed"}
      /\ \A u \in Threads \ {t} : call'[u] = call[u]
    BY DEF CallStep, Arrives, IsRefused, TimesOut, ThreadsOK, Calls
<1>6. Alone' BY <1>1, <1>2 DEF Alone
<1>7. Removed' BY <1>1, <1>4, <1>5 DEF Removed, Ok
<1>8. (InLine /\ Marked)'
    <2>1. CASE Arrives(t)
        <3>1. \A i \in 1..Len(queue) : queue[i].by \notin Threads
            BY <1>4, <2>1 DEF Owned, Arrives
        <3>2. /\ Len(queue) \in Nat /\ Len(queue') = Len(queue) + 1 /\ queue' # <<>>
              /\ queue'[Len(queue) + 1] = [verb |-> at[t], with |-> call[t].with, by |-> t]
              /\ \A i \in 1..Len(queue) : queue'[i] = queue[i]
            BY <2>1 DEF MachineOK, Arrives
        <3>3. InLine'
            BY <1>1, <1>4, <1>5, <2>1, <3>1, <3>2 DEF InLine, Arrives, ThreadsOK,
               Calls
        <3>4. Marked' BY <1>1, <1>2, <3>2 DEF Marked, Blocked
        <3>5. QED BY <3>3, <3>4
    <2>2. CASE IsRefused(t)
        BY <1>1, <1>2, <1>5, <2>2 DEF InLine, Marked, Blocked, Owned, IsRefused,
           ThreadsOK, Calls
    <2>3. CASE TimesOut(t)
        <3>1. /\ Len(queue') = Len(queue) /\ Len(queue) \in Nat
              /\ \A i \in 1..Len(queue) : /\ queue'[i].verb = queue[i].verb
                                          /\ queue'[i].by = IF queue[i].by = t THEN "nobody"
                                                            ELSE queue[i].by
            BY <2>3, DisownType DEF MachineOK, TimesOut
        <3>2. call'[t].state = "failed" BY <2>3 DEF TimesOut, ThreadsOK, Calls
        <3>3. InLine' BY <1>2, <1>4, <1>5, <3>1, <3>2 DEF InLine, Threads
        <3>4. Marked' BY <1>1, <1>2, <3>1 DEF Marked, Blocked
        <3>5. QED BY <3>3, <3>4
    <2>4. QED BY <2>1, <2>2, <2>3 DEF CallStep
<1>9. QED BY <1>6, <1>7, <1>8

(* The verb at the head runs. *)
LEMMA VerbKeepsMarkers ==
    ASSUME Inv, Recoverable, MarkerInv, VerbRuns, Plain'
    PROVE  (Alone /\ InLine /\ Marked /\ Removed)'
<1> USE DEF Inv, TypeOK
<1> DEFINE c == Head(queue)
<1>1. /\ at' = at /\ job' = job /\ ksMarker' = ksMarker /\ dnsMarker' = dnsMarker
      /\ queue' = Tail(queue)
    BY DEF VerbRuns, markers
<1>2. Plain
    BY DEF VerbRuns, DisarmVerb, RestoreVerb, Plain
<1>3. Alone /\ InLine /\ Marked /\ Removed
    BY <1>2 DEF MarkerInv
<1>4. /\ Len(queue) \in Nat \ {0} /\ c = queue[1] /\ Len(queue') = Len(queue) - 1
      /\ \A i \in 1..Len(queue') : queue'[i] = queue[i + 1] /\ i + 1 \in 1..Len(queue)
      /\ Len(queue') = 0 => queue' = <<>>
    <2>1. queue \in Seq(Requested) /\ queue # <<>> /\ queue' \in Seq(Requested)
        BY <1>1 DEF VerbRuns, MachineOK
    <2>2. c = queue[1] /\ Len(queue') = Len(queue) - 1 /\ Len(queue) \in Nat \ {0}
        BY <1>1, <2>1
    <2>3. \A i \in 1..Len(queue') : queue'[i] = queue[i + 1] /\ i + 1 \in 1..Len(queue)
        BY <1>1, <2>1, <2>2
    <2>4. Len(queue') = 0 => queue' = <<>> BY <2>1, EmptySeq
    <2>5. QED BY <2>2, <2>3, <2>4
<1>5. PICK state \in {"ok", "failed"} : Answer(c.by, state)
    BY DEF VerbRuns, ArmVerb, DisarmVerb, SetDnsVerb, RestoreVerb
<1>6. \A u \in Threads : (u = c.by /\ call'[u].state = state) \/ (u # c.by /\ call'[u] = call[u])
    BY <1>5 DEF Answer, ThreadsOK, Calls
<1>7. c.by \in Threads => queue' = <<>> /\ at[c.by] = c.verb
    BY <1>3, <1>4 DEF InLine
<1>8. Alone' BY <1>1, <1>3 DEF Alone
<1>9. InLine'
    <2>1. \A t \in Threads : call'[t].state = "queued" =>
              call[t].state = "queued" /\ t # c.by
        BY <1>6
    <2>2. \A t \in Threads : call'[t].state = "queued" =>
              queue' # <<>> /\ queue'[Len(queue')] = queue[Len(queue)]
        BY <1>3, <1>4, <2>1 DEF InLine
    <2>3. \A i \in 1..Len(queue') : queue'[i].by \in Threads => queue'[i].by # c.by
        BY <1>4 DEF Owned
    <2>4. \A i \in 1..Len(queue') : queue'[i].by \in Threads =>
              i = Len(queue') /\ call'[queue'[i].by].state = "queued"
        BY <1>3, <1>4, <1>6, <2>3 DEF InLine
    <2>5. \A t \in Threads : call'[t].state = "queued" =>
              queue' # <<>> /\ queue'[Len(queue')].by = t /\ queue'[Len(queue')].verb = at'[t]
        BY <1>1, <1>3, <2>1, <2>2 DEF InLine
    <2>6. QED BY <2>4, <2>5 DEF InLine
<1>10. Marked'
    <2>1. (Blocked => ksMarker)'
        <3>1. chain' \in {chain, NoChain} \/ c.verb = "on" BY DEF VerbRuns, DisarmVerb
        <3>2. c.verb = "on" => ksMarker BY <1>3, <1>4 DEF Marked
        <3>3. QED BY <1>1, <1>3, <3>1, <3>2 DEF Marked, Blocked
    <2>2. (resolver = "vpn" => dnsMarker)'
        BY <1>1, <1>3, <1>4 DEF VerbRuns, SetDnsVerb, RestoreVerb, Restored, Recoverable, Marked
    <2>3. QED BY <1>1, <1>3, <1>4, <2>1, <2>2 DEF Marked
<1>11. Removed'
    <2>1. SUFFICES ASSUME NEW t \in Threads, at[t] \in {"off", "restore"}, call'[t].state = "ok"
                   PROVE  /\ at[t] = "off" => chain' = NoChain /\ queue' = <<>>
                          /\ at[t] = "restore" => resolver' = "user" /\ queue' = <<>>
        BY <1>1 DEF Removed, Ok
    <2>2. t = c.by
        BY <1>3, <1>4, <1>6, <2>1 DEF Removed, Ok, VerbRuns
    <2>3. at[t] = c.verb /\ queue' = <<>> /\ state = "ok" BY <1>6, <1>7, <2>1, <2>2
    <2>4. ~Answer(c.by, "failed") BY <2>1, <2>2 DEF Answer, ThreadsOK, Calls
    <2>5. at[t] = "off" => chain' = NoChain
        BY <2>3, <2>4 DEF VerbRuns, DisarmVerb, Plain
    <2>6. at[t] = "restore" => resolver' = "user"
        <3>1. at[t] = "restore" => RestoreVerb(c) BY <2>3 DEF VerbRuns
        <3>2. RestoreVerb(c) => resolver' = Restored BY <2>4 DEF RestoreVerb, Plain
        <3>3. Restored = "user" BY DEF Restored, Recoverable
        <3>4. QED BY <3>1, <3>2, <3>3
    <2>7. QED BY <2>3, <2>5, <2>6
<1>12. QED BY <1>8, <1>9, <1>10, <1>11

(* What the user, the lock, the daemon's death, and the application's end and start do. *)
LEMMA RestKeepsMarkers ==
    ASSUME Inv, MarkerInv, Plain',
           Request \/ StartJob \/ DaemonDies \/ Exit \/ Reboot \/ Launch
    PROVE  (Alone /\ InLine /\ Marked /\ Removed)'
<1> USE DEF Inv, TypeOK
<1>1. /\ ksMarker' = ksMarker /\ dnsMarker' = dnsMarker /\ resolver' = resolver
      /\ chain' \in {chain, NoChain} /\ excused \subseteq excused'
    BY DEF Request, RequestConnect, RequestDisconnect, StandDown, ToggleKillSwitch,
           ToggleLanSharing, Enqueue, StartJob, DaemonDies, Exit, Reboot, AppEnds, Launch,
           markers, machine, history
<1>2. Plain /\ Alone /\ InLine /\ Marked /\ Removed BY <1>1 DEF MarkerInv, Plain
<1>3. CASE Request
    <2>1. UNCHANGED <<queue, threads, machine>>
        BY <1>3 DEF Request, RequestConnect, RequestDisconnect, StandDown, ToggleKillSwitch,
                    ToggleLanSharing, Enqueue
    <2>2. QED
        BY <1>1, <1>2, <2>1 DEF Alone, InLine, Marked, Removed, Ok, Blocked, threads,
           machine
<1>4. CASE StartJob
    <2>1. at["lock"] = "idle" /\ call["lock"].state = "none" /\ job["launch"] = NoJob
        BY <1>4 DEF StartJob, Plain, Working, Calling, Verbs, Threads
    <2>2. /\ UNCHANGED <<queue, call, machine>> /\ job'["launch"] = NoJob /\ at'["lock"] = "start"
          /\ at'["launch"] = at["launch"]
        BY <1>4, <2>1 DEF StartJob, ThreadsOK, Threads
    <2>3. Alone' BY <2>2 DEF Alone
    <2>4. (InLine /\ Removed)' BY <1>2, <2>1, <2>2 DEF InLine, Removed, Ok, machine, Threads
    <2>5. Marked' BY <1>1, <1>2, <2>2 DEF Marked, Blocked, machine, Threads
    <2>6. QED BY <2>3, <2>4, <2>5
<1>5. CASE DaemonDies
    <2>1. /\ queue' = <<>> /\ at' = at /\ job' = job /\ UNCHANGED machine
          /\ \A t \in Threads : /\ call'[t].state # "queued"
                                /\ call'[t].state = "ok" => call[t].state = "ok"
        BY <1>5 DEF DaemonDies, ThreadsOK, Calls
    <2>2. Len(queue') = 0 BY <2>1
    <2>3. QED BY <1>1, <1>2, <2>1, <2>2 DEF Alone, InLine, Marked, Removed, Ok, Blocked, machine
<1>6. CASE Exit \/ Reboot
    <2>1. job' = NoJobs /\ at' = AtRest /\ call' = NoCalls
        BY <1>6 DEF Exit, Reboot, AppEnds
    <2>2. /\ Len(queue') \in {0, Len(queue)} /\ Len(queue) \in Nat
          /\ \A i \in 1..Len(queue') : queue'[i].by \notin Threads /\ queue'[i].verb = queue[i].verb
        <3>1. CASE Exit BY <3>1, DisownType DEF Exit, MachineOK, Threads
        <3>2. CASE Reboot BY <3>2 DEF Reboot, MachineOK
        <3>3. QED BY <1>6, <3>1, <3>2
    <2>3. QED BY <1>1, <1>2, <2>1, <2>2
          DEF Alone, InLine, Marked, Removed, Blocked, NoJobs, AtRest, NoCalls, NoCall, Threads
<1>7. CASE Launch
    <2>1. \A t \in Threads : job[t] = NoJob /\ at[t] = "idle" /\ call[t].state = "none"
        BY <1>7 DEF Launch, Working, Calling, Verbs
    <2>2. /\ UNCHANGED <<queue, call, machine>> /\ job'["lock"] = NoJob
          /\ at'["lock"] = "idle" /\ at'["launch"] = "start"
        BY <1>7, <2>1 DEF Launch, ThreadsOK, Threads
    <2>3. Alone' BY <2>2 DEF Alone
    <2>4. (InLine /\ Removed)' BY <1>2, <2>1, <2>2 DEF InLine, Removed, Ok, machine, Threads
    <2>5. Marked' BY <1>1, <1>2, <2>2 DEF Marked, Blocked, machine, Threads
    <2>6. QED BY <2>3, <2>4, <2>5
<1>8. QED BY <1>3, <1>4, <1>5, <1>6, <1>7

(* The invariant of the markers is kept, and holds at first. *)
LEMMA MarkersInductive ==
    /\ Init => MarkerInv
    /\ Inv /\ Recoverable /\ MarkerInv /\ [Next]_vars => MarkerInv'
<1>1. Init => MarkerInv
    BY DEF Init, MarkerInv, Alone, InLine, Marked, Removed, Blocked, Ok, NoJobs, AtRest,
       NoCalls,
           NoCall, Threads
<1>2. ASSUME MarkerInv, UNCHANGED vars PROVE MarkerInv'
    BY <1>2 DEF MarkerInv, Plain, Alone, InLine, Marked, Removed, Blocked, Ok, vars, markers,
                machine, threads, history
<1>3. ASSUME Inv, Recoverable, MarkerInv, Next PROVE MarkerInv'
    BY <1>3, ThreadKeepsMarkers, CallKeepsMarkers, VerbKeepsMarkers, RestKeepsMarkers
    DEF Next, MarkerInv
<1>4. QED BY <1>1, <1>2, <1>3

(* Whatever is refused, lost, answered late or cut by a crash, a chain that may drop traffic *)
(* and a resolver that is not the user's are marked, unless a verb lied or a job ran beside *)
(* the healing at launch. *)
THEOREM MarkersStayHonest == Spec => []MarkersAreHonest
<1>1. Spec => [](Inv /\ Recoverable /\ MarkerInv)
    BY InvInductive, RecoverableInductive, MarkersInductive, PTL DEF Spec
<1>2. MarkerInv => MarkersAreHonest BY DEF MarkerInv, Plain, Marked, MarkersAreHonest
<1>3. QED BY <1>1, <1>2, PTL

----------------------------------------------------------------------------
(* The course of a job. *)

(* Which jobs each thread has, and which of them reach which steps. *)
Course ==
    /\ job["lock"].op \in Ops \cup {"none"} /\ job["launch"].op \in {"none", "orphan", "stranded"}
    /\ \A t \in Threads : job[t].op = "none" => job[t] = NoJob
    /\ \A t \in Threads :
           /\ at[t] \in {"up", "post", "probe", "dead"} => job[t].op = "connect"
           /\ at[t] \in {"set", "arm", "on"} => job[t].op \in {"connect", "firewall"}
           /\ at[t] \in {"restore", "down"} => job[t].op # "firewall"

(* A chain that is asked for, or will be, names the node it lets out. *)
Named ==
    /\ \A i \in 1..Len(waiting) : waiting[i].op = "connect" => waiting[i].host # NoHost
    /\ \A t \in Threads :
           /\ job[t].op = "connect" => job[t].host # NoHost
           /\ at[t] \in {"set", "arm"} => snap.host # NoHost
           /\ at[t] = "on" => call[t].with.host # NoHost
    /\ armedWith.host = NoHost => armedWith = NoChain

(* The watchdogs run only for a session, and a session only in a running application. *)
Settled ==
    /\ ~alive => ~desired /\ ~active
    /\ desired => active
    /\ \A t \in Threads : job[t].op = "connect" /\ at[t] \notin {"idle", "start"} => active

CourseInv == Course /\ Named /\ Settled

(* What the end of a job leaves. *)
LEMMA EndOfJob ==
    ASSUME ThreadsOK, NEW t \in Threads, Finish(t)
    PROVE  /\ job'[t] = (IF job[t].op = "orphan" THEN JobOf("stranded") ELSE NoJob)
           /\ at'[t] = (IF job[t].op = "orphan" THEN "start" ELSE "idle")
           /\ \A u \in Threads \ {t} : at'[u] = at[u] /\ job'[u] = job[u] /\ call'[u] = call[u]
BY DEF ThreadsOK, Finish, GoTo

(* It leads to no step that asks for a job of its own. *)
LEMMA EndKeepsCourse ==
    ASSUME ThreadsOK, Course, NEW t \in Threads, Finish(t)
    PROVE  Course'
<1> DEFINE rest(u) == at'[u] \in {"idle", "start"}
<1>1. rest(t) BY EndOfJob
<1>2. \A u \in Threads \ {t} : at'[u] = at[u] /\ job'[u] = job[u] BY EndOfJob
<1>3. job'["lock"].op \in Ops \cup {"none"} /\ job'["launch"].op \in {"none", "orphan", "stranded"}
    <2>1. CASE t = "lock"
        <3>1. job[t].op # "orphan" BY <2>1 DEF Course, Ops
        <3>2. job'[t] = NoJob BY <3>1, EndOfJob
        <3>3. QED BY <2>1, <3>2, <1>2 DEF Course, NoJob, JobOf, Threads
    <2>2. CASE t = "launch"
        <3>1. job'[t] \in {JobOf("stranded"), NoJob} BY EndOfJob
        <3>2. QED BY <2>2, <3>1, <1>2 DEF Course, NoJob, JobOf, Threads
    <2>3. QED BY <2>1, <2>2 DEF Threads
<1>4. job'[t] \in {JobOf("stranded"), NoJob} BY EndOfJob
<1>5. \A u \in Threads : job'[u].op = "none" => job'[u] = NoJob
    BY <1>2, <1>4 DEF Course, JobOf
<1>6. QED BY <1>1, <1>2, <1>3, <1>5 DEF Course

(* Each step of a thread goes on within its kind of job. *)
LEMMA ThreadKeepsCourse ==
    ASSUME Inv, CourseInv, NEW t \in Threads, ThreadStep(t)
    PROVE  CourseInv'
<1> USE DEF Inv, TypeOK, ThreadsOK, CourseInv, Course, Named, Settled, Ask, GoTo, Threads, NoCall,
            session, JobOf, NoJob
<1>0. alive
    BY DEF Working, ThreadStep, Revert, Reverts, StandDownBlocked, NothingToHeal,
       OffAnswered, RestoreAnswered, TakeDown, RefuseConnect, StartConnect, BringUp,
       PostConnect, Arm, OnAnswered, Probe, reapplyFirewall, Answered, Verbs
<1>1. CASE Revert(t)
    BY <1>0, <1>1 DEF Revert, Reverts, RestoreDns
<1>2. CASE StandDownBlocked(t)
    BY <1>0, <1>2 DEF StandDownBlocked, RestoreDns
<1>3. CASE NothingToHeal(t)
    <2>1. Course' BY EndKeepsCourse, <1>3 DEF NothingToHeal
    <2>2. Named' BY EndOfJob, <1>3 DEF NothingToHeal
    <2>3. Settled' BY EndOfJob, <1>0, <1>3 DEF NothingToHeal
    <2>4. QED BY <2>1, <2>2, <2>3
<1>4. CASE OffAnswered(t)
    BY <1>0, <1>4 DEF OffAnswered, Answered, RestoreDns, Finish
<1>5. CASE RestoreAnswered(t)
    BY <1>0, <1>5 DEF RestoreAnswered, Answered
<1>6. CASE TakeDown(t)
    <2>1. Course' BY EndKeepsCourse, <1>6 DEF TakeDown
    <2>2. Named' BY EndOfJob, <1>6 DEF TakeDown
    <2>3. Settled' BY EndOfJob, <1>0, <1>6 DEF TakeDown
    <2>4. QED BY <2>1, <2>2, <2>3
<1>7. CASE RefuseConnect(t)
    BY <1>0, EndOfJob, <1>7 DEF RefuseConnect
<1>8. CASE StartConnect(t)
    BY <1>0, <1>8 DEF StartConnect
<1>9. CASE BringUp(t)
    BY <1>0, EndOfJob, <1>9 DEF BringUp
<1>10. CASE PostConnect(t)
    BY <1>0, <1>10 DEF PostConnect, OverrideDns, ReadSettings
<1>11. CASE Arm(t)
    BY <1>0, EndOfJob, <1>11 DEF Arm, Answered, GoOn
<1>12. CASE OnAnswered(t)
    BY <1>0, EndOfJob, <1>12 DEF OnAnswered, Answered, GoOn
<1>13. CASE Probe(t)
    <2>1. Course'
        <3>1. CASE Finish(t) BY <3>1, EndKeepsCourse
        <3>2. CASE GoTo(t, "dead") /\ job' = job BY <1>13, <3>2 DEF Probe
        <3>3. QED BY <1>13, <3>1, <3>2 DEF Probe
    <2>2. Named'
        <3>1. \A u \in Threads : (job'[u].op = "connect" => job'[u] = job[u])
                                 /\ (at'[u] \in {"set", "arm", "on"} => u # t)
            BY EndOfJob, <1>13 DEF Probe
        <3>2. \A u \in Threads \ {t} : call'[u] = call[u] /\ at'[u] = at[u]
            BY EndOfJob, <1>13 DEF Probe
        <3>3. QED BY <3>1, <3>2, <1>13 DEF Probe
    <2>3. Settled' BY EndOfJob, <1>0, <1>13 DEF Probe
    <2>4. QED BY <2>1, <2>2, <2>3
<1>14. CASE reapplyFirewall(t)
    BY <1>0, EndOfJob, <1>14 DEF reapplyFirewall, Disarm, Rearm, ArmLive, LeaveFirewall,
       OverrideDns, ReadSettings, decideFirewallAction
<1>15. QED
    BY <1>1, <1>2, <1>3, <1>4, <1>5, <1>6, <1>7, <1>8, <1>9, <1>10, <1>11, <1>12, <1>13,
       <1>14 DEF ThreadStep

(* What else happens moves no thread to such a step. *)
LEMMA RestKeepsCourse ==
    ASSUME Inv, CourseInv,
           \/ \E t \in Threads : CallStep(t)
           \/ Request \/ StartJob \/ VerbRuns \/ DaemonDies \/ Exit \/ Reboot \/ Launch
    PROVE  CourseInv'
<1> USE DEF Inv, TypeOK, ThreadsOK, CourseInv, Course, Named, Settled, session
<1>1. ASSUME NEW t \in Threads, CallStep(t) PROVE CourseInv'
    <2>1. \A u \in Threads : call'[u].with = call[u].with
        <3>1. \E state \in {"queued", "failed"} : call' = [call EXCEPT ![t].state = state]
            BY <1>1 DEF CallStep, Arrives, IsRefused, TimesOut
        <3>2. QED BY <3>1 DEF Calls
    <2>2. /\ UNCHANGED <<at, job, waiting, snap, armedWith>>
          /\ alive' = alive /\ active' = active /\ desired' = desired
        BY <1>1 DEF CallStep, Arrives, IsRefused, TimesOut
    <2>3. QED BY <2>1, <2>2
<1>2. CASE Request
    <2>1. PICK j \in Wanted : Enqueue(j) /\ (j.op = "connect" => j.host # NoHost)
        <3>1. \A h \in Hosts : /\ h # NoHost /\ [op |-> "connect", host |-> h] \in Wanted
            BY HostsAssumption DEF Wanted, Ops
        <3>2. \A op \in Ops \ {"connect"} : JobOf(op) \in Wanted /\ JobOf(op).op # "connect"
            BY DEF Wanted, JobOf
        <3>3. CASE RequestConnect BY <3>1, <3>3 DEF RequestConnect
        <3>4. CASE ~RequestConnect
            <4>1. \E op \in Ops \ {"connect"} : Enqueue(JobOf(op))
                BY <1>2, <3>4 DEF Request, RequestDisconnect, StandDown, ToggleKillSwitch,
                   ToggleLanSharing, Ops
            <4>2. QED BY <3>2, <4>1
        <3>5. QED BY <3>3, <3>4
    <2>2. /\ Len(waiting) \in Nat /\ Len(waiting') = Len(waiting) + 1
          /\ waiting'[Len(waiting) + 1] = j
          /\ \A i \in 1..Len(waiting) : waiting'[i] = waiting[i]
        <3>1. waiting' = Append(waiting, j) BY <2>1 DEF Enqueue
        <3>2. QED BY <2>1, <3>1
    <2>3. QED BY <2>1, <2>2 DEF Enqueue, threads
<1>3. CASE StartJob
    <2>1. /\ waiting # <<>> /\ Len(waiting) \in Nat \ {0} /\ Head(waiting) = waiting[1]
          /\ Head(waiting).op \in Ops
          /\ \A i \in 1..Len(waiting') : waiting'[i] = waiting[i + 1] /\ i + 1 \in 1..Len(waiting)
        <3>1. waiting \in Seq(Wanted) /\ waiting # <<>> /\ waiting' = Tail(waiting)
            BY <1>3 DEF StartJob
        <3>2. Len(waiting) \in Nat \ {0} /\ Head(waiting) = waiting[1]
              /\ Len(waiting') = Len(waiting) - 1
            BY <3>1
        <3>3. waiting[1] \in Wanted BY <3>1, <3>2
        <3>4. QED BY <3>1, <3>2, <3>3 DEF Wanted
    <2>2. /\ job'["lock"] = waiting[1] /\ job'["launch"] = job["launch"]
          /\ at'["lock"] = "start" /\ at'["launch"] = at["launch"] /\ call' = call
        BY <1>3, <2>1 DEF StartJob, Threads
    <2>3. Course' BY <2>1, <2>2 DEF Threads, Ops
    <2>4. Named' BY <1>3, <2>1, <2>2 DEF Threads, StartJob
    <2>5. Settled' BY <1>3 DEF StartJob
    <2>6. QED BY <2>3, <2>4, <2>5
<1>4. CASE VerbRuns \/ DaemonDies
    <2>1. \A u \in Threads : call'[u].with = call[u].with
        BY <1>4 DEF VerbRuns, DaemonDies, ArmVerb, DisarmVerb, SetDnsVerb, RestoreVerb,
           Answer, Calls
    <2>2. QED BY <1>4, <2>1 DEF VerbRuns, DaemonDies
<1>5. CASE Exit \/ Reboot
    BY <1>5 DEF Exit, Reboot, AppEnds, NoJobs, NoJob, JobOf, AtRest, NoChain, Ops, Threads
<1>6. CASE Launch
    BY <1>6 DEF Launch, JobOf, Threads
<1>7. QED BY <1>1, <1>2, <1>3, <1>4, <1>5, <1>6

(* The course of the jobs is kept, and holds at first. *)
LEMMA CourseInductive ==
    (Init => CourseInv) /\ (Inv /\ CourseInv /\ [Next]_vars => CourseInv')
<1> USE DEF CourseInv, Course, Named, Settled
<1>1. ASSUME Init PROVE CourseInv
    BY <1>1 DEF Init, NoJobs, NoJob, JobOf, AtRest, NoChain, Ops, Threads
<1>2. ASSUME CourseInv, UNCHANGED vars PROVE CourseInv'
    BY <1>2 DEF vars, threads, session
<1>3. QED BY <1>1, <1>2, ThreadKeepsCourse, RestKeepsCourse DEF Next

----------------------------------------------------------------------------
(* The ends. *)

(* An ending that has come past the chain has removed it, with nothing in the line to put it *)
(* back, or has said that it has not.  A stand-down under the kill switch leaves it. *)
Opened ==
    \A t \in Threads : at[t] \in {"restore", "down"} /\ job[t].op # "standdown" =>
        \/ killSwitchTeardownFailed
        \/ chain = NoChain /\ \A i \in 1..Len(queue) : queue[i].verb # "on"

OpenInv == Plain => Opened

(* While one thread works, the other is at rest, now and after the step. *)
LEMMA OtherRests ==
    ASSUME Inv, Alone, NEW t \in Threads, at[t] # "idle"
    PROVE  \A u \in Threads \ {t} : job[u] = NoJob /\ at[u] = "idle" /\ call[u].state = "none"
BY DEF Inv, Working, Calling, Alone, Threads, Verbs

(* A thread's own step opens the machine before it goes on to the resolver. *)
LEMMA ThreadKeepsOpen ==
    ASSUME Inv, MarkerInv, OpenInv, NEW t \in Threads, ThreadStep(t), Plain'
    PROVE  Opened'
<1>1. Stepped(t) /\ Moved(t) BY ThreadType
<1>2. Marks(t) BY ThreadMarks
<1>3. Plain /\ Alone /\ Marked /\ Removed /\ Opened
    BY <1>2 DEF MarkerInv, OpenInv, Plain, Marks
<1>4. \A u \in Threads \ {t} : at'[u] = "idle"
    BY <1>1, <1>3, OtherRests DEF Stepped, Moved
<1>5. chain' = chain /\ queue' = queue BY <1>1, <1>2 DEF Marks, Stepped, machine
<1>6. SUFFICES ASSUME at'[t] \in {"restore", "down"}, job'[t].op # "standdown"
               PROVE  \/ killSwitchTeardownFailed'
                      \/ chain = NoChain /\ \A i \in 1..Len(queue) : queue[i].verb # "on"
    BY <1>4, <1>5 DEF Opened
<1>7. ~Finish(t) BY <1>6, EndOfJob DEF Inv, TypeOK
<1>8. job'[t] = job[t] BY <1>1, <1>7 DEF Stepped
<1>9. \/ Revert(t) /\ ~MustDisarm
      \/ StandDownBlocked(t) \/ OffAnswered(t) \/ RestoreAnswered(t)
    BY <1>6, <1>7 DEF Inv, TypeOK, ThreadsOK, ThreadStep, Revert, StandDownBlocked, NothingToHeal,
       OffAnswered, RestoreAnswered, TakeDown, RefuseConnect, StartConnect, BringUp,
       PostConnect, OverrideDns, Arm, GoOn, OnAnswered, Probe, reapplyFirewall, Disarm,
       Rearm, ArmLive, LeaveFirewall, Ask, GoTo
<1>10. CASE Revert(t) /\ ~MustDisarm BY <1>3, <1>10 DEF MustDisarm, Marked, Blocked
<1>11. CASE StandDownBlocked(t) BY <1>6, <1>8, <1>11 DEF StandDownBlocked
<1>12. CASE OffAnswered(t)
    <2>1. CASE Ok(t)
        <3>1. chain = NoChain /\ queue = <<>>
            BY <1>3, <1>12, <2>1 DEF Removed, OffAnswered, Answered
        <3>2. Len(queue) = 0 BY <3>1
        <3>3. QED BY <3>1, <3>2
    <2>2. CASE ~Ok(t) BY <1>12, <2>2 DEF OffAnswered
    <2>3. QED BY <2>1, <2>2
<1>13. CASE RestoreAnswered(t)
    BY <1>3, <1>6, <1>8, <1>13 DEF RestoreAnswered, Answered, Opened, notices
<1>14. QED BY <1>9, <1>10, <1>11, <1>12, <1>13

(* Verbs that arrive or run, requests and ends do not close it again. *)
LEMMA RestKeepsOpen ==
    ASSUME Inv, MarkerInv, OpenInv, Plain',
           \/ \E t \in Threads : CallStep(t)
           \/ Request \/ StartJob \/ VerbRuns \/ DaemonDies \/ Exit \/ Reboot \/ Launch
    PROVE  Opened'
<1> USE DEF Inv, TypeOK, ThreadsOK
<1>1. Plain /\ Alone /\ Opened
    <2>1. excused \subseteq excused'
        BY DEF CallStep, Arrives, IsRefused, TimesOut, Request, RequestConnect,
           RequestDisconnect, StandDown, ToggleKillSwitch, ToggleLanSharing, Enqueue,
           StartJob, VerbRuns, DisarmVerb, RestoreVerb, DaemonDies, Exit, Reboot, AppEnds,
           Launch, history
    <2>2. QED BY <2>1 DEF MarkerInv, OpenInv, Plain
<1>2. ASSUME NEW t \in Threads, CallStep(t) PROVE Opened'
    <2>1. /\ UNCHANGED <<at, job, machine, killSwitchTeardownFailed>>
          /\ at[t] # "idle"
        BY <1>2 DEF CallStep, Arrives, IsRefused, TimesOut, notices, Calling, Verbs
    <2>2. \A u \in Threads \ {t} : at[u] = "idle" BY <1>1, <2>1, OtherRests
    <2>3. at[t] # "on" => \A i \in 1..Len(queue') :
              queue'[i].verb = "on" => \E k \in 1..Len(queue) : queue[k].verb = "on"
        <3>1. CASE Arrives(t)
            <4>1. /\ Len(queue') = Len(queue) + 1 /\ Len(queue) \in Nat
                  /\ queue'[Len(queue) + 1].verb = at[t]
                  /\ \A i \in 1..Len(queue) : queue'[i] = queue[i]
                BY <3>1 DEF Arrives, MachineOK
            <4>2. QED BY <4>1
        <3>2. CASE IsRefused(t) BY <3>2 DEF IsRefused
        <3>3. CASE TimesOut(t) BY <3>3, DisownType DEF TimesOut, MachineOK
        <3>4. QED BY <1>2, <3>1, <3>2, <3>3 DEF CallStep
    <2>4. QED BY <1>1, <2>1, <2>2, <2>3 DEF Opened, machine
<1>3. CASE VerbRuns
    <2>1. /\ Len(queue) \in Nat \ {0} /\ Head(queue) = queue[1] /\ Len(queue') = Len(queue) - 1
          /\ \A i \in 1..Len(queue') : queue'[i] = queue[i + 1] /\ i + 1 \in 1..Len(queue)
        BY <1>3 DEF VerbRuns, MachineOK
    <2>2. UNCHANGED <<at, job, killSwitchTeardownFailed>> BY <1>3 DEF VerbRuns, notices
    <2>3. chain' \in {chain, NoChain} \/ queue[1].verb = "on"
        BY <1>3, <2>1 DEF VerbRuns, DisarmVerb
    <2>4. QED BY <1>1, <2>1, <2>2, <2>3 DEF Opened
<1>4. CASE Request
    <2>1. UNCHANGED <<at, job, machine, queue, killSwitchTeardownFailed>>
        BY <1>4 DEF Request, RequestConnect, RequestDisconnect, StandDown, ToggleKillSwitch,
           ToggleLanSharing, Enqueue, threads, notices
    <2>2. QED BY <1>1, <2>1 DEF Opened, machine
<1>5. CASE StartJob
    <2>1. /\ UNCHANGED <<machine, queue, killSwitchTeardownFailed>>
          /\ at'["lock"] = "start" /\ at'["launch"] = at["launch"] /\ job'["launch"] = job["launch"]
        BY <1>5 DEF StartJob, notices, Threads
    <2>2. QED BY <1>1, <2>1 DEF Opened, machine, Threads
<1>6. CASE DaemonDies
    <2>1. /\ UNCHANGED <<at, job, chain, killSwitchTeardownFailed>> /\ Len(queue') = 0
        BY <1>6 DEF DaemonDies, machine, notices
    <2>2. QED BY <1>1, <2>1 DEF Opened
<1>7. CASE Exit \/ Reboot
    <2>1. \A t \in Threads : at'[t] = "idle" BY <1>7 DEF Exit, Reboot, AppEnds, AtRest
    <2>2. QED BY <2>1 DEF Opened
<1>8. CASE Launch
    <2>1. \A t \in Threads : at'[t] \in {"idle", "start"}
        BY <1>8 DEF Launch, Working, Threads
    <2>2. QED BY <2>1 DEF Opened
<1>9. QED BY <1>2, <1>3, <1>4, <1>5, <1>6, <1>7, <1>8

(* The machine stays open until the ending is through, and nothing ends at first. *)
LEMMA OpenInductive ==
    (Init => OpenInv) /\ (Inv /\ MarkerInv /\ OpenInv /\ [Next]_vars => OpenInv')
<1>1. Init => OpenInv BY DEF Init, OpenInv, Opened, AtRest, Threads
<1>2. ASSUME OpenInv, UNCHANGED vars PROVE OpenInv'
    BY <1>2 DEF OpenInv, Opened, Plain, vars, machine, threads, history, notices
<1>3. ASSUME Inv, MarkerInv, OpenInv, Next PROVE OpenInv'
    BY <1>3, ThreadKeepsOpen, RestKeepsOpen DEF Next, OpenInv
<1>4. QED BY <1>1, <1>2, <1>3

(* A disconnect, or the healing at launch, that ends has opened the machine or says it has *)
(* not: the marker decides what is removed, never the setting, so no toggle can cheat it. *)
THEOREM EndingsOpen == Spec => EndingOpensOrTells
<1>1. Spec => [](Inv /\ Recoverable /\ MarkerInv /\ OpenInv)
    BY InvInductive, RecoverableInductive, MarkersInductive, OpenInductive, PTL DEF Spec
<1>2. OpenInv => (EndsTeardown /\ excused \cap {"overlap", "quiet"} = {} =>
                      chain = NoChain \/ killSwitchTeardownFailed)
    BY DEF OpenInv, Opened, Plain, EndsTeardown
<1>3. QED BY <1>1, <1>2, PTL DEF EndingOpensOrTells

----------------------------------------------------------------------------
(* What the user is told. *)

(* Nothing has happened of what ProtectedOrTold and LanIsAsSet leave out. *)
Clean == excused = {}

(* A verb in the line carries what its owner asked for. *)
Carried ==
    \A i \in 1..Len(queue) : queue[i].by \in Threads =>
        queue[i].with = call[queue[i].by].with

(* When an arming is reported, its chain stands, and nothing in the line undoes it. *)
Installed ==
    \A t \in Threads : at[t] = "on" /\ Ok(t) => chain = call[t].with /\ queue = <<>>

(* The chain stands as the application believes, and no verb in the line changes it. *)
Firm ==
    /\ chain = armedWith /\ Blocked
    /\ \A i \in 1..Len(queue) : queue[i].verb \notin {"on", "off"}

(* A job waits that will bring the chain in line with the settings. *)
FirewallDue == \E i \in 1..Len(waiting) : waiting[i].op = "firewall"

(* The healing at launch runs without a session, and removes the marker or is not needed. *)
Launching ==
    job["launch"] # NoJob =>
        /\ ~active
        /\ job["launch"].op = "stranded" => ~Connected
        /\ at["launch"] \in {"restore", "down"} => ~ksMarker

(* The lock's job is about to change the chain, or waits for the change. *)
Arming == at["lock"] \in {"on", "off"} \/ (at["lock"] \in {"set", "arm"} /\ snap.killSwitch)

(* A marker left behind has its chain or its warning: reapplyFirewall takes it for the chain. *)
MarkerTold ==
    alive /\ job["launch"] = NoJob /\ ksMarker /\ ~Arming => killSwitchFailed \/ Firm

(* The setting is kept, will be, or the user is told it is not. *)
Kept ==
    \/ ~killSwitch \/ FirewallDue \/ killSwitchFailed
    \/ Firm /\ armedWith.lan = lanSharing

(* What the lock's job may rely on at each step.  A toggle since it read the settings has *)
(* left a job behind it that will read them again. *)
Following ==
    /\ at["lock"] = "idle" \/ (at["lock"] = "start" /\ job["lock"].op # "firewall") =>
           (Supervised => Kept)
    /\ at["lock"] = "up" => ~Supervised
    /\ at["lock"] \in {"set", "arm"} =>
           FirewallDue \/ (snap.killSwitch = killSwitch /\ snap.lan = lanSharing)
    /\ at["lock"] = "on" => FirewallDue \/ ~killSwitch \/ call["lock"].with.lan = lanSharing
    /\ at["lock"] = "off" /\ job["lock"].op = "firewall" => FirewallDue \/ ~killSwitch
    /\ at["lock"] = "probe" => Kept

ToldInv == Clean => Installed /\ Launching /\ MarkerTold /\ Following

(* The line keeps what was asked for. *)
LEMMA CarriedInductive ==
    (Init => Carried) /\ (Inv /\ Carried /\ [Next]_vars => Carried')
<1> USE DEF Inv, TypeOK, ThreadsOK, MachineOK, Carried
<1>1. Init => Carried BY DEF Init
<1>2. UNCHANGED vars /\ Carried => Carried' BY DEF vars, threads
<1>3. ASSUME Inv, Carried, NEW t \in Threads, ThreadStep(t) PROVE Carried'
    <2>1. Stepped(t) /\ Moved(t) BY <1>3, ThreadType
    <2>2. \A i \in 1..Len(queue) : queue[i].by # t BY <1>3, <2>1 DEF Owned, Stepped
    <2>3. QED BY <1>3, <2>1, <2>2 DEF Stepped, Moved
<1>4. ASSUME Inv, Carried, NEW t \in Threads, CallStep(t) PROVE Carried'
    <2>1. \A u \in Threads : call'[u].with = call[u].with
        BY <1>4 DEF CallStep, Arrives, IsRefused, TimesOut, Calls
    <2>2. CASE Arrives(t)
        <3>1. /\ Len(queue') = Len(queue) + 1 /\ Len(queue) \in Nat
              /\ queue'[Len(queue) + 1].by = t /\ queue'[Len(queue) + 1].with = call[t].with
              /\ \A i \in 1..Len(queue) : queue'[i] = queue[i]
            BY <1>4, <2>2 DEF Arrives
        <3>2. QED BY <1>4, <2>1, <3>1
    <2>3. CASE IsRefused(t) BY <1>4, <2>1, <2>3 DEF IsRefused
    <2>4. CASE TimesOut(t)
        <3>1. Len(queue') = Len(queue) /\ \A i \in 1..Len(queue) :
                  queue'[i].by \in Threads => queue'[i] = queue[i]
            <4>1. DOMAIN queue = 1..Len(queue) BY <1>4
            <4>2. \A i \in 1..Len(queue) : queue[i].by # t => queue'[i] = queue[i]
                BY <1>4, <2>4, <4>1 DEF TimesOut, Disown
            <4>3. \A i \in 1..Len(queue) : queue[i].by = t => queue'[i].by = "nobody"
                BY <1>4, <2>4, DisownType DEF TimesOut
            <4>4. Len(queue') = Len(queue) BY <1>4, <2>4, DisownType DEF TimesOut
            <4>5. "nobody" \notin Threads BY DEF Threads
            <4>6. QED BY <1>4, <4>2, <4>3, <4>4, <4>5
        <3>2. QED BY <1>4, <2>1, <3>1
    <2>5. QED BY <1>4, <2>2, <2>3, <2>4 DEF CallStep
<1>5. ASSUME Inv, Carried, VerbRuns PROVE Carried'
    <2>1. \A u \in Threads : call'[u].with = call[u].with
        BY <1>5 DEF VerbRuns, ArmVerb, DisarmVerb, SetDnsVerb, RestoreVerb, Answer, Calls
    <2>2. \A i \in 1..Len(queue') : queue'[i] = queue[i + 1] /\ i + 1 \in 1..Len(queue)
        BY <1>5 DEF VerbRuns
    <2>3. QED BY <1>5, <2>1, <2>2
<1>6. ASSUME Inv, Carried, Request \/ StartJob PROVE Carried'
    BY <1>6 DEF Request, RequestConnect, RequestDisconnect, StandDown, ToggleKillSwitch,
       ToggleLanSharing, Enqueue, StartJob, threads
<1>7. ASSUME Inv, Carried, DaemonDies \/ Reboot PROVE Carried'
    BY <1>7 DEF DaemonDies, Reboot
<1>8. ASSUME Inv, Carried, Exit PROVE Carried'
    <2>1. \A i \in 1..Len(queue') : queue'[i].by \notin Threads
        BY <1>8, DisownType DEF Exit, Threads
    <2>2. QED BY <2>1
<1>9. ASSUME Inv, Carried, Launch PROVE Carried'
    BY <1>9 DEF Launch
<1>10. QED BY <1>1, <1>2, <1>3, <1>4, <1>5, <1>6, <1>7, <1>8, <1>9 DEF Next

(* What ProtectedOrTold and LanIsAsSet leave out is never undone. *)
LEMMA CleanStays ==
    ASSUME Inv, Next
    PROVE  excused \subseteq excused'
<1>1. ASSUME NEW t \in Threads, ThreadStep(t) PROVE excused \subseteq excused'
    BY <1>1, ThreadMarks DEF Marks
<1>2. ASSUME NEW t \in Threads, CallStep(t) PROVE excused \subseteq excused'
    BY <1>2 DEF CallStep, Arrives, IsRefused, TimesOut, history
<1>3. CASE Request \/ StartJob \/ VerbRuns \/ DaemonDies \/ Exit \/ Reboot \/ Launch
    BY <1>3 DEF Request, RequestConnect, RequestDisconnect, StandDown, ToggleKillSwitch,
       ToggleLanSharing, Enqueue, StartJob, VerbRuns, DisarmVerb, RestoreVerb, DaemonDies,
       Exit, Reboot, AppEnds, Launch, history
<1>4. QED BY <1>1, <1>2, <1>3 DEF Next

(* A chain that was reported is the one its caller asked for. *)
LEMMA InstalledKept ==
    ASSUME Inv, Carried, MarkerInv, Plain, Installed, Next
    PROVE  Installed'
<1> USE DEF Inv, TypeOK, ThreadsOK, MachineOK
<1>1. Alone /\ InLine BY DEF MarkerInv
<1>2. ASSUME NEW t \in Threads, ThreadStep(t) PROVE Installed'
    <2>1. Stepped(t) /\ Moved(t) BY <1>2, ThreadType
    <2>2. \A u \in Threads \ {t} : at'[u] = "idle"
        BY <1>1, <2>1, OtherRests DEF Stepped, Moved
    <2>3. QED BY <2>1, <2>2 DEF Installed, Moved, Ok
<1>3. ASSUME NEW t \in Threads, CallStep(t) PROVE Installed'
    <2>1. at' = at /\ call'[t].state \in {"queued", "failed"} /\ at[t] # "idle"
        BY <1>3 DEF CallStep, Arrives, IsRefused, TimesOut, Calls, Calling, Verbs
    <2>2. \A u \in Threads \ {t} : at[u] = "idle" BY <1>1, <2>1, OtherRests
    <2>3. QED BY <2>1, <2>2 DEF Installed, Ok
<1>4. CASE VerbRuns
    <2> DEFINE c == Head(queue)
    <2>1. queue # <<>> /\ queue' = Tail(queue) /\ c = queue[1] /\ Len(queue) \in Nat \ {0}
          /\ at' = at
        BY <1>4 DEF VerbRuns
    <2>2. PICK state \in {"ok", "failed"} : Answer(c.by, state)
        BY <1>4 DEF VerbRuns, ArmVerb, DisarmVerb, SetDnsVerb, RestoreVerb
    <2>3. SUFFICES ASSUME NEW t \in Threads, at[t] = "on", call'[t].state = "ok"
                   PROVE  chain' = call'[t].with /\ queue' = <<>>
        BY <2>1 DEF Installed, Ok
    <2>4. t = c.by
        BY <2>1, <2>2, <2>3 DEF Answer, Installed, Ok
    <2>5. c.with = call[t].with /\ call'[t].with = call[t].with
        <3>1. 1 \in 1..Len(queue) BY <2>1
        <3>2. c.with = call[t].with BY <2>1, <2>4, <3>1 DEF Carried
        <3>3. call'[t].with = call[t].with BY <2>2, <2>4 DEF Answer, Calls
        <3>4. QED BY <3>2, <3>3
    <2>6. c.verb = "on" /\ Len(queue) = 1 /\ queue' = <<>>
        <3>1. 1 = Len(queue)
            <4>1. 1 \in 1..Len(queue) /\ queue[1].by \in Threads BY <2>1, <2>4
            <4>2. QED BY <1>1, <4>1 DEF InLine
        <3>2. call[t].state = "queued" BY <2>1, <2>4 DEF Owned
        <3>3. QED BY <1>1, <2>1, <2>3, <2>4, <3>1, <3>2 DEF InLine
    <2>7. ~Answer(c.by, "failed") BY <2>3, <2>4 DEF Answer, Calls
    <2>8. QED BY <1>4, <2>5, <2>6, <2>7 DEF VerbRuns, ArmVerb
<1>5. CASE Request
    BY <1>5 DEF Request, RequestConnect, RequestDisconnect, StandDown, ToggleKillSwitch,
       ToggleLanSharing, Enqueue, threads, machine, Installed, Ok
<1>6. CASE StartJob
    <2>1. UNCHANGED <<call, machine, queue>> /\ at'["lock"] = "start" /\ at'["launch"] = at["launch"]
        BY <1>6 DEF StartJob, Threads
    <2>2. QED BY <2>1 DEF Installed, Ok, machine, Threads
<1>7. CASE DaemonDies
    <2>1. \A t \in Threads : call'[t].state = "ok" => call'[t] = call[t]
        BY <1>7 DEF DaemonDies, Calls
    <2>2. QED BY <1>7, <2>1 DEF DaemonDies, Installed, Ok, machine
<1>8. CASE Exit \/ Reboot
    BY <1>8 DEF Exit, Reboot, AppEnds, AtRest, Installed
<1>9. CASE Launch
    BY <1>9 DEF Launch, Working, Installed, Threads
<1>10. QED BY <1>2, <1>3, <1>4, <1>5, <1>6, <1>7, <1>8, <1>9 DEF Next

(* The chain stands while neither it nor the line changes. *)
LEMMA FirmStays ==
    ASSUME UNCHANGED <<chain, queue, armedWith>>
    PROVE  Firm' <=> Firm
BY DEF Firm, Blocked

(* Nor do verbs of the resolver move it. *)
LEMMA FirmUnderCalls ==
    ASSUME UNCHANGED <<chain, armedWith>>, Firm,
           \A i \in 1..Len(queue') : \/ \E k \in 1..Len(queue) : queue'[i].verb = queue[k].verb
                                    \/ queue'[i].verb \notin {"on", "off"}
    PROVE  Firm'
BY DEF Firm, Blocked

(* The healing at launch leaves no marker to a job. *)
LEMMA LaunchKeepsTold ==
    ASSUME Inv, CourseInv, CourseInv', MarkerInv, MarkerInv', Clean, Clean',
           Launching, MarkerTold, Following, ThreadStep("launch")
    PROVE  (Launching /\ MarkerTold /\ Following)'
<1> DEFINE t == "launch"
<1> USE DEF Inv, TypeOK, ThreadsOK
<1>1. t \in Threads /\ Stepped(t) /\ Moved(t) /\ Marks(t) BY ThreadType, ThreadMarks DEF Threads
<1>2. Plain /\ Plain' /\ Alone BY DEF MarkerInv, Clean, Plain
<1>3. job[t] # NoJob /\ job[t].op \in {"orphan", "stranded"}
    BY <1>1 DEF Working, Stepped, CourseInv, Course, NoJob, JobOf, Jobs
<1>4. job["lock"] = NoJob /\ at["lock"] = "idle" /\ at'["lock"] = "idle"
    BY <1>1, <1>2, OtherRests DEF Stepped, Moved, Threads
<1>5. ~active /\ ~desired BY <1>3 DEF Launching, CourseInv, Settled
<1>6. \/ Revert(t) \/ NothingToHeal(t) \/ OffAnswered(t) \/ RestoreAnswered(t) \/ TakeDown(t)
    BY <1>1, <1>3 DEF ThreadStep, CourseInv, Course, StandDownBlocked, RefuseConnect, StartConnect,
       BringUp, PostConnect, Arm, Answered, OnAnswered, Probe, reapplyFirewall
<1>7. active' = active /\ desired' = desired
    BY <1>3, <1>6 DEF Revert, NothingToHeal, OffAnswered, RestoreAnswered, TakeDown, session
<1>8. Following' BY <1>4, <1>5, <1>7 DEF Following, Supervised
<1>9. /\ at'[t] \in {"restore", "down"} => ~ksMarker'
      /\ at[t] = "start" /\ ~Reverts(t) => ksMarker' = ksMarker
      /\ at[t] = "down" => ~ksMarker'
    <2>1. CASE Revert(t)
        BY <2>1 DEF Revert, Reverts, MustDisarm, Ask, markers
    <2>2. CASE NothingToHeal(t)
        BY <1>1, <2>2, EndOfJob DEF NothingToHeal, markers
    <2>3. CASE OffAnswered(t)
        <3>1. Ok(t)
            <4>1. "unconfirmed" \notin excused' BY DEF Clean
            <4>2. QED BY <2>3, <4>1 DEF OffAnswered
        <3>2. QED BY <2>3, <3>1 DEF OffAnswered, MarkerAfterOff, Answered
    <2>4. CASE RestoreAnswered(t)
        BY <1>3, <2>4 DEF RestoreAnswered, Answered, Launching
    <2>5. CASE TakeDown(t) BY <1>3, <2>5 DEF TakeDown, Launching, markers
    <2>6. QED BY <1>6, <2>1, <2>2, <2>3, <2>4, <2>5
<1>10. CASE Finish(t) /\ job[t].op = "orphan"
    <2>1. job'[t] = JobOf("stranded") /\ at'[t] = "start" BY <1>1, <1>10, EndOfJob
    <2>2. ~Connected'
        <3>1. CASE NothingToHeal(t)
            BY <1>5, <1>7, <1>10, <3>1 DEF NothingToHeal, Reverts, Connected
        <3>2. CASE TakeDown(t) BY <1>10, <3>2 DEF TakeDown, Connected
        <3>3. CASE Revert(t) \/ OffAnswered(t) \/ RestoreAnswered(t)
            <4>1. at'[t] \in {"off", "restore", "down"}
                BY <1>1, <1>3, <3>3 DEF Revert, OffAnswered, RestoreAnswered, RestoreDns, Ask, GoTo
            <4>2. QED BY <2>1, <4>1
        <3>4. QED BY <1>6, <3>1, <3>2, <3>3
    <2>3. Launching' BY <1>5, <1>7, <2>1, <2>2 DEF Launching
    <2>4. MarkerTold' BY <2>1 DEF MarkerTold, JobOf, NoJob
    <2>5. QED BY <1>8, <2>3, <2>4
<1>11. CASE Finish(t) /\ job[t].op = "stranded"
    <2>1. job'[t] = NoJob /\ at'[t] = "idle" BY <1>1, <1>11, EndOfJob
    <2>2. ~ksMarker'
        <3>1. CASE at[t] = "down" BY <1>9, <3>1
        <3>2. CASE NothingToHeal(t)
            BY <1>3, <1>9, <1>11, <3>2 DEF NothingToHeal, Reverts, Launching
        <3>3. CASE Revert(t) \/ OffAnswered(t) \/ RestoreAnswered(t)
            <4>1. at'[t] \in {"off", "restore", "down"}
                BY <1>1, <1>3, <3>3 DEF Revert, OffAnswered, RestoreAnswered, RestoreDns, Ask, GoTo
            <4>2. QED BY <2>1, <4>1
        <3>4. QED BY <1>6, <3>1, <3>2, <3>3 DEF TakeDown
    <2>3. QED BY <1>8, <2>1, <2>2 DEF Launching, MarkerTold
<1>12. CASE ~Finish(t)
    <2>1. job' = job BY <1>1, <1>12 DEF Stepped
    <2>2. tunnel' = tunnel
        BY <1>6, <1>12 DEF Revert, NothingToHeal, OffAnswered, RestoreAnswered, TakeDown
    <2>3. Launching' BY <1>3, <1>5, <1>7, <1>9, <2>1, <2>2 DEF Launching, Connected
    <2>4. MarkerTold' BY <1>3, <2>1 DEF MarkerTold
    <2>5. QED BY <1>8, <2>3, <2>4
<1>13. QED BY <1>3, <1>10, <1>11, <1>12

(* What a step of the lock's job finds and leaves alone. *)
LockStep ==
    /\ at["lock"] # "idle" /\ job["lock"] # NoJob /\ job["launch"] = NoJob /\ alive
    /\ chain' = chain /\ queue' = queue /\ alive' = alive /\ job'["launch"] = NoJob
    /\ UNCHANGED <<settings, waiting>>
    /\ FirewallDue' <=> FirewallDue
    /\ job["lock"].op \in Ops

(* Every step of the lock's job has the application to itself. *)
LEMMA LockSteps ==
    ASSUME Inv, CourseInv, MarkerInv, Clean, ThreadStep("lock")
    PROVE  LockStep
<1> DEFINE t == "lock"
<1>1. t \in Threads /\ Stepped(t) /\ Moved(t) /\ Marks(t) BY ThreadType, ThreadMarks DEF Threads
<1>2. Alone BY DEF MarkerInv, Clean, Plain
<1>3. job[t] # NoJob /\ alive BY <1>1 DEF Inv, Working, Stepped
<1>4. job["launch"] = NoJob BY <1>2, <1>3 DEF Alone
<1>5. job'["launch"] = NoJob
    <2>1. CASE job' = job BY <1>4, <2>1
    <2>2. CASE Finish(t) BY <1>1, <1>4, <2>2, EndOfJob DEF Inv, TypeOK, Threads
    <2>3. QED BY <1>1, <2>1, <2>2 DEF Stepped
<1>6. UNCHANGED <<settings, waiting>>
    BY DEF ThreadStep, Revert, StandDownBlocked, NothingToHeal,
       OffAnswered, RestoreAnswered, TakeDown, RefuseConnect, StartConnect, BringUp,
       PostConnect, Arm, OnAnswered, Probe, reapplyFirewall
<1>7. FirewallDue' <=> FirewallDue BY <1>6 DEF FirewallDue
<1>8. job[t].op \in Ops
    BY <1>1, <1>3 DEF CourseInv, Course
<1>9. QED BY <1>1, <1>3, <1>4, <1>5, <1>6, <1>7, <1>8 DEF LockStep, Stepped, Marks, machine

(* The lock's job withdraws a warning only to arm, to disarm or to end the session. *)
LEMMA LockKeepsTold ==
    ASSUME Inv, CourseInv, CourseInv', MarkerInv, Clean, Clean', Installed,
           MarkerTold, Following, ThreadStep("lock")
    PROVE  (Launching /\ MarkerTold /\ Following)'
<1> DEFINE t == "lock"
<1> USE DEF Inv, TypeOK, ThreadsOK
<1>1. t \in Threads /\ LockStep BY LockSteps DEF Threads
<1>2. Launching' BY <1>1 DEF LockStep, Launching
<1>3. Marked /\ Removed BY DEF MarkerInv, Clean, Plain
<1>4. Finish(t) => job'[t] = NoJob /\ at'[t] = "idle"
    BY <1>1, EndOfJob DEF LockStep, Ops
<1>5. UNCHANGED armedWith => (Firm' <=> Firm) BY <1>1, FirmStays DEF LockStep
<1> USE DEF LockStep, settings
<1>6. CASE Revert(t)
    <2>1. at[t] = "dead" \/ (at[t] = "start" /\ job[t].op \in {"disconnect", "standdown"})
        BY <1>1, <1>6 DEF Revert, Reverts, Ops
    <2>2. job[t].op # "firewall" /\ job' = job
        BY <1>1, <1>6, <2>1 DEF CourseInv, Course, Revert
    <2>3. CASE MustDisarm
        <3>1. at'[t] = "off" BY <1>1, <1>6, <2>3 DEF Revert, Ask
        <3>2. QED BY <1>2, <2>2, <3>1 DEF MarkerTold, Arming, Following
    <2>4. CASE ~MustDisarm
        <3>1. at'[t] \in {"restore", "down"} /\ ~ksMarker'
            BY <1>1, <1>6, <2>4 DEF Revert, MustDisarm, RestoreDns, Ask, GoTo, markers
        <3>2. QED BY <1>2, <3>1 DEF MarkerTold, Following
    <2>5. QED BY <2>3, <2>4
<1>7. CASE StandDownBlocked(t)
    <2>1. at[t] = "start" /\ at'[t] \in {"restore", "down"}
        BY <1>1, <1>7 DEF StandDownBlocked, RestoreDns, Ask, GoTo
    <2>2. UNCHANGED <<ksMarker, killSwitchFailed, armedWith>>
        BY <1>7 DEF StandDownBlocked, markers, notices
    <2>3. QED BY <1>1, <1>2, <1>5, <2>1, <2>2 DEF MarkerTold, Arming, Following
<1>8. CASE NothingToHeal(t)
    BY <1>1, <1>4, <1>5, <1>8 DEF NothingToHeal, Ops
<1>9. CASE OffAnswered(t)
    <2>1. Ok(t)
        <3>1. "unconfirmed" \notin excused' BY DEF Clean
        <3>2. QED BY <1>9, <3>1 DEF OffAnswered
    <2>2. ~ksMarker' BY <1>9, <2>1 DEF OffAnswered, MarkerAfterOff
    <2>3. CASE job[t].op = "firewall"
        <3>1. Finish(t) /\ at[t] = "off" BY <1>9, <2>3 DEF OffAnswered, Answered
        <3>2. FirewallDue \/ ~killSwitch BY <2>3, <3>1 DEF Following
        <3>3. QED BY <1>1, <1>2, <1>4, <2>2, <3>1, <3>2 DEF MarkerTold, Following, Kept
    <2>4. CASE job[t].op # "firewall"
        <3>1. at'[t] \in {"restore", "down"}
            BY <1>1, <1>9, <2>4 DEF OffAnswered, RestoreDns, Ask, GoTo
        <3>2. QED BY <1>1, <1>2, <2>2, <3>1 DEF MarkerTold, Following
    <2>5. QED BY <2>3, <2>4
<1>10. CASE RestoreAnswered(t)
    <2>1. at'[t] = "down" /\ at[t] = "restore" BY <1>1, <1>10 DEF RestoreAnswered, Answered, GoTo
    <2>2. UNCHANGED <<ksMarker, killSwitchFailed, armedWith>>
        BY <1>10 DEF RestoreAnswered, notices
    <2>3. QED BY <1>1, <1>2, <1>5, <2>1, <2>2 DEF MarkerTold, Arming, Following
<1>11. CASE TakeDown(t)
    <2>1. at[t] = "down" /\ at'[t] = "idle" BY <1>4, <1>11 DEF TakeDown
    <2>2. UNCHANGED <<ksMarker, killSwitchFailed, armedWith>>
        BY <1>11 DEF TakeDown, markers
    <2>3. MarkerTold' BY <1>1, <1>5, <2>1, <2>2 DEF MarkerTold, Arming
    <2>4. tunnel' = NoHost BY <1>1, <1>11 DEF TakeDown, Ops
    <2>5. QED BY <2>1, <2>3, <2>4, <1>2 DEF Following, Supervised
<1>12. CASE RefuseConnect(t)
    <2>1. at[t] = "start" /\ job[t].op # "firewall" /\ at'[t] = "idle"
        BY <1>1, <1>4, <1>12 DEF RefuseConnect
    <2>2. UNCHANGED <<ksMarker, killSwitchFailed, armedWith, tunnel, desired>>
        BY <1>12 DEF RefuseConnect, markers, notices, session
    <2>3. MarkerTold' BY <1>1, <1>5, <2>1, <2>2 DEF MarkerTold, Arming
    <2>4. Supervised' => Kept'
        BY <1>1, <1>5, <2>1, <2>2 DEF Following, Supervised, Kept
    <2>5. QED BY <1>2, <2>1, <2>3, <2>4 DEF Following
<1>13. CASE StartConnect(t)
    <2>1. at[t] = "start" /\ at'[t] = "up" BY <1>1, <1>13 DEF StartConnect, GoTo
    <2>2. UNCHANGED <<ksMarker, killSwitchFailed, armedWith, tunnel, desired>>
        BY <1>13 DEF StartConnect, markers
    <2>3. MarkerTold' BY <1>1, <1>5, <2>1, <2>2 DEF MarkerTold, Arming
    <2>4. ~Supervised
        BY <1>13 DEF StartConnect, Connected, Supervised, CourseInv, Settled
    <2>5. QED BY <1>2, <2>1, <2>2, <2>3, <2>4 DEF Following, Supervised
<1>14. CASE BringUp(t)
    <2>1. at[t] = "up" /\ ~Supervised BY <1>14 DEF BringUp, Following
    <2>2. UNCHANGED <<ksMarker, killSwitchFailed, armedWith, desired>>
        BY <1>14 DEF BringUp, markers, notices, session
    <2>3. at'[t] = "post" \/ (at'[t] = "idle" /\ ~Supervised')
        BY <1>1, <1>4, <1>14, <2>1, <2>2 DEF BringUp, GoTo, Supervised
    <2>4. MarkerTold' BY <1>1, <1>5, <2>1, <2>2, <2>3 DEF MarkerTold, Arming
    <2>5. QED BY <1>2, <2>3, <2>4 DEF Following
<1>15. CASE PostConnect(t)
    <2>1. /\ at[t] = "post" /\ at'[t] \in {"set", "arm"}
          /\ snap'.killSwitch = killSwitch /\ snap'.lan = lanSharing
          /\ UNCHANGED <<ksMarker, armedWith>>
        BY <1>1, <1>15 DEF PostConnect, OverrideDns, ReadSettings, Ask, GoTo
    <2>2. Following' BY <1>1, <2>1 DEF Following
    <2>3. MarkerTold'
        <3>1. ~(ksMarker /\ killSwitchFailed /\ ~killSwitch)
            <4>1. "forgotten" \notin excused' BY DEF Clean
            <4>2. QED BY <1>15, <4>1 DEF PostConnect
        <3>2. QED BY <1>1, <1>5, <2>1, <3>1 DEF MarkerTold, Arming
    <2>4. QED BY <1>2, <2>2, <2>3
<1>16. CASE Arm(t)
    <2>1. at[t] \in {"arm", "set"} BY <1>16 DEF Arm, Answered
    <2>2. FirewallDue \/ (snap.killSwitch = killSwitch /\ snap.lan = lanSharing)
        BY <2>1 DEF Following
    <2>3. CASE UNCHANGED ksMarker /\ GoOn(t)
        <3>1. at'[t] \in {"idle", "probe"} BY <1>1, <1>4, <2>3 DEF GoOn, GoTo
        <3>2. UNCHANGED armedWith BY <1>16 DEF Arm
        <3>3. (~snap.killSwitch /\ UNCHANGED killSwitchFailed) \/ killSwitchFailed'
            BY <1>1, <1>4, <1>16, <2>1, <2>3 DEF Arm, Ask, GoOn, GoTo
        <3>4. Kept' BY <1>1, <2>2, <3>3 DEF Kept
        <3>5. MarkerTold'
            BY <1>1, <1>5, <2>1, <2>3, <3>2, <3>3 DEF MarkerTold, Arming
        <3>6. QED BY <1>2, <3>1, <3>4, <3>5 DEF Following
    <2>4. CASE Ask(t, "on", [host |-> snap.host, lan |-> snap.lan])
        <3>1. at'[t] = "on" /\ call'[t].with.lan = snap.lan BY <1>1, <2>4 DEF Ask
        <3>2. QED BY <1>1, <1>2, <2>2, <3>1 DEF MarkerTold, Arming, Following
    <2>5. QED BY <1>16, <2>3, <2>4 DEF Arm
<1>17. CASE OnAnswered(t)
    <2>1. at[t] = "on" /\ at'[t] \in {"idle", "probe"}
        BY <1>1, <1>4, <1>17 DEF OnAnswered, Answered, GoOn, GoTo
    <2>2. CASE ~Ok(t)
        <3>1. killSwitchFailed' BY <1>17, <2>2 DEF OnAnswered
        <3>2. QED BY <1>2, <2>1, <3>1 DEF MarkerTold, Following, Kept
    <2>3. CASE Ok(t)
        <3>1. chain = call[t].with /\ queue = <<>> /\ armedWith' = call[t].with
            BY <1>1, <1>17, <2>1, <2>3 DEF OnAnswered, Installed
        <3>2. Len(queue) = 0 BY <3>1
        <3>3. call[t].with # NoChain BY <1>1, <2>1 DEF CourseInv, Named, NoChain
        <3>4. Firm' BY <1>1, <3>1, <3>2, <3>3 DEF Firm, Blocked
        <3>5. FirewallDue \/ ~killSwitch \/ call[t].with.lan = lanSharing
            BY <2>1 DEF Following
        <3>6. Kept' BY <1>1, <3>1, <3>4, <3>5 DEF Kept
        <3>7. QED BY <1>2, <2>1, <3>4, <3>6 DEF MarkerTold, Following
    <2>4. QED BY <2>2, <2>3
<1>18. CASE Probe(t)
    <2>1. at[t] = "probe" /\ at'[t] \in {"idle", "dead"}
        BY <1>1, <1>4, <1>18 DEF Probe, GoTo
    <2>2. UNCHANGED <<ksMarker, killSwitchFailed, armedWith>>
        BY <1>18 DEF Probe, markers, notices
    <2>3. MarkerTold' BY <1>1, <1>5, <2>1, <2>2 DEF MarkerTold, Arming
    <2>4. Kept' BY <1>1, <1>5, <2>1, <2>2 DEF Following, Kept
    <2>5. QED BY <1>2, <2>1, <2>3, <2>4 DEF Following
<1>19. CASE reapplyFirewall(t)
    <2>1. at[t] = "start" /\ UNCHANGED <<armedWith, tunnel, desired>>
        BY <1>19 DEF reapplyFirewall, session
    <2>2. ksMarker => killSwitchFailed \/ Firm BY <1>1, <2>1 DEF MarkerTold, Arming
    <2>3. CASE Disarm(t)
        <3>1. at'[t] = "off" /\ ~killSwitch
            BY <1>1, <2>3 DEF Disarm, Ask, decideFirewallAction
        <3>2. QED BY <1>1, <1>2, <3>1 DEF MarkerTold, Arming, Following
    <2>4. CASE Rearm(t)
        <3>1. at'[t] = "on" /\ call'[t].with.lan = lanSharing BY <1>1, <2>4 DEF Rearm, Ask
        <3>2. QED BY <1>1, <1>2, <3>1 DEF MarkerTold, Arming, Following
    <2>5. CASE ArmLive(t)
        <3>1. /\ at'[t] \in {"set", "arm"} /\ killSwitch
              /\ snap'.killSwitch = killSwitch /\ snap'.lan = lanSharing
            BY <1>1, <2>5 DEF ArmLive, OverrideDns, ReadSettings, Ask, GoTo, decideFirewallAction
        <3>2. QED BY <1>1, <1>2, <3>1 DEF MarkerTold, Arming, Following
    <2>6. CASE LeaveFirewall(t)
        <3>1. at'[t] = "idle" /\ UNCHANGED ksMarker BY <1>4, <2>6 DEF LeaveFirewall, markers
        <3>2. MarkerTold'
            BY <1>1, <1>5, <2>1, <2>2, <2>6, <3>1 DEF MarkerTold, LeaveFirewall
        <3>3. Supervised' => Kept'
            <4>1. CASE decideFirewallAction = "none" /\ UNCHANGED killSwitchFailed
                BY <1>1, <1>5, <2>1, <2>2, <4>1 DEF decideFirewallAction, Kept, Supervised
            <4>2. CASE /\ decideFirewallAction = "rearm" /\ armedWith = NoChain
                       /\ UNCHANGED killSwitchFailed
                BY <1>1, <2>2, <4>2 DEF decideFirewallAction, Kept, Firm, Blocked
            <4>3. CASE killSwitchFailed' BY <4>3 DEF Kept
            <4>4. QED BY <2>6, <4>1, <4>2, <4>3 DEF LeaveFirewall
        <3>4. QED BY <1>2, <3>1, <3>2, <3>3 DEF Following
    <2>7. QED BY <1>19, <2>3, <2>4, <2>5, <2>6 DEF reapplyFirewall
<1>20. QED
    BY <1>6, <1>7, <1>8, <1>9, <1>10, <1>11, <1>12, <1>13, <1>14, <1>15, <1>16, <1>17,
       <1>18, <1>19 DEF ThreadStep

(* Nobody but the lock's job has a verb in hand that could move a chain it relies on. *)
LEMMA CallKeepsTold ==
    ASSUME Inv, CourseInv, MarkerInv, Clean, Launching, MarkerTold, Following,
           NEW t \in Threads, CallStep(t)
    PROVE  (Launching /\ MarkerTold /\ Following)'
<1> USE DEF Inv, TypeOK, ThreadsOK, MachineOK
<1>1. Alone BY DEF MarkerInv, Clean, Plain
<1>2. /\ UNCHANGED <<at, job, waiting, snap, armedWith, chain, tunnel, alive, ksMarker,
                     killSwitchFailed, killSwitch, lanSharing, active, desired>>
      /\ at[t] \in Verbs
    BY DEF CallStep, Arrives, IsRefused, TimesOut, markers, machine, settings, session,
       notices, Calling
<1>3. \A u \in Threads : call'[u].with = call[u].with
    <2>1. \E state \in {"queued", "failed"} : call' = [call EXCEPT ![t].state = state]
        BY DEF CallStep, Arrives, IsRefused, TimesOut
    <2>2. QED BY <2>1 DEF Calls
<1>4. Launching' BY <1>2 DEF Launching, Connected
<1>5. CASE t = "launch"
    <2>1. job["launch"] # NoJob /\ at["lock"] = "idle"
        BY <1>1, <1>2, <1>5, OtherRests DEF Working, Verbs, Threads
    <2>2. ~desired BY <2>1 DEF Launching, CourseInv, Settled
    <2>3. QED BY <1>2, <1>4, <2>1, <2>2 DEF MarkerTold, Following, Supervised
<1>6. CASE t = "lock"
    <2>1. at["lock"] \in Verbs BY <1>2, <1>6
    <2>2. Following' BY <1>2, <1>3, <1>6, <2>1 DEF Following, FirewallDue, Verbs
    <2>3. at["lock"] \in {"set", "restore"} /\ Firm => Firm'
        <3>1. at["lock"] \in {"set", "restore"} => \A i \in 1..Len(queue') :
                  \/ \E k \in 1..Len(queue) : queue'[i].verb = queue[k].verb
                  \/ queue'[i].verb \notin {"on", "off"}
            <4>1. CASE Arrives(t)
                <5>1. /\ Len(queue') = Len(queue) + 1 /\ Len(queue) \in Nat
                      /\ queue'[Len(queue) + 1].verb = at[t]
                      /\ \A i \in 1..Len(queue) : queue'[i] = queue[i]
                    BY <4>1 DEF Arrives
                <5>2. QED BY <1>6, <5>1
            <4>2. CASE IsRefused(t) BY <4>2 DEF IsRefused
            <4>3. CASE TimesOut(t) BY <4>3, DisownType DEF TimesOut
            <4>4. QED BY <4>1, <4>2, <4>3 DEF CallStep
        <3>2. QED BY <1>2, <3>1, FirmUnderCalls
    <2>4. MarkerTold' BY <1>2, <2>1, <2>3 DEF MarkerTold, Arming, Verbs
    <2>5. QED BY <1>4, <2>2, <2>4
<1>7. QED BY <1>5, <1>6 DEF Threads

(* The helper, the user, the lock and the application's own end and start. *)
LEMMA RestKeepsTold ==
    ASSUME Inv, CourseInv, CourseInv', MarkerInv, Clean, Clean',
           Launching, MarkerTold, Following,
           Request \/ StartJob \/ VerbRuns \/ DaemonDies \/ Exit \/ Reboot \/ Launch
    PROVE  (Launching /\ MarkerTold /\ Following)'
<1> USE DEF Inv, TypeOK, ThreadsOK, MachineOK
<1>1. CASE VerbRuns \/ DaemonDies
    <2>1. /\ UNCHANGED <<at, job, waiting, snap, armedWith, tunnel, alive, ksMarker,
                         killSwitchFailed, killSwitch, lanSharing, active, desired>>
        BY <1>1 DEF VerbRuns, DaemonDies, markers, settings, session, notices, history
    <2>2. call'["lock"].with = call["lock"].with
        BY <1>1 DEF VerbRuns, DaemonDies, ArmVerb, DisarmVerb, SetDnsVerb, RestoreVerb,
           Answer, Calls, Threads
    <2>3. Firm => Firm'
        <3>1. CASE VerbRuns
            <4>1. /\ Len(queue) \in Nat \ {0} /\ Head(queue) = queue[1]
                  /\ \A i \in 1..Len(queue') : queue'[i] = queue[i + 1] /\ i + 1 \in 1..Len(queue)
                BY <3>1 DEF VerbRuns
            <4>2. queue[1].verb \notin {"on", "off"} => chain' = chain
                BY <3>1, <4>1 DEF VerbRuns
            <4>3. QED BY <2>1, <4>1, <4>2 DEF Firm, Blocked
        <3>2. CASE DaemonDies
            <4>1. Len(queue') = 0 /\ chain' = chain BY <3>2 DEF DaemonDies, machine
            <4>2. QED BY <2>1, <4>1 DEF Firm, Blocked
        <3>3. QED BY <1>1, <3>1, <3>2
    <2>4. Launching' BY <2>1 DEF Launching, Connected
    <2>5. MarkerTold' BY <2>1, <2>3 DEF MarkerTold, Arming
    <2>6. FirewallDue' <=> FirewallDue BY <2>1 DEF FirewallDue
    <2>7. Kept => Kept' BY <2>1, <2>3, <2>6 DEF Kept
    <2>8. Following' BY <2>1, <2>2, <2>6, <2>7 DEF Following, Supervised
    <2>9. QED BY <2>4, <2>5, <2>8
<1>2. CASE Request
    <2>1. PICK j : Enqueue(j) /\ (UNCHANGED settings \/ j.op = "firewall")
        <3>1. CASE ToggleKillSwitch \/ ToggleLanSharing
            BY <3>1 DEF ToggleKillSwitch, ToggleLanSharing, JobOf
        <3>2. CASE RequestConnect \/ RequestDisconnect \/ StandDown
            BY <3>2 DEF RequestConnect, RequestDisconnect, StandDown
        <3>3. QED BY <1>2, <3>1, <3>2 DEF Request
    <2>2. tunnel' = tunnel \/ (desired /\ tunnel' = NoHost)
        BY <1>2 DEF Request, RequestConnect, RequestDisconnect, StandDown, ToggleKillSwitch,
           ToggleLanSharing, settings
    <2>3. /\ UNCHANGED <<at, job, call, snap, armedWith, chain, queue, alive, ksMarker,
                         killSwitchFailed, active, desired>>
        BY <2>1 DEF Enqueue, markers, machine, session, notices, threads
    <2>4. /\ Len(waiting) \in Nat /\ Len(waiting') = Len(waiting) + 1
          /\ waiting'[Len(waiting) + 1] = j
          /\ \A i \in 1..Len(waiting) : waiting'[i] = waiting[i]
        <3>1. waiting' = Append(waiting, j) BY <2>1 DEF Enqueue
        <3>2. QED BY <3>1
    <2>5. (FirewallDue => FirewallDue') /\ (UNCHANGED settings \/ FirewallDue')
        BY <2>1, <2>4 DEF FirewallDue
    <2>6. Firm' <=> Firm BY <2>3, FirmStays
    <2>7. Launching' BY <2>2, <2>3 DEF Launching, Connected, CourseInv, Settled
    <2>8. MarkerTold' BY <2>3, <2>6 DEF MarkerTold, Arming
    <2>9. Following' BY <2>2, <2>3, <2>5, <2>6 DEF Following, Supervised, Kept, settings
    <2>10. QED BY <2>7, <2>8, <2>9
<1>3. CASE StartJob
    <2>1. job["launch"] = NoJob
        <3>1. "overlap" \notin excused' BY DEF Clean
        <3>2. QED BY <1>3, <3>1 DEF StartJob
    <2>2. /\ job'["launch"] = NoJob /\ job'["lock"] = Head(waiting) /\ at'["lock"] = "start"
          /\ UNCHANGED <<armedWith, chain, queue, alive, ksMarker, tunnel, killSwitch, lanSharing,
                         killSwitchFailed, desired>>
        BY <1>3, <2>1 DEF StartJob, markers, machine, session, notices, settings, Threads
    <2>3. at["lock"] = "idle"
        BY <1>3 DEF StartJob, Working, Threads
    <2>4. Firm' <=> Firm BY <2>2, FirmStays
    <2>5. FirewallDue => Head(waiting).op = "firewall" \/ FirewallDue'
        <3>1. waiting # <<>> /\ waiting' = Tail(waiting) BY <1>3 DEF StartJob
        <3>2. /\ Len(waiting) \in Nat \ {0} /\ Head(waiting) = waiting[1]
              /\ Len(waiting') = Len(waiting) - 1
              /\ \A i \in 1..Len(waiting') : waiting'[i] = waiting[i + 1]
            BY <3>1
        <3>3. SUFFICES ASSUME NEW i \in 1..Len(waiting), waiting[i].op = "firewall", i # 1
                       PROVE  FirewallDue'
            BY <3>2 DEF FirewallDue
        <3>4. i - 1 \in 1..Len(waiting') /\ waiting'[i - 1] = waiting[i] BY <3>2, <3>3
        <3>5. QED BY <3>3, <3>4 DEF FirewallDue
    <2>6. MarkerTold' BY <2>1, <2>2, <2>3, <2>4 DEF MarkerTold, Arming
    <2>7. Following'
        BY <2>2, <2>3, <2>4, <2>5 DEF Following, Supervised, Kept
    <2>8. QED BY <2>2, <2>6, <2>7 DEF Launching
<1>4. CASE Exit \/ Reboot
    <2>1. ~alive' /\ ~desired' /\ job' = NoJobs /\ at' = AtRest
        BY <1>4 DEF Exit, Reboot, AppEnds
    <2>2. QED BY <2>1 DEF Launching, MarkerTold, Following, Supervised, NoJobs, AtRest, Threads
<1>5. CASE Launch
    <2>1. /\ job'["launch"] = JobOf("orphan") /\ at'["launch"] = "start" /\ at'["lock"] = "idle"
          /\ ~active /\ ~desired /\ active' = active /\ desired' = desired
        BY <1>5 DEF Launch, Working, Threads, CourseInv, Settled, session
    <2>2. JobOf("orphan") # NoJob /\ JobOf("orphan").op # "stranded" BY DEF JobOf, NoJob
    <2>3. QED BY <2>1, <2>2 DEF Launching, MarkerTold, Following, Supervised
<1>6. QED BY <1>1, <1>2, <1>3, <1>4, <1>5

(* The invariant of what the user is told is kept, and holds at first. *)
LEMMA ToldInductive ==
    /\ Init => ToldInv
    /\ Inv /\ CourseInv /\ Carried /\ MarkerInv /\ ToldInv /\ [Next]_vars
           /\ CourseInv' /\ MarkerInv' => ToldInv'
<1>1. Init => ToldInv
    BY DEF Init, ToldInv, Installed, Launching, MarkerTold, Following, Supervised, NoJobs,
       AtRest, Threads
<1>2. ASSUME ToldInv, UNCHANGED vars PROVE ToldInv'
    BY <1>2 DEF ToldInv, Clean, Installed, Launching, MarkerTold, Following, Supervised, Kept,
       Firm, FirewallDue, Arming, Blocked, Connected, Ok, vars, markers, settings, machine,
       session, notices, threads, history
<1>3. ASSUME Inv, CourseInv, CourseInv', Carried, MarkerInv, MarkerInv', ToldInv, Next, Clean'
      PROVE  (Installed /\ Launching /\ MarkerTold /\ Following)'
    <2>1. Clean /\ Plain /\ Installed /\ Launching /\ MarkerTold /\ Following
        BY <1>3, CleanStays DEF Clean, Plain, ToldInv
    <2>2. Installed' BY <1>3, <2>1, InstalledKept
    <2>3. (Launching /\ MarkerTold /\ Following)'
        BY <1>3, <2>1, LaunchKeepsTold, LockKeepsTold, CallKeepsTold, RestKeepsTold
        DEF Next, Threads
    <2>4. QED BY <2>2, <2>3
<1>4. QED BY <1>1, <1>2, <1>3 DEF ToldInv

(* The invariants hold together. *)
LEMMA ToldAlways ==
    Spec => [](Inv /\ CourseInv /\ MarkerInv /\ ToldInv)
<1>1. Spec => [](Inv /\ Recoverable /\ CourseInv /\ Carried /\ MarkerInv)
    BY InvInductive, RecoverableInductive, CourseInductive, CarriedInductive,
       MarkersInductive, PTL DEF Spec
<1>2. QED BY <1>1, ToldInductive, PTL DEF Spec

(* When nothing is left to do, the setting is kept or the user told. *)
LEMMA QuietIsKept ==
    ASSUME Inv, MarkerInv, ToldInv, Quiet, Supervised, killSwitch, excused = {}
    PROVE  killSwitchFailed \/ (Firm /\ armedWith.lan = lanSharing)
<1>1. at["lock"] = "idle" /\ Following
    BY DEF Inv, Working, Quiet, ToldInv, Clean, NoJobs, Threads
<1>2. ~FirewallDue BY DEF Quiet, FirewallDue
<1>3. QED BY <1>1, <1>2 DEF Following, Kept

(* Once the toggles and connects are through, a supervised tunnel under the kill switch has *)
(* its chain or the user is told it has none: however the toggles fell between the steps of a *)
(* connect, and whatever was refused, late or lost. *)
THEOREM ProtectedStaysTold == Spec => []ProtectedOrTold
<1>1. Inv /\ MarkerInv /\ ToldInv => ProtectedOrTold
    BY QuietIsKept DEF ProtectedOrTold, Firm
<1>2. QED BY <1>1, ToldAlways, PTL

(* ... and the chain lets the LAN through exactly when the user shares it. *)
THEOREM LanStaysAsSet == Spec => []LanIsAsSet
<1>1. Inv /\ MarkerInv /\ ToldInv => LanIsAsSet
    BY QuietIsKept DEF LanIsAsSet, Firm
<1>2. QED BY <1>1, ToldAlways, PTL

=============================================================================
