---------------------------- MODULE TaskExecution ----------------------------
(***************************************************************************)
(* The execution of tasks (runtime/task_execution_service.py) over the      *)
(* books of the budget manager.  execute() is a coroutine on the event      *)
(* loop: what it does between two awaits is one action, and the actions of  *)
(* other executions, of the policy refresh and of the operator come in      *)
(* between.  It awaits the events it publishes (_emit_execution_event       *)
(* swallows their failures) and the provider's answer.                      *)
(*                                                                         *)
(* The provider that is resolved, the model, the task family, the prompt    *)
(* and the governance tests are abstracted to their outcomes.               *)
(***************************************************************************)
EXTENDS BudgetLedger

CONSTANTS
    Executions,     \* calls of execute()
    TaskOf,         \* the task id in the request of each
    MaxRestarts     \* bound: the process ends and starts again this often

ASSUME ExecutionAssumption ==
    /\ TaskOf \in [Executions -> Tasks]
    /\ MaxRestarts \in Nat

VARIABLES
    pc,         \* the await an execution is at, or how it ended
    plan,       \* the provider it was resolved to
    reserved,   \* the books its reservation went into, with their windows
    served,     \* the provider that answered
    spend,      \* the cost in its answer
    active,     \* tasks in the lifecycle tracker's active_tasks
    restarts

execVars == <<pc, plan, reserved, served, spend, active, restarts>>
vars == <<ledgerVars, execVars>>

None == <<>>        \* no provider

\* Between which awaits an execution is.
Reserving == {"received", "selected"}
Holding == {"reserved", "executing", "answered"}
Running == Reserving \cup Holding \cup {"refused", "settled"}
\* How it ends.  The results rejected, unsupported and degraded before the dispatch
\* are "rejected", those of a dispatch that raised are "failed".
Ends == {"rejected", "failed", "completed"}
\* ... when the process does: before its reservation, with it, or after settling it.
\* "lost" too when its result raises: nobody ends the reservation.
CutOff == {"cut", "lost", "unanswered"}

Goto(e, to) == pc' = [pc EXCEPT ![e] = to]

\* ExecutionLifecycleTracker.update: a terminal state takes the record out, any other
\* puts it in, by task id.
Track(e) == active' = active \cup {TaskOf[e]}
Untrack(e) == active' = active \ {TaskOf[e]}

---------------------------------------------------------------------------
(* execute(), one action per stretch between awaits.                        *)

Receive(e) ==
    /\ pc[e] = "idle"
    /\ Goto(e, "received")
    /\ UNCHANGED <<ledgerVars, plan, reserved, served, spend, active, restarts>>

\* Task family, prompt, governance, or the resolution of a provider says no.
Reject(e) ==
    /\ pc[e] = "received"
    /\ Goto(e, "rejected")
    /\ Untrack(e)
    /\ UNCHANGED <<ledgerVars, plan, reserved, served, spend, restarts>>

Select(e) ==
    /\ pc[e] = "received"
    /\ Goto(e, "selected")
    /\ Track(e)
    /\ \E p \in Providers : plan' = [plan EXCEPT ![e] = p]
    /\ UNCHANGED <<ledgerVars, reserved, served, spend, restarts>>

\* The governance bundle has changed since and refuses the provider.
RejectSelected(e) ==
    /\ pc[e] = "selected"
    /\ Goto(e, "rejected")
    /\ Untrack(e)
    /\ UNCHANGED <<ledgerVars, plan, reserved, served, spend, restarts>>

Reserve(e) ==
    /\ pc[e] = "selected"
    /\ \E k \in Kinds, c \in Costs :
          LET r == <<k, plan[e]>>
          IN  \/ /\ Admit(TaskOf[e], r, c)
                 /\ Goto(e, "reserved")
                 /\ reserved' = [reserved EXCEPT ![e] =
                       {<<a, Window(Cached, a)>> : a \in Targets(Cached, r)}]
              \/ /\ Deny(TaskOf[e], r, c)
                 /\ Goto(e, "refused")
                 /\ UNCHANGED reserved
    /\ UNCHANGED <<plan, served, spend, active, restarts>>

Refuse(e) ==
    /\ pc[e] = "refused"
    /\ Goto(e, "rejected")
    /\ Untrack(e)
    /\ UNCHANGED <<ledgerVars, plan, reserved, served, spend, restarts>>

\* queued_local, executing, and the call of the task router.
Dispatch(e) ==
    /\ pc[e] = "reserved"
    /\ Goto(e, "executing")
    /\ Track(e)
    /\ UNCHANGED <<ledgerVars, plan, reserved, served, spend, restarts>>

\* The execution router tries the planned provider first, then every other one that
\* is registered and not unavailable; the first answer counts.
Answer(e) ==
    /\ pc[e] = "executing"
    /\ Goto(e, "answered")
    /\ Untrack(e)
    /\ \E p \in Providers, s \in Spends \cup {Unknown} :
          /\ served' = [served EXCEPT ![e] = p]
          /\ spend' = [spend EXCEPT ![e] = s]
    /\ UNCHANGED <<ledgerVars, plan, reserved, restarts>>

\* Fault: a failed dispatch keeps its reservation.
Fail_NoRelease(e) ==
    /\ pc[e] = "executing"
    /\ Goto(e, "failed")
    /\ Untrack(e)
    /\ UNCHANGED <<ledgerVars, plan, reserved, served, spend, restarts>>

\* Fault: a failed dispatch is settled like a completed one.
Fail_Finalizes(e) ==
    /\ pc[e] = "executing"
    /\ Finalize(TaskOf[e], Unknown)
    /\ Goto(e, "failed")
    /\ Untrack(e)
    /\ UNCHANGED <<plan, reserved, served, spend, restarts>>

\* The handler refuses the inputs, or no provider answers.
Fail(e) ==
    /\ pc[e] = "executing"
    /\ Release(TaskOf[e])
    /\ Goto(e, "failed")
    /\ Untrack(e)
    /\ UNCHANGED <<plan, reserved, served, spend, restarts>>

Settle(e) ==
    /\ pc[e] = "answered"
    /\ Finalize(TaskOf[e], spend[e])
    /\ Goto(e, "settled")
    /\ UNCHANGED <<plan, reserved, served, spend, active, restarts>>

\* The result of a strange answer (a model id that is blank or too long, a negative
\* amount) does not validate: execute() raises before it comes to the settlement.
ResultRaises(e) ==
    /\ pc[e] = "answered"
    /\ Goto(e, "lost")
    /\ UNCHANGED <<ledgerVars, plan, reserved, served, spend, active, restarts>>

Finish(e) ==
    /\ pc[e] = "settled"
    /\ Goto(e, "completed")
    /\ UNCHANGED <<ledgerVars, plan, reserved, served, spend, active, restarts>>

\* The process ends and starts again: the state file is kept, and nothing at start
\* looks at the reservations in it.
Restart ==
    /\ restarts < MaxRestarts
    /\ restarts' = restarts + 1
    /\ pc' = [e \in Executions |->
                CASE pc[e] \in Reserving \cup {"refused"} -> "cut"
                  [] pc[e] \in Holding -> "lost"
                  [] pc[e] = "settled" -> "unanswered"
                  [] OTHER -> pc[e]]
    /\ active' = {}
    /\ replies' = {}
    /\ UNCHANGED <<day, core, bundle, policy, budget, book, history>>
    /\ UNCHANGED <<plan, reserved, served, spend>>

---------------------------------------------------------------------------

Init ==
    /\ LedgerInit
    /\ pc = [e \in Executions |-> "idle"]
    /\ plan = [e \in Executions |-> None]
    /\ reserved = [e \in Executions |-> {}]
    /\ served = [e \in Executions |-> None]
    /\ spend = [e \in Executions |-> Unknown]
    /\ active = {}
    /\ restarts = 0

Advance(e) ==
    \/ Reject(e) \/ Select(e) \/ RejectSelected(e) \/ Reserve(e) \/ Refuse(e)
    \/ Dispatch(e) \/ Answer(e) \/ Fail(e) \/ Settle(e) \/ Finish(e)

World == Environment /\ UNCHANGED execVars

Next == Restart \/ World \/ \E e \in Executions : Receive(e) \/ Advance(e) \/ ResultRaises(e)

Spec == Init /\ [][Next]_vars

\* The event loop resumes every coroutine whose await is over; publishing ends or
\* fails, and the adapters' HTTP clients time out.
FairSpec == Spec /\ \A e \in Executions : WF_vars(Advance(e))

---------------------------------------------------------------------------
(* Properties.                                                              *)

Held(e) == {x[1] : x \in reserved[e]}
Spent(e) == pc[e] \in {"settled", "completed", "unanswered"}

\* Types of the coroutines' locals and of the tracker.
TypeOK ==
    /\ LedgerTypeOK
    /\ pc \in [Executions -> {"idle"} \cup Running \cup Ends \cup CutOff]
    /\ plan \in [Executions -> Providers \cup {None}]
    /\ reserved \in [Executions -> SUBSET (Accounts \X (Nat \X Nat))]
    /\ served \in [Executions -> Providers \cup {None}]
    /\ spend \in [Executions -> Spends \cup {Unknown}]
    /\ active \subseteq Tasks /\ restarts \in 0..MaxRestarts

\* Every reservation in the books has an owner: an execution of that task that was
\* admitted and has neither settled nor released it, or one that died with the
\* process or raised (the service pairs reserve_execution with release_execution or
\* finalize_execution on each of its other paths; a refusal reserves nothing).
ReservationsAreOwned ==
    \A a \in Accounts, t \in Tasks : book[a].res[t] # Free =>
        \E e \in Executions : TaskOf[e] = t /\ pc[e] \in Holding \cup {"lost"}

\* While policies leave the grants their periods, an execution that was admitted has its
\* money in every book that admitted it until it settles or fails: the end of another task,
\* a change of the limits or of the provider budgets, or the clock never takes it away.
WorkIsFunded ==
    \A e \in Executions : pc[e] \in Holding =>
        \A a \in Held(e) : book[a].res[TaskOf[e]] # Free

\* Under such policies a book shows exactly what the tasks it admitted have cost, to
\* the provider's rounding: nothing is charged twice, to the wrong book, or lost.
\* (An unknown cost is the reservation, which the run makes the same for all.)
UsageIsSpend ==
    \A a \in Accounts :
        book[a].used = SumFunction([e \in Executions |->
            IF Spent(e) /\ a \in Held(e)
            THEN Charge(a, CHOOSE c \in Costs : TRUE, spend[e]) ELSE 0])

\* A reservation is not kept, the tasks of others get the money back or it is spent,
\* unless the execution was cut off with it.
Abandoned(t) == \E e \in Executions : TaskOf[e] = t /\ pc[e] = "lost"
ReservationsEnd ==
    \A a \in Accounts, t \in Tasks :
        book[a].res[t] # Free ~> book[a].res[t] = Free \/ Abandoned(t)

\* An execution, and the books, as Settlement sees them.
Phase(state) == CASE state \in Holding -> "held"
                  [] state \in {"settled", "completed", "unanswered"} -> "settled"
                  [] state = "failed" -> "dropped"
                  [] state = "lost" -> "lost"
                  [] OTHER -> "new"
phases == [e \in Executions |-> Phase(pc[e])]
holders == [a \in Accounts |-> {e \in Executions : book[a].res[TaskOf[e]] # Free}]
amounts == [a \in Accounts |-> book[a].used]

Promise == INSTANCE Settlement WITH
    Work <- Executions, phase <- phases, holders <- holders, used <- amounts

\* When every execution has a task id of its own, executions and books together
\* implement Settlement: each hold ends once, and a book's usage grows only by
\* ending a hold on it.
KeepsSettlement == Promise!Spec
=============================================================================
