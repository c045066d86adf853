---------------------------- MODULE PromptRegistry ----------------------------
(***************************************************************************)
(* One prompt in the registry of the node (prompts/registry.py, prompts/    *)
(* registration.py), its file (persistence/prompt_service_state_store.py)   *)
(* and the gateway that decides who may execute it (execution/gateway.py).  *)
(*                                                                         *)
(* The endpoints are plain functions, which the server runs on threads of a *)
(* pool; the executions of tasks decide and record on the event loop.  They *)
(* share one registry and no lock.  Its state is an object that save()      *)
(* replaces by a normalised copy, so that a call may go on with an entry of *)
(* an object that is no longer the state.  A call is cut where another      *)
(* thread can come between: entry found, changed, state copied, copy        *)
(* installed, state copied for the file, file written.                      *)
(*                                                                         *)
(* Left out: times, reasons, the history of the lifecycle, the order of two *)
(* increments of one counter, and the temporary file two saves may share.   *)
(***************************************************************************)
EXTENDS FiniteSets, Integers, Sequences

CONSTANTS
    Loop,           \* the event loop
    Threads,        \* the threads of the pool
    None,
    Policies,       \* who may execute a prompt, and how
    Requests,       \* what an execution asks for
    Operations,     \* what the operator may ask for
    MaxVersion,     \* bound: versions of a prompt
    MaxCalls, MaxRestarts       \* bounds

Statuses == {"draft", "probation", "active", "review_due", "restricted", "suspended",
             "retired", "expired"}
Kinds == {"create", "update", "transition", "migrate", "authorize", "record"}
Callers == Threads \cup {Loop}
Versions == 1..MaxVersion

\* normalize_execution_policy, normalize_prompt_constraints, normalize_provider_preferences,
\* normalize_prompt_access_policy
IsPolicy(p) ==
    /\ p.scope \in {"private", "service", "shared", "public"}
    /\ {p.direct, p.schema} \subseteq BOOLEAN
    /\ \A f \in {"providers", "models", "overrides"} : IsFiniteSet(p[f])

ASSUME PromptAssumption ==
    /\ Loop \notin Threads /\ IsFiniteSet(Threads)
    /\ MaxVersion \in Nat \ {0} /\ {MaxCalls, MaxRestarts} \subseteq Nat
    /\ None \notin Versions /\ None \notin Policies /\ None \notin Statuses
    /\ \A p \in Policies : IsPolicy(p)
    /\ \A r \in Requests :
            /\ r.caller \in {"client", "service", "listed", "other"}
            /\ r.version \in Versions \cup {None} /\ r.schema \in BOOLEAN
    /\ \A o \in Operations :
            /\ o.kind \in Kinds \ {"authorize", "record"}
            /\ o.to \in Statuses \cup {None}
            /\ o.policy \in Policies \cup {None}
            /\ o.kind = "create" => o.policy # None  \* a registration has defaults for it
            /\ o.define \in BOOLEAN /\ o.version \in Versions \cup {None}

Entry == [status : Statuses, policy : Policies, versions : SUBSET Versions,
          current : Versions, runs : Nat, denials : Nat]
Calls == Operations \cup [kind : {"authorize"}, allowed : BOOLEAN] \cup [kind : {"record"}]

\* One object for the state, one for each other that a call still refers to, and a new one.
Objects == 0..Cardinality(Threads) + 2

VARIABLES
    heap,       \* what each state object lists: normally at most one entry
    state,      \* the object that is the state of the registry
    file,
    call,       \* the call each caller is in
    used,       \* calls and restarts so far
    alone,      \* history: whether the last call overlapped no other
    expected,   \* history: what it should leave
    held        \* history: a suspension is under way (pending) or has returned (held), and the
                \* operator has asked for nothing since

vars == <<heap, state, file, call, used, alone, expected, held>>

Idle == [at |-> "idle"]
Busy == {c \in Callers : call[c].at # "idle"}
State == heap[state]

---------------------------------------------------------------------------
(* The gateway.                                                             *)

\* ExecutionGateway._is_caller_allowed
CallerAllowed(scope, caller) ==
    CASE scope = "public" -> TRUE
      [] scope = "private" -> caller \in {"client", "service"}
      [] scope = "service" -> caller = "service"
      [] scope = "shared" -> caller # "other"

\* find_prompt_version: the one asked for, or the current one.
VersionOf(e, r) == IF r.version = None THEN e.current ELSE r.version

\* ExecutionGateway.authorize
Authorizes(entries, r) ==
    \E e \in {entries[i] : i \in {1} \cap DOMAIN entries} :
        /\ VersionOf(e, r) \in e.versions
        /\ e.status \in {"active", "review_due"}
        /\ CallerAllowed(e.policy.scope, r.caller)
        /\ e.policy.direct
        /\ r.provider = None \/ e.policy.providers = {} \/ r.provider \in e.policy.providers
        /\ r.model = None \/ e.policy.overrides = {}
              \/ r.model \in e.policy.overrides \cup e.policy.models
        /\ e.policy.schema => r.schema

---------------------------------------------------------------------------
(* What an operation does to an entry.                                      *)

\* create_prompt_service_registration.  Fault: a request without a status is left without.
Registration_NoDefault(o) ==
    LET v == IF o.version = None THEN 1 ELSE o.version
    IN  [status |-> o.to, policy |-> o.policy, versions |-> {v}, current |-> v,
         runs |-> 0, denials |-> 0]

\* create_prompt_service_registration
Registration(o) ==
    LET v == IF o.version = None THEN 1 ELSE o.version
    IN  [status |-> IF o.to = None THEN "active" ELSE o.to, policy |-> o.policy,
         versions |-> {v}, current |-> v, runs |-> 0, denials |-> 0]

\* transition_prompt_lifecycle
Transitioned(e, to) == [e EXCEPT !.status = to]

\* migrate_all_to_review_due: what is retired or expired stays.
Migrated(e) ==
    IF e.status \in {"retired", "expired"} THEN e ELSE Transitioned(e, "review_due")

\* next_prompt_version
NextVersion(versions) ==
    1 + (IF versions = {} THEN 0 ELSE CHOOSE v \in versions : \A w \in versions : w <= v)

\* update_prompt_service_definition: the version the update adds, or None.
Added(o, e) ==
    IF o.version # None THEN o.version
    ELSE IF o.define THEN NextVersion(e.versions) ELSE None

\* The fields of the policy, which are set before the version is looked at.
Amended(o, e) == IF o.policy = None THEN e ELSE [e EXCEPT !.policy = o.policy]

\* record_authorization
Authorized(e, allowed) == IF allowed THEN e ELSE [e EXCEPT !.denials = @ + 1]

\* record_execution
Recorded(e) == [e EXCEPT !.runs = @ + 1]

\* The first change of each call to the entry it found.
Changed(o, e) ==
    CASE o.kind = "update" -> Amended(o, e)
      [] o.kind = "transition" -> IF o.to = None THEN e ELSE Transitioned(e, o.to)
      [] o.kind = "migrate" -> Migrated(e)
      [] o.kind = "authorize" -> Authorized(e, o.allowed)
      [] o.kind = "record" -> Recorded(e)

\* PromptRegistry.create_prompt: a prompt that is retired may be registered again.
Registrable(entries) == entries # <<>> => entries[1].status = "retired"

\* Whether a call can begin on these entries; without an entry all but creations and
\* migrations end at once.
Applies(o, entries) ==
    CASE o.kind = "create" -> Registrable(entries)
      [] o.kind = "migrate" -> TRUE
      [] OTHER -> entries # <<>>

\* What a call leaves when nothing comes between: the operation as one step.
Effect(o, entries) ==
    IF o.kind = "create"
    THEN IF entries = <<>> THEN <<Registration(o)>> ELSE [entries EXCEPT ![1] = Registration(o)]
    ELSE LET After(e) ==
             LET d == Changed(o, e)
             IN  IF o.kind # "update" \/ Added(o, e) = None THEN d
                 ELSE [d EXCEPT !.versions = @ \cup {Added(o, e)}, !.current = Added(o, e)]
         IN  [i \in DOMAIN entries |->
                    IF i = 1 \/ o.kind = "migrate" THEN After(entries[i]) ELSE entries[i]]

---------------------------------------------------------------------------
(* The calls.                                                               *)

\* The objects something still refers to; the others are garbage.
Refers(k) == k.at \notin {"idle", "installed", "writing"}

Live(s, calls) == {s} \cup {calls[c].obj : c \in {d \in Callers : Refers(calls[d])}}

Collected(h, s, calls) == [x \in Objects |-> IF x \in Live(s, calls) THEN h[x] ELSE <<>>]

Unused == CHOOSE x \in Objects : x \notin Live(state, call)

To(c, at) == [call EXCEPT ![c].at = at]

\* A call that refers to no object goes on with what it has copied.
Apart(c, at, kept) ==
    [call EXCEPT ![c] = [at |-> at, op |-> @.op, obj |-> 0, holds |-> FALSE,
                         version |-> None, kept |-> kept]]

Asked(o) == o.kind \notin {"authorize", "record"}
Suspends(o) == o.kind = "transition" /\ o.to = "suspended"

\* A call finds its entry, in the object that is the state now.
Begin(c, o) ==
    /\ call[c] = Idle /\ used.calls < MaxCalls
    /\ Applies(o, State)
    /\ call' = [call EXCEPT ![c] =
                    [at |-> "found", op |-> o, obj |-> state, holds |-> State # <<>>,
                     version |-> None, kept |-> <<>>]]
    /\ used' = [used EXCEPT !.calls = @ + 1]
    /\ alone' = (Busy = {})
    /\ expected' = IF Busy = {} THEN Effect(o, State) ELSE <<>>
    /\ held' = IF ~Asked(o) THEN held
               ELSE IF Suspends(o) /\ \A d \in Busy : ~Asked(call[d].op) THEN "pending"
               ELSE "no"
    /\ UNCHANGED <<heap, state, file>>

\* The endpoints, on the threads.
Operate(c) == c \in Threads /\ \E o \in Operations : Begin(c, o)

\* An execution is authorised on a snapshot of the state, and the verdict is recorded.
Authorize(c) ==
    \E r \in Requests : Begin(c, [kind |-> "authorize", allowed |-> Authorizes(State, r)])

\* A task with a prompt has ended.
Record(c) == c = Loop /\ Begin(c, [kind |-> "record"])

\* Whoever holds, or copies, the entry that is replaced does so in vain.
Detached(c) ==
    [d \in Callers |->
        IF d # c /\ call[d].at \in {"found", "defining", "defined", "copying", "taking"}
                 /\ call[d].obj = state
                 /\ ~(call[d].at = "found" /\ call[d].op.kind = "migrate")
        THEN [call[d] EXCEPT !.holds = FALSE] ELSE call[d]]

\* create_prompt.  Fault: the retired entry stays, before the new one.
Register_Appends(c) ==
    /\ call[c].at = "found" /\ call[c].op.kind = "create"
    /\ heap' = [heap EXCEPT ![state] = Append(@, Registration(call[c].op))]
    /\ call' = To(c, "changed")
    /\ UNCHANGED <<state, file, used, alone, expected, held>>

\* create_prompt: the registration takes the place of the retired entry, if that is still
\* in the state, and goes to the end otherwise.
Register(c) ==
    /\ call[c].at = "found" /\ call[c].op.kind = "create"
    /\ LET replaces == call[c].holds /\ call[c].obj = state
           new == Registration(call[c].op)
       IN  /\ heap' = [heap EXCEPT ![state] =
                    IF replaces THEN [@ EXCEPT ![1] = new] ELSE Append(@, new)]
           /\ call' = [(IF replaces THEN Detached(c) ELSE call) EXCEPT ![c].at = "changed"]
    /\ UNCHANGED <<state, file, used, alone, expected, held>>

\* The entries a call changes: the one it found, or all that its object lists.
Reached(c) ==
    IF call[c].op.kind = "migrate" THEN DOMAIN heap[call[c].obj]
    ELSE IF call[c].holds THEN {1} ELSE {}

\* The first change; an update that brings a version goes on.
Change(c) ==
    /\ call[c].at = "found" /\ call[c].op.kind # "create"
    /\ LET o == call[c].op
       IN  /\ heap' = [heap EXCEPT ![call[c].obj] =
                [i \in DOMAIN @ |-> IF i \in Reached(c) THEN Changed(o, @[i]) ELSE @[i]]]
           /\ call' = To(c, IF o.kind = "update" /\ (o.define \/ o.version # None)
                            THEN "defining" ELSE "changed")
    /\ UNCHANGED <<state, file, used, alone, expected, held>>

\* update_prompt_service_definition.  Fault: the version becomes the current one first.
Define_CurrentFirst(c) ==
    /\ call[c].at = "defining" /\ call[c].holds
    /\ LET v == Added(call[c].op, heap[call[c].obj][1])
       IN  /\ v \in Versions \ heap[call[c].obj][1].versions
           /\ heap' = [heap EXCEPT ![call[c].obj][1].current = v]
           /\ call' = [call EXCEPT ![c].at = "defined", ![c].version = v]
    /\ UNCHANGED <<state, file, used, alone, expected, held>>

\* update_prompt_service_definition: the version is added, and then ...
Define(c) ==
    /\ call[c].at = "defining" /\ call[c].holds
    /\ LET v == Added(call[c].op, heap[call[c].obj][1])
       IN  /\ v \in Versions \ heap[call[c].obj][1].versions
           /\ heap' = [heap EXCEPT ![call[c].obj][1].versions = @ \cup {v}]
           /\ call' = [call EXCEPT ![c].at = "defined", ![c].version = v]
    /\ UNCHANGED <<state, file, used, alone, expected, held>>

\* ... becomes the current one.
Prefer(c) ==
    /\ call[c].at = "defined"
    /\ heap' = IF call[c].holds
               THEN [heap EXCEPT ![call[c].obj][1] =
                        [@ EXCEPT !.current = call[c].version]]
               ELSE heap
    /\ call' = To(c, "changed")
    /\ UNCHANGED <<state, file, used, alone, expected, held>>

\* The version exists: the request is refused, with the policy changed and not saved.
Refuse(c) ==
    /\ call[c].at = "defining"
    /\ call[c].holds => LET e == heap[call[c].obj][1] IN Added(call[c].op, e) \in e.versions
    /\ call' = [call EXCEPT ![c] = Idle]
    /\ heap' = Collected(heap, state, call')
    /\ alone' = FALSE /\ expected' = <<>>
    /\ UNCHANGED <<state, file, used, held>>

\* save: the state is normalised, which copies it, field by field ...
Copy(c) ==
    /\ call[c].at = "changed" \/ (call[c].at = "defining" /\ ~call[c].holds)
    /\ call' = [call EXCEPT ![c].at = "copying", ![c].obj = state, ![c].holds = State # <<>>,
                            ![c].kept = State]
    /\ heap' = Collected(heap, state, call')
    /\ UNCHANGED <<state, file, used, alone, expected, held>>

\* ... the versions and what is counted last.
CopyOf(c) ==
    LET old == call[c].kept
        new == heap[call[c].obj]
    IN  [i \in DOMAIN new |->
            IF i \notin DOMAIN old THEN new[i]
            ELSE IF i = 1 /\ ~call[c].holds THEN old[i]
            ELSE [new[i] EXCEPT !.status = old[i].status, !.policy = old[i].policy,
                                !.current = old[i].current]]

\* The copy becomes the state.
Install(c) ==
    /\ call[c].at = "copying"
    /\ state' = Unused
    /\ call' = Apart(c, "installed", <<>>)
    /\ heap' = Collected([heap EXCEPT ![Unused] = CopyOf(c)], Unused, call')
    /\ UNCHANGED <<file, used, alone, expected, held>>

\* PromptServiceStateStore.save is called with what is the state by then, copies it too, ...
Take(c) ==
    /\ call[c].at = "installed"
    /\ call' = [call EXCEPT ![c].at = "taking", ![c].obj = state, ![c].holds = State # <<>>,
                            ![c].kept = State]
    /\ heap' = Collected(heap, state, call')
    /\ UNCHANGED <<state, file, used, alone, expected, held>>

Taken(c) ==
    /\ call[c].at = "taking"
    /\ call' = Apart(c, "writing", CopyOf(c))
    /\ heap' = Collected(heap, state, call')
    /\ UNCHANGED <<state, file, used, alone, expected, held>>

\* ... and replaces the file.
Write(c) ==
    /\ call[c].at = "writing"
    /\ file' = call[c].kept
    /\ call' = [call EXCEPT ![c] = Idle]
    /\ heap' = Collected(heap, state, call')
    /\ held' = IF held = "pending" /\ Suspends(call[c].op) THEN "held" ELSE held
    /\ UNCHANGED <<state, used, alone, expected>>

\* The process ends and starts again: the registry loads its file, and saves it.
Restart ==
    /\ used.restarts < MaxRestarts
    /\ used' = [used EXCEPT !.restarts = @ + 1]
    /\ call' = [c \in Callers |-> Idle]
    /\ state' = 0
    /\ heap' = [x \in Objects |-> IF x = 0 THEN file ELSE <<>>]
    /\ alone' = (alone /\ Busy = {})
    /\ expected' = IF alone /\ Busy = {} THEN expected ELSE <<>>
    /\ held' = IF held = "pending" THEN "no" ELSE held
    /\ UNCHANGED file

Init ==
    /\ \E o \in {x \in Operations : x.kind = "create"} : file \in {<<>>, <<Registration(o)>>}
    /\ state = 0
    /\ heap = [x \in Objects |-> IF x = 0 THEN file ELSE <<>>]
    /\ call = [c \in Callers |-> Idle]
    /\ used = [calls |-> 0, restarts |-> 0]
    /\ alone = TRUE /\ expected = file
    /\ held = "no"

Next ==
    \/ \E c \in Callers :
            \/ Operate(c) \/ Authorize(c) \/ Record(c)
            \/ Register(c) \/ Change(c) \/ Define(c) \/ Prefer(c) \/ Refuse(c)
            \/ Copy(c) \/ Install(c) \/ Take(c) \/ Taken(c) \/ Write(c)
    \/ Restart

Spec == Init /\ [][Next]_vars

---------------------------------------------------------------------------
(* Properties.                                                              *)

IsState(entries) == DOMAIN entries = 1..Len(entries) /\ \A i \in DOMAIN entries : entries[i] \in Entry

\* Types, of every state object and of the file: a status, a policy and a version the
\* registry knows, whatever calls met.
TypeOK ==
    /\ DOMAIN heap = Objects /\ \A x \in Objects : IsState(heap[x])
    /\ IsState(file)
    /\ state \in Objects
    /\ \A c \in Busy : /\ call[c].op \in Calls /\ call[c].obj \in Objects
                       /\ call[c].version \in Versions \cup {None}
                       /\ IsState(call[c].kept)
    /\ used \in [calls : 0..MaxCalls, restarts : 0..MaxRestarts]
    /\ alone \in BOOLEAN /\ held \in {"no", "pending", "held"}

\* The current version of a prompt is one of its versions, in every state object and in the
\* file, even when a state is copied while an update is under way on another thread.
CurrentVersionExists ==
    \A entries \in {heap[x] : x \in Objects} \cup {file} :
        \A i \in DOMAIN entries : entries[i].current \in entries[i].versions

\* A call that no other overlaps leaves what the operation promises, in the registry and in
\* the file, across a restart too: overlapping calls are the only way to lose a change.
AloneSticks == (alone /\ Busy = {}) => (State = expected /\ file = expected)

\* docs/ai-node/prompt-lifecycle-and-access-policy.md: a suspended prompt is not executable
\* until it is restored.  What a suspension has returned to the operator stays.
SuspensionHolds ==
    held = "held" => \A r \in Requests : ~Authorizes(State, r)
=============================================================================
