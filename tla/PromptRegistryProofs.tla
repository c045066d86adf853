------------------------ MODULE PromptRegistryProofs ------------------------
(***************************************************************************)
(* Theorems about PromptRegistry, for any threads, policies, operations and *)
(* bounds: types, that the current version of a prompt exists, and that a   *)
(* call no other overlaps leaves what its operation promises.               *)
(***************************************************************************)
EXTENDS PromptRegistry, FiniteSetTheorems, SequenceTheorems, TLAPS

Stages == {"found", "changed", "defining", "defined", "copying", "installed",
           "taking", "writing"}

\* The stages in which a call holds the entry it found, or copies.
Holding == {"found", "defining", "defined", "copying", "taking"}

Call == [at : Stages, op : Calls, obj : Objects, holds : BOOLEAN,
         version : Versions \cup {None}, kept : Seq(Entry)]

Heaps == [Objects -> Seq(Entry)]

Types ==
    /\ heap \in Heaps
    /\ file \in Seq(Entry)
    /\ state \in Objects
    /\ call \in [Callers -> {Idle} \cup Call]
    /\ used \in [calls : 0..MaxCalls, restarts : 0..MaxRestarts]
    /\ alone \in BOOLEAN /\ held \in {"no", "pending", "held"}

---------------------------------------------------------------------------
(* Operations and entries.                                                  *)

LEMMA Bounds ==
    /\ MaxVersion \in Nat /\ MaxVersion >= 1 /\ Versions = 1..MaxVersion /\ 1 \in Versions
    /\ MaxCalls \in Nat /\ MaxRestarts \in Nat
    /\ None \notin Versions /\ None \notin Policies /\ None \notin Statuses
BY PromptAssumption DEF PromptAssumption, Versions

LEMMA OperationFields ==
    ASSUME NEW o \in Calls
    PROVE  /\ o.kind \in Kinds
           /\ o.kind \in {"create", "update", "transition", "migrate"} => o \in Operations
           /\ o.kind = "authorize" => o.allowed \in BOOLEAN
           /\ o \in Operations =>
                /\ o.to \in Statuses \cup {None} /\ o.version \in Versions \cup {None}
                /\ o.policy \in Policies \cup {None} /\ o.define \in BOOLEAN
                /\ o.kind = "create" => o.policy \in Policies
<1>1. CASE o \in Operations
  <2>1. /\ o.kind \in Kinds \ {"authorize", "record"}
        /\ o.to \in Statuses \cup {None}
        /\ o.policy \in Policies \cup {None}
        /\ o.kind = "create" => o.policy # None
        /\ o.define \in BOOLEAN /\ o.version \in Versions \cup {None}
    BY <1>1, PromptAssumption DEF PromptAssumption
  <2> QED BY <1>1, <2>1
<1>2. CASE o \notin Operations
  <2>1. \/ o.kind = "authorize" /\ o.allowed \in BOOLEAN
        \/ o.kind = "record"
    BY <1>2 DEF Calls
  <2> QED BY <1>2, <2>1 DEF Kinds
<1> QED BY <1>1, <1>2

\* A registration has a version, and it is the current one.
LEMMA RegistrationType ==
    ASSUME NEW o \in Calls, o.kind = "create"
    PROVE  Registration(o) \in Entry /\ Registration(o).current \in Registration(o).versions
<1>1. o \in Operations
  BY OperationFields
<1>2. /\ o.to \in Statuses \cup {None} /\ o.version \in Versions \cup {None}
      /\ o.policy \in Policies
  BY <1>1, OperationFields
<1>3. "active" \in Statuses
  BY DEF Statuses
<1> QED BY <1>2, <1>3, Bounds DEF Registration, Entry

\* The first change of a call leaves the versions and the current one alone.
LEMMA ChangedType ==
    ASSUME NEW o \in Calls, o.kind # "create", NEW e \in Entry
    PROVE  /\ Changed(o, e) \in Entry
           /\ Changed(o, e).versions = e.versions /\ Changed(o, e).current = e.current
<1>1. /\ o.kind \in Kinds
      /\ o.kind \in {"create", "update", "transition", "migrate"} => o \in Operations
      /\ o.kind = "authorize" => o.allowed \in BOOLEAN
      /\ o \in Operations =>
            /\ o.to \in Statuses \cup {None} /\ o.version \in Versions \cup {None}
            /\ o.policy \in Policies \cup {None}
  BY OperationFields
<1>2. CASE o.kind = "update"
  BY <1>1, <1>2 DEF Changed, Amended, Entry
<1>3. CASE o.kind = "transition"
  BY <1>1, <1>3 DEF Changed, Transitioned, Entry
<1>4. CASE o.kind = "migrate"
  BY <1>4 DEF Changed, Migrated, Transitioned, Entry, Statuses
<1>5. CASE o.kind = "authorize"
  BY <1>5 DEF Changed, Authorized, Entry
<1>6. CASE o.kind = "record"
  BY <1>6 DEF Changed, Recorded, Entry
<1> QED BY <1>1, <1>2, <1>3, <1>4, <1>5, <1>6 DEF Kinds

---------------------------------------------------------------------------
(* Sequences of entries.                                                    *)

LEMMA FunctionIsSeq ==
    ASSUME NEW S, NEW n \in Nat, NEW t \in [1..n -> S]
    PROVE  t \in Seq(S) /\ Len(t) = n /\ DOMAIN t = 1..n
<1>1. t \in Seq(S)
  BY SeqDef
<1>2. DOMAIN t = 1..Len(t) /\ Len(t) \in Nat
  BY <1>1, LenProperties
<1> QED BY <1>1, <1>2

LEMMA SeqFacts ==
    ASSUME NEW s \in Seq(Entry)
    PROVE  /\ Len(s) \in Nat /\ DOMAIN s = 1..Len(s)
           /\ \A i \in 1..Len(s) : s[i] \in Entry
           /\ s # <<>> <=> 1 \in 1..Len(s)
           /\ s = [i \in 1..Len(s) |-> s[i]]
           /\ IsState(s)
<1>1. Len(s) \in Nat /\ DOMAIN s = 1..Len(s) /\ \A i \in 1..Len(s) : s[i] \in Entry
  BY LenProperties, ElementOfSeq
<1>2. s # <<>> <=> 1 \in 1..Len(s)
  BY <1>1, EmptySeq
<1>3. s = [i \in 1..Len(s) |-> s[i]]
  BY LenProperties
<1> QED BY <1>1, <1>2, <1>3 DEF IsState

---------------------------------------------------------------------------
(* Objects: there is always one that nothing refers to.                     *)

LEMMA ObjectsNat == Cardinality(Threads) \in Nat /\ 0 \in Objects
BY PromptAssumption, FS_CardinalityType DEF PromptAssumption, Objects

LEMMA UnusedExists ==
    ASSUME Types
    PROVE  Unused \in Objects /\ Unused \notin Live(state, call)
<1> DEFINE Held == {call[c].obj : c \in Busy}
           obj == [c \in Busy |-> call[c].obj]
<1>1. IsFiniteSet(Callers) /\ Cardinality(Callers) = Cardinality(Threads) + 1
  BY PromptAssumption, FS_AddElement DEF PromptAssumption, Callers
<1>2. IsFiniteSet(Busy) /\ Cardinality(Busy) <= Cardinality(Callers)
  BY <1>1, FS_Subset DEF Busy
<1>3. obj \in Surjection(Busy, Held)
  BY DEF Surjection
<1>4. IsFiniteSet(Held) /\ Cardinality(Held) <= Cardinality(Busy)
  BY <1>2, <1>3, FS_Surjection
<1>5. Live(state, call) \subseteq Held \cup {state}
  BY DEF Live, Busy, Refers
<1>6. /\ IsFiniteSet(Live(state, call))
      /\ Cardinality(Live(state, call)) <= Cardinality(Held) + 1
  <2>1. Cardinality(Held) \in Nat
    BY <1>4, FS_CardinalityType
  <2>2. /\ IsFiniteSet(Held \cup {state})
        /\ Cardinality(Held \cup {state}) =
              IF state \in Held THEN Cardinality(Held) ELSE Cardinality(Held) + 1
    BY <1>4, FS_AddElement
  <2>3. /\ IsFiniteSet(Live(state, call))
        /\ Cardinality(Live(state, call)) <= Cardinality(Held \cup {state})
    BY <1>5, <2>2, FS_Subset
  <2>4. Cardinality(Live(state, call)) \in Nat
    BY <2>3, FS_CardinalityType
  <2> HIDE DEF Held
  <2> QED BY <2>1, <2>2, <2>3, <2>4
<1>7. Cardinality(Objects) = Cardinality(Threads) + 3
  BY FS_Interval, ObjectsNat DEF Objects
<1>8. ~(Objects \subseteq Live(state, call))
  <2>1. SUFFICES ASSUME Objects \subseteq Live(state, call) PROVE FALSE
    OBVIOUS
  <2>2. Cardinality(Objects) <= Cardinality(Live(state, call))
    BY <1>6, <2>1, FS_Subset
  <2>3. /\ Cardinality(Live(state, call)) \in Nat /\ Cardinality(Held) \in Nat
        /\ Cardinality(Busy) \in Nat
    BY <1>2, <1>4, <1>6, FS_CardinalityType
  <2> QED BY <1>1, <1>2, <1>4, <1>6, <1>7, <2>2, <2>3, ObjectsNat
<1>9. \E x \in Objects : x \notin Live(state, call)
  BY <1>8
<1> QED BY <1>9 DEF Unused

---------------------------------------------------------------------------
(* What a call relies on.                                                   *)

\* The current version is one of the versions.
Coherent(s) == \A i \in DOMAIN s : s[i].current \in s[i].versions

\* Entries and versions are added to a state object, and none is taken away.
Grows(s, t) ==
    /\ Len(s) <= Len(t)
    /\ \A i \in 1..Len(s) : s[i].versions \subseteq t[i].versions

\* A call whose entry is still in its object finds it there, with the version it
\* has added; what it copies was in the object it copies from.
Ref(k, h) ==
    /\ k.at \in Holding /\ k.holds => h[k.obj] # <<>>
    /\ k.at \in {"defining", "defined"} => k.op.kind = "update"
    /\ k.at = "defined" =>
            k.version \in Versions /\ (k.holds => k.version \in h[k.obj][1].versions)
    /\ k.at \in {"copying", "taking"} =>
            /\ Len(k.kept) <= Len(h[k.obj])
            /\ \A i \in 1..Len(k.kept) :
                    i # 1 \/ k.holds => k.kept[i].versions \subseteq h[k.obj][i].versions
    /\ Coherent(k.kept)

Refs == \A c \in Busy : Ref(call[c], heap)
Currents == (\A x \in Objects : Coherent(heap[x])) /\ Coherent(file)

RegInv == Types /\ Refs /\ Currents

LEMMA BusyCall ==
    ASSUME Types, NEW c \in Callers, call[c].at # "idle"
    PROVE  /\ call[c] \in Call /\ c \in Busy
           /\ call[c].at \in Stages /\ call[c].op \in Calls /\ call[c].obj \in Objects
           /\ call[c].holds \in BOOLEAN /\ call[c].version \in Versions \cup {None}
           /\ call[c].kept \in Seq(Entry) /\ heap[call[c].obj] \in Seq(Entry)
<1>1. call[c] \in Call
  BY DEF Types, Idle
<1> QED BY <1>1 DEF Call, Types, Busy, Heaps

LEMMA ToCall ==
    ASSUME Types, NEW c \in Callers, call[c].at # "idle", NEW at \in Stages
    PROVE  /\ To(c, at) \in [Callers -> {Idle} \cup Call]
           /\ To(c, at)[c] = [call[c] EXCEPT !.at = at]
           /\ To(c, at)[c] \in Call
           /\ \A d \in Callers \ {c} : To(c, at)[d] = call[d]
<1>1. call[c] \in Call
  BY BusyCall
<1>2. [call[c] EXCEPT !.at = at] \in Call
  BY <1>1 DEF Call
<1> QED BY <1>1, <1>2 DEF To, Types

\* What is not collected.
LEMMA CollectedKeeps ==
    ASSUME NEW h \in Heaps, NEW s \in Objects, NEW calls \in [Callers -> {Idle} \cup Call]
    PROVE  /\ Collected(h, s, calls) \in Heaps
           /\ Collected(h, s, calls)[s] = h[s]
           /\ \A c \in Callers : Refers(calls[c]) =>
                    Collected(h, s, calls)[calls[c].obj] = h[calls[c].obj]
           /\ \A x \in Objects : Collected(h, s, calls)[x] \in {h[x], <<>>}
<1>1. <<>> \in Seq(Entry)
  BY EmptySeq
<1>2. \A c \in Callers : Refers(calls[c]) =>
            calls[c].obj \in Objects /\ calls[c].obj \in Live(s, calls)
  BY DEF Live, Refers, Idle, Call
<1>3. s \in Live(s, calls)
  BY DEF Live
<1> QED BY <1>1, <1>2, <1>3 DEF Collected, Heaps

LEMMA EmptyIsCoherent == Coherent(<<>>)
BY EmptySeq DEF Coherent

LEMMA GrowsSame == ASSUME NEW s \in Seq(Entry) PROVE Grows(s, s)
BY SeqFacts DEF Grows

\* An object that grows leaves every call what it relies on.
LEMMA RefGrows ==
    ASSUME NEW k \in Call, NEW h \in Heaps, NEW g \in Heaps,
           Refers(k) => Grows(h[k.obj], g[k.obj]), Ref(k, h)
    PROVE  Ref(k, g)
<1>0. CASE ~Refers(k)
  BY <1>0 DEF Refers, Ref, Holding, Call, Stages
<1> SUFFICES ASSUME Grows(h[k.obj], g[k.obj]) PROVE Ref(k, g)
  BY <1>0
<1>1. /\ h[k.obj] \in Seq(Entry) /\ g[k.obj] \in Seq(Entry) /\ k.kept \in Seq(Entry)
      /\ k.holds \in BOOLEAN
  BY DEF Call, Heaps
<1>2. /\ Len(h[k.obj]) \in Nat /\ Len(g[k.obj]) \in Nat /\ Len(k.kept) \in Nat
      /\ h[k.obj] # <<>> <=> 1 \in 1..Len(h[k.obj])
      /\ g[k.obj] # <<>> <=> 1 \in 1..Len(g[k.obj])
  BY <1>1, SeqFacts
<1>3. k.at \in Holding /\ k.holds => g[k.obj] # <<>>
  BY <1>2 DEF Ref, Grows
<1>4. k.at = "defined" =>
            k.version \in Versions /\ (k.holds => k.version \in g[k.obj][1].versions)
  <2>1. k.at = "defined" /\ k.holds => h[k.obj] # <<>>
    BY DEF Ref, Holding
  <2> QED BY <1>2, <2>1 DEF Ref, Grows
<1>5. k.at \in {"copying", "taking"} =>
            /\ Len(k.kept) <= Len(g[k.obj])
            /\ \A i \in 1..Len(k.kept) :
                    i # 1 \/ k.holds => k.kept[i].versions \subseteq g[k.obj][i].versions
  <2>1. k.at \in {"copying", "taking"} => Len(k.kept) <= Len(h[k.obj])
    BY DEF Ref
  <2>2. ASSUME k.at \in {"copying", "taking"}, NEW i \in 1..Len(k.kept), i # 1 \/ k.holds
        PROVE  k.kept[i].versions \subseteq g[k.obj][i].versions
    <3>1. k.kept[i].versions \subseteq h[k.obj][i].versions
      BY <2>2 DEF Ref
    <3>2. i \in 1..Len(h[k.obj])
      BY <1>2, <2>1, <2>2
    <3> QED BY <3>1, <3>2 DEF Grows
  <2> QED BY <1>2, <2>1, <2>2 DEF Grows
<1> QED BY <1>3, <1>4, <1>5 DEF Ref

\* A step of c that lets the objects of the others grow.
LEMMA StepKeeps ==
    ASSUME RegInv, Types', NEW c \in Callers,
           \A d \in Callers \ {c} : call'[d] = call[d],
           \A d \in Callers \ {c} : Refers(call[d]) =>
                Grows(heap[call[d].obj], heap'[call[d].obj]),
           \A x \in Objects : Coherent(heap'[x]), Coherent(file'),
           call'[c].at # "idle" => Ref(call'[c], heap')
    PROVE  RegInv'
<1>1. ASSUME NEW d \in Callers, call'[d].at # "idle" PROVE Ref(call'[d], heap')
  <2>1. CASE d = c
    BY <1>1, <2>1
  <2>2. CASE d # c
    <3>1. call'[d] = call[d] /\ call[d].at # "idle"
      BY <1>1, <2>2
    <3>2. call[d] \in Call /\ Ref(call[d], heap)
      BY <3>1, BusyCall DEF RegInv, Refs
    <3>3. heap \in Heaps /\ heap' \in Heaps
      BY DEF RegInv, Types
    <3>4. Refers(call[d]) => Grows(heap[call[d].obj], heap'[call[d].obj])
      BY <2>2
    <3> QED BY <3>1, <3>2, <3>3, <3>4, RefGrows
  <2> QED BY <2>1, <2>2
<1>2. Refs'
  BY <1>1 DEF Refs, Busy
<1> QED BY <1>2 DEF RegInv, Currents

---------------------------------------------------------------------------
(* The steps of a call.                                                     *)

LEMMA RegInit == Init => RegInv
<1> SUFFICES ASSUME Init PROVE RegInv
  OBVIOUS
<1>1. PICK o \in {x \in Operations : x.kind = "create"} : file \in {<<>>, <<Registration(o)>>}
  BY DEF Init
<1>2. o \in Calls /\ o.kind = "create"
  BY <1>1 DEF Calls
<1>3. Registration(o) \in Entry /\ Registration(o).current \in Registration(o).versions
  BY <1>2, RegistrationType
<1>4. file \in Seq(Entry) /\ Coherent(file)
  <2>1. CASE file = <<>>
    BY <2>1, EmptySeq, EmptyIsCoherent
  <2>2. CASE file = <<Registration(o)>>
    BY <1>3, <2>2 DEF Coherent
  <2> QED BY <1>1, <2>1, <2>2
<1>5. <<>> \in Seq(Entry)
  BY EmptySeq
<1>6. Types
  BY <1>4, <1>5, Bounds, ObjectsNat DEF Init, Types, Heaps
<1>7. Currents
  BY <1>4, EmptyIsCoherent DEF Currents, Init
<1>8. Refs
  BY DEF Refs, Busy, Init, Idle
<1> QED BY <1>6, <1>7, <1>8 DEF RegInv

\* The call as it begins.
Begun(o) == [at |-> "found", op |-> o, obj |-> state, holds |-> State # <<>>,
             version |-> None, kept |-> <<>>]

LEMMA RegBegin ==
    ASSUME RegInv, NEW c \in Callers, NEW o \in Calls, Begin(c, o)
    PROVE  RegInv'
<1>1. Begun(o) \in Call
  BY EmptySeq DEF Begun, Call, Stages, RegInv, Types
<1>2. call' = [call EXCEPT ![c] = Begun(o)]
  BY DEF Begin, Begun
<1>3. /\ call' \in [Callers -> {Idle} \cup Call] /\ call'[c] = Begun(o)
      /\ \A d \in Callers \ {c} : call'[d] = call[d]
  BY <1>1, <1>2 DEF RegInv, Types
<1>4. Types'
  <2>1. used' \in [calls : 0..MaxCalls, restarts : 0..MaxRestarts]
    BY Bounds DEF Begin, RegInv, Types
  <2>2. alone' \in BOOLEAN /\ held' \in {"no", "pending", "held"}
    BY DEF Begin, RegInv, Types
  <2> QED BY <1>3, <2>1, <2>2 DEF Begin, RegInv, Types
<1>5. Ref(call'[c], heap')
  BY <1>3, EmptyIsCoherent DEF Ref, Begun, Begin, Holding, State
<1>6. UNCHANGED <<heap, file>>
  BY DEF Begin
<1>7. \A d \in Callers \ {c} : Refers(call[d]) =>
            Grows(heap[call[d].obj], heap'[call[d].obj])
  BY <1>6, BusyCall, GrowsSame DEF RegInv, Refers
<1> QED BY <1>3, <1>4, <1>5, <1>6, <1>7, StepKeeps DEF RegInv, Currents

\* The operator's calls, and those of the executions.
LEMMA BeginCases ==
    ASSUME NEW c \in Callers, Operate(c) \/ Authorize(c) \/ Record(c)
    PROVE  \E o \in Calls : Begin(c, o)
<1>1. CASE Operate(c)
  BY <1>1 DEF Operate, Calls
<1>2. CASE Authorize(c)
  <2>1. \A r \in Requests : Authorizes(State, r) \in BOOLEAN
    BY DEF Authorizes
  <2> QED BY <1>2, <2>1 DEF Authorize, Calls
<1>3. CASE Record(c)
  BY <1>3 DEF Record, Calls
<1> QED BY <1>1, <1>2, <1>3

\* A new entry takes the place of the retired one.  The calls that held that one hold
\* none, except migrations, which take what the object lists.
LEMMA RegRegister ==
    ASSUME RegInv, NEW c \in Callers, Register(c)
    PROVE  RegInv'
<1> DEFINE new == Registration(call[c].op)
           replaces == call[c].holds /\ call[c].obj = state
<1>1. /\ call[c].at = "found" /\ call[c].op.kind = "create"
      /\ UNCHANGED <<state, file, used, alone, expected, held>>
      /\ heap' = [heap EXCEPT ![state] =
                        IF replaces THEN [@ EXCEPT ![1] = new] ELSE Append(@, new)]
      /\ call' = [(IF replaces THEN Detached(c) ELSE call) EXCEPT ![c].at = "changed"]
  BY DEF Register
<1>2. call[c] \in Call /\ call[c].op \in Calls /\ call[c].holds \in BOOLEAN
  BY <1>1, BusyCall DEF RegInv
<1>3. new \in Entry /\ new.current \in new.versions
  BY <1>1, <1>2, RegistrationType
<1>4. state \in Objects /\ heap \in Heaps /\ State \in Seq(Entry) /\ Coherent(State)
  BY DEF RegInv, Types, Heaps, Currents, State
<1>5. [call[c] EXCEPT !.at = "changed"] \in Call
  BY <1>2 DEF Call, Stages
<1>6. Len(State) \in Nat /\ DOMAIN State = 1..Len(State)
  BY <1>4, SeqFacts
<1>7. CASE ~replaces
  <2>1. heap' = [heap EXCEPT ![state] = Append(State, new)]
    BY <1>1, <1>7 DEF State
  <2>2. /\ Append(State, new) \in Seq(Entry)
        /\ Len(Append(State, new)) = Len(State) + 1
        /\ \A i \in 1..Len(State) : Append(State, new)[i] = State[i]
        /\ Append(State, new)[Len(State) + 1] = new
    BY <1>3, <1>4
  <2>3. DOMAIN Append(State, new) = 1..(Len(State) + 1)
    BY <2>2, SeqFacts
  <2>4. Grows(State, Append(State, new)) /\ Coherent(Append(State, new))
    <3>1. Grows(State, Append(State, new))
      BY <1>6, <2>2 DEF Grows
    <3>2. ASSUME NEW i \in 1..(Len(State) + 1)
          PROVE  Append(State, new)[i].current \in Append(State, new)[i].versions
      <4>1. CASE i = Len(State) + 1
        BY <1>3, <2>2, <4>1
      <4>2. CASE i # Len(State) + 1
        BY <1>4, <1>6, <2>2, <4>2 DEF Coherent
      <4> QED BY <4>1, <4>2
    <3> QED BY <2>3, <3>1, <3>2 DEF Coherent
  <2>5. /\ call' \in [Callers -> {Idle} \cup Call]
        /\ call'[c] = [call[c] EXCEPT !.at = "changed"]
        /\ \A d \in Callers \ {c} : call'[d] = call[d]
    BY <1>1, <1>5, <1>7 DEF RegInv, Types
  <2>6. Types'
    BY <1>1, <1>4, <2>1, <2>2, <2>5 DEF RegInv, Types, Heaps
  <2>7. \A x \in Objects : heap'[x] = IF x = state THEN Append(State, new) ELSE heap[x]
    BY <1>4, <2>1 DEF Heaps
  <2>8. \A d \in Callers \ {c} : Refers(call[d]) =>
            Grows(heap[call[d].obj], heap'[call[d].obj])
    BY <2>4, <2>7, BusyCall, GrowsSame DEF RegInv, Refers, State
  <2>9. Ref(call'[c], heap')
    <3>1. call[c] \in Call /\ Ref(call[c], heap)
      BY <1>1, <1>2, BusyCall DEF RegInv, Refs
    <3>2. call'[c].at = "changed" /\ call'[c].kept = call[c].kept
      BY <2>5, <3>1 DEF Call
    <3> QED BY <3>1, <3>2 DEF Ref, Holding
  <2>10. (\A x \in Objects : Coherent(heap'[x])) /\ Coherent(file')
    BY <1>1, <2>4, <2>7 DEF RegInv, Currents
  <2> QED BY <2>5, <2>6, <2>8, <2>9, <2>10, StepKeeps
<1>8. CASE replaces
  <2>1. heap' = [heap EXCEPT ![state] = [State EXCEPT ![1] = new]]
    BY <1>1, <1>8 DEF State
  <2>2. State # <<>> /\ 1 \in 1..Len(State)
    BY <1>1, <1>2, <1>4, <1>8, SeqFacts, BusyCall DEF RegInv, Refs, Ref, Holding, State
  <2>3. /\ [State EXCEPT ![1] = new] \in Seq(Entry)
        /\ Len([State EXCEPT ![1] = new]) = Len(State)
        /\ \A j \in 1..Len(State) :
                [State EXCEPT ![1] = new][j] = IF j = 1 THEN new ELSE State[j]
    BY <1>3, <1>4, <2>2, ExceptSeq
  <2>4. DOMAIN [State EXCEPT ![1] = new] = 1..Len(State)
    BY <2>3, SeqFacts
  <2>5. Coherent([State EXCEPT ![1] = new])
    BY <1>3, <1>4, <1>6, <2>3, <2>4 DEF Coherent
  <2>6. \A x \in Objects : heap'[x] = IF x = state THEN [State EXCEPT ![1] = new] ELSE heap[x]
    BY <1>4, <2>1 DEF Heaps
  <2>7. \A d \in Callers \ {c} :
            call'[d] = IF /\ call[d].at \in Holding
                          /\ call[d].obj = state
                          /\ ~(call[d].at = "found" /\ call[d].op.kind = "migrate")
                       THEN [call[d] EXCEPT !.holds = FALSE] ELSE call[d]
    BY <1>1, <1>8 DEF Detached, Holding
  <2>8. call'[c] = [call[c] EXCEPT !.at = "changed"]
    BY <1>1, <1>8 DEF Detached
  <2>9. \A d \in Callers \ {c} : call'[d] \in {Idle} \cup Call
    <3>1. ASSUME NEW d \in Callers \ {c} PROVE call'[d] \in {Idle} \cup Call
      <4>1. CASE call'[d] = call[d]
        BY <4>1 DEF RegInv, Types
      <4>2. CASE call'[d] = [call[d] EXCEPT !.holds = FALSE] /\ call[d].at # "idle"
        <5>1. call[d] \in Call
          BY <4>2, BusyCall DEF RegInv
        <5> QED BY <4>2, <5>1 DEF Call
      <4> QED BY <2>7, <4>1, <4>2 DEF Holding
    <3> QED BY <3>1
  <2>10. call' \in [Callers -> {Idle} \cup Call]
    BY <1>1, <1>5, <1>8, <2>8, <2>9 DEF Detached
  <2>11. Types'
    BY <1>1, <1>4, <2>1, <2>3, <2>10 DEF RegInv, Types, Heaps
  <2>12. ASSUME NEW d \in Callers \ {c}, call'[d].at # "idle"
         PROVE  Ref(call'[d], heap')
    <3>1. call[d].at # "idle" /\ call[d] \in Call /\ Ref(call[d], heap)
      <4>1. call[d].at # "idle"
        BY <2>7, <2>12 DEF Holding
      <4> QED BY <4>1, BusyCall DEF RegInv, Refs
    <3>2. /\ call[d].obj \in Objects /\ call[d].holds \in BOOLEAN /\ call[d].kept \in Seq(Entry)
          /\ Len(call[d].kept) \in Nat
      BY <3>1, SeqFacts DEF Call
    <3>3. CASE call[d].obj # state
      <4>1. heap'[call[d].obj] = heap[call[d].obj]
        BY <2>6, <3>2, <3>3
      <4>2. call'[d] = call[d]
        BY <2>7, <3>3
      <4> QED BY <3>1, <4>1, <4>2 DEF Ref
    <3>4. CASE call[d].obj = state
      <4>1. heap'[state] # <<>> /\ Len(heap'[state]) = Len(State)
        <5>1. heap'[state] = [State EXCEPT ![1] = new]
          BY <1>4, <2>6
        <5> QED BY <2>2, <2>3, <5>1, SeqFacts
      <4>2. \A i \in 1..Len(State) : i # 1 => heap'[state][i] = State[i]
        BY <1>4, <2>3, <2>6
      <4>3. CASE call[d].at \in Holding \ {"found"}
        <5>1. call'[d] = [call[d] EXCEPT !.holds = FALSE]
          BY <2>7, <3>4, <4>3 DEF Holding
        <5>2. /\ call'[d].at = call[d].at /\ call'[d].op = call[d].op
              /\ call'[d].obj = state /\ call'[d].holds = FALSE
              /\ call'[d].version = call[d].version /\ call'[d].kept = call[d].kept
          BY <3>1, <3>4, <5>1 DEF Call
        <5>3. call[d].at \in {"copying", "taking"} =>
                /\ Len(call[d].kept) <= Len(heap'[state])
                /\ \A i \in 1..Len(call[d].kept) : i # 1 =>
                        call[d].kept[i].versions \subseteq heap'[state][i].versions
          <6>1. call[d].at \in {"copying", "taking"} => Len(call[d].kept) <= Len(State)
            BY <3>1, <3>4 DEF Ref, State
          <6>2. ASSUME call[d].at \in {"copying", "taking"}, NEW i \in 1..Len(call[d].kept), i # 1
                PROVE  call[d].kept[i].versions \subseteq heap'[state][i].versions
            <7>1. i \in 1..Len(State)
              BY <1>6, <3>2, <6>1, <6>2
            <7>2. call[d].kept[i].versions \subseteq State[i].versions
              BY <3>1, <3>4, <6>2 DEF Ref, State
            <7> QED BY <4>2, <6>2, <7>1, <7>2
          <6> QED BY <4>1, <6>1, <6>2
        <5> QED BY <3>1, <4>3, <5>2, <5>3 DEF Ref, Holding
      <4>4. CASE call[d].at = "found"
        <5>1. \/ call'[d] = call[d]
              \/ call'[d] = [call[d] EXCEPT !.holds = FALSE]
          BY <2>7
        <5>2. call'[d].at = "found" /\ call'[d].kept = call[d].kept /\ call'[d].obj = state
          BY <3>1, <3>4, <4>4, <5>1 DEF Call
        <5> QED BY <3>1, <4>1, <5>2 DEF Ref
      <4>5. CASE call[d].at \in {"changed", "installed", "writing"}
        <5>1. call'[d] = call[d]
          BY <2>7, <4>5 DEF Holding
        <5> QED BY <3>1, <4>5, <5>1 DEF Ref, Holding
      <4> QED BY <3>1, <4>3, <4>4, <4>5 DEF Call, Stages, Holding
    <3> QED BY <3>3, <3>4
  <2>13. Ref(call'[c], heap')
    <3>1. call[c] \in Call /\ Ref(call[c], heap)
      BY <1>1, <1>2, BusyCall DEF RegInv, Refs
    <3>2. call'[c].at = "changed" /\ call'[c].kept = call[c].kept
      BY <2>8, <3>1 DEF Call
    <3> QED BY <3>1, <3>2 DEF Ref, Holding
  <2>14. Refs'
    BY <2>12, <2>13 DEF Refs, Busy
  <2>15. Currents'
    BY <1>1, <2>5, <2>6 DEF RegInv, Currents
  <2> QED BY <2>11, <2>14, <2>15 DEF RegInv
<1> QED BY <1>2, <1>7, <1>8

\* What the other variables are after a step that only moves the call.
LEMMA TypesOfStep ==
    ASSUME Types, call' \in [Callers -> {Idle} \cup Call], heap' \in Heaps,
           file' \in Seq(Entry), state' \in Objects, used' = used,
           alone' \in {alone, FALSE}, held' \in {held, "held"}
    PROVE  Types'
BY DEF Types

\* A step of c that replaces the object of its call by one that has grown.
LEMMA EntryStep ==
    ASSUME RegInv, NEW c \in Callers, call[c].at # "idle",
           NEW t \in Seq(Entry), Grows(heap[call[c].obj], t), Coherent(t),
           heap' = [heap EXCEPT ![call[c].obj] = t],
           NEW k \in Call, call' = [call EXCEPT ![c] = k], k.obj = call[c].obj,
           Ref(k, heap'),
           UNCHANGED <<state, file, used, alone, expected, held>>
    PROVE  RegInv'
<1>1. call[c].obj \in Objects /\ heap \in Heaps
  BY BusyCall DEF RegInv, Types
<1>2. \A x \in Objects : heap'[x] = IF x = call[c].obj THEN t ELSE heap[x]
  BY <1>1 DEF Heaps
<1>3. /\ call' \in [Callers -> {Idle} \cup Call] /\ call'[c] = k
      /\ \A d \in Callers \ {c} : call'[d] = call[d]
  BY DEF RegInv, Types
<1>4. Types'
  <2>1. heap' \in Heaps
    BY <1>1 DEF Heaps
  <2> QED BY <1>3, <2>1, TypesOfStep DEF RegInv, Types
<1>5. \A d \in Callers \ {c} : Refers(call[d]) =>
            Grows(heap[call[d].obj], heap'[call[d].obj])
  BY <1>2, BusyCall, GrowsSame DEF RegInv, Refers
<1>6. (\A x \in Objects : Coherent(heap'[x])) /\ Coherent(file')
  BY <1>2 DEF RegInv, Currents
<1> QED BY <1>3, <1>4, <1>5, <1>6, StepKeeps

\* What the first change leaves of the object.
ChangedObject(c) ==
    [i \in DOMAIN heap[call[c].obj] |->
        IF i \in Reached(c) THEN Changed(call[c].op, heap[call[c].obj][i])
                            ELSE heap[call[c].obj][i]]

AfterChange(o) == IF o.kind = "update" /\ (o.define \/ o.version # None) THEN "defining" ELSE "changed"

LEMMA ChangedObjectType ==
    ASSUME RegInv, NEW c \in Callers, call[c].at # "idle", call[c].op.kind # "create"
    PROVE  /\ ChangedObject(c) \in Seq(Entry)
           /\ Len(ChangedObject(c)) = Len(heap[call[c].obj])
           /\ Grows(heap[call[c].obj], ChangedObject(c))
           /\ Coherent(ChangedObject(c))
<1> DEFINE s == heap[call[c].obj]
           t == ChangedObject(c)
<1>1. call[c].op \in Calls /\ call[c].obj \in Objects /\ s \in Seq(Entry) /\ Coherent(s)
  BY BusyCall DEF RegInv, Currents
<1>2. Len(s) \in Nat /\ DOMAIN s = 1..Len(s) /\ \A i \in 1..Len(s) : s[i] \in Entry
  BY <1>1, SeqFacts
<1>3. ASSUME NEW i \in 1..Len(s)
      PROVE  /\ t[i] \in Entry
             /\ t[i].versions = s[i].versions /\ t[i].current = s[i].current
  <2>1. /\ Changed(call[c].op, s[i]) \in Entry
        /\ Changed(call[c].op, s[i]).versions = s[i].versions
        /\ Changed(call[c].op, s[i]).current = s[i].current
    BY <1>1, <1>2, ChangedType
  <2>2. t[i] = IF i \in Reached(c) THEN Changed(call[c].op, s[i]) ELSE s[i]
    BY <1>2 DEF ChangedObject
  <2> QED BY <1>2, <2>1, <2>2
<1>4. t \in [1..Len(s) -> Entry]
  <2>1. t = [i \in 1..Len(s) |-> t[i]]
    BY <1>2 DEF ChangedObject
  <2> QED BY <1>3, <2>1
<1>5. t \in Seq(Entry) /\ Len(t) = Len(s) /\ DOMAIN t = 1..Len(s)
  BY <1>2, <1>4, FunctionIsSeq
<1> QED BY <1>1, <1>2, <1>3, <1>5 DEF Grows, Coherent

LEMMA RegChange ==
    ASSUME RegInv, NEW c \in Callers, Change(c)
    PROVE  RegInv'
<1>1. /\ call[c].at = "found" /\ call[c].op.kind # "create"
      /\ heap' = [heap EXCEPT ![call[c].obj] = ChangedObject(c)]
      /\ call' = To(c, AfterChange(call[c].op))
      /\ UNCHANGED <<state, file, used, alone, expected, held>>
  <2>1. call[c].obj \in DOMAIN heap
    <3>1. call[c].at # "idle"
      BY DEF Change
    <3> QED BY <3>1, BusyCall DEF RegInv, Types, Heaps
  <2> QED BY <2>1 DEF Change, ChangedObject, AfterChange
<1>2. /\ call[c] \in Call /\ call[c].obj \in Objects /\ call[c].kept \in Seq(Entry)
      /\ heap[call[c].obj] \in Seq(Entry) /\ Ref(call[c], heap)
  BY <1>1, BusyCall DEF RegInv, Refs
<1> DEFINE k == [call[c] EXCEPT !.at = AfterChange(call[c].op)]
<1>3. k \in Call /\ call' = [call EXCEPT ![c] = k]
  BY <1>1, <1>2 DEF To, Call, Stages, AfterChange
<1>4. heap'[k.obj] = ChangedObject(c) /\ k.obj = call[c].obj
  BY <1>1, <1>2 DEF RegInv, Types, Heaps, Call
<1>5. ChangedObject(c) \in Seq(Entry) /\ Len(ChangedObject(c)) = Len(heap[call[c].obj])
  BY <1>1, ChangedObjectType
<1>6. k.holds => heap'[k.obj] # <<>>
  <2>1. k.holds = call[c].holds
    BY <1>2 DEF Call
  <2>2. call[c].holds => heap[call[c].obj] # <<>>
    BY <1>1, <1>2 DEF Ref, Holding
  <2> QED BY <1>2, <1>4, <1>5, <2>1, <2>2, SeqFacts
<1>7. Ref(k, heap')
  <2>1. k.at = AfterChange(call[c].op) /\ k.op = call[c].op /\ k.kept = call[c].kept
    BY <1>2 DEF Call
  <2> QED BY <1>2, <1>6, <2>1 DEF Ref, AfterChange
<1> QED BY <1>1, <1>2, <1>3, <1>4, <1>5, <1>7, ChangedObjectType, EntryStep

\* The object with its first entry replaced.
LEMMA FirstReplaced ==
    ASSUME NEW s \in Seq(Entry), s # <<>>, NEW e \in Entry
    PROVE  /\ [s EXCEPT ![1] = e] \in Seq(Entry) /\ Len([s EXCEPT ![1] = e]) = Len(s)
           /\ [s EXCEPT ![1] = e] # <<>> /\ [s EXCEPT ![1] = e][1] = e
           /\ s[1].versions \subseteq e.versions => Grows(s, [s EXCEPT ![1] = e])
           /\ Coherent(s) /\ e.current \in e.versions => Coherent([s EXCEPT ![1] = e])
<1>1. Len(s) \in Nat /\ DOMAIN s = 1..Len(s) /\ 1 \in 1..Len(s)
  BY SeqFacts
<1>2. /\ [s EXCEPT ![1] = e] \in Seq(Entry)
      /\ Len([s EXCEPT ![1] = e]) = Len(s)
      /\ \A j \in 1..Len(s) : [s EXCEPT ![1] = e][j] = IF j = 1 THEN e ELSE s[j]
  BY <1>1, ExceptSeq
<1>3. DOMAIN [s EXCEPT ![1] = e] = 1..Len(s) /\ [s EXCEPT ![1] = e] # <<>>
  BY <1>1, <1>2, SeqFacts
<1> QED BY <1>1, <1>2, <1>3 DEF Grows, Coherent

LEMMA RegDefine ==
    ASSUME RegInv, NEW c \in Callers, Define(c)
    PROVE  RegInv'
<1> DEFINE s == heap[call[c].obj]
           v == Added(call[c].op, s[1])
           e == [s[1] EXCEPT !.versions = @ \cup {v}]
           k == [call[c] EXCEPT !.at = "defined", !.version = v]
<1>1. /\ call[c].at = "defining" /\ call[c].holds /\ v \in Versions
      /\ heap' = [heap EXCEPT ![call[c].obj][1].versions = @ \cup {v}]
      /\ call' = [call EXCEPT ![c] = k]
      /\ UNCHANGED <<state, file, used, alone, expected, held>>
  BY DEF Define
<1>2. /\ call[c] \in Call /\ call[c].obj \in Objects /\ s \in Seq(Entry) /\ Ref(call[c], heap)
      /\ heap \in Heaps /\ Coherent(s)
  BY <1>1, BusyCall DEF RegInv, Refs, Types, Currents
<1>3. s # <<>> /\ s[1] \in Entry /\ s[1].current \in s[1].versions
  <2>1. s # <<>>
    BY <1>1, <1>2 DEF Ref, Holding
  <2> QED BY <1>2, <2>1, SeqFacts DEF Coherent
<1>4. /\ e \in Entry /\ v \in e.versions /\ s[1].versions \subseteq e.versions
      /\ e.current \in e.versions
  BY <1>1, <1>3 DEF Entry
<1>5. heap' = [heap EXCEPT ![call[c].obj] = [s EXCEPT ![1] = e]]
  BY <1>1
<1>6. k \in Call /\ k.obj = call[c].obj
  BY <1>1, <1>2 DEF Call, Stages
<1>7. heap'[call[c].obj] = [s EXCEPT ![1] = e]
  BY <1>2, <1>5 DEF Heaps
<1>8. Ref(k, heap')
  <2>1. k.at = "defined" /\ k.op = call[c].op /\ k.kept = call[c].kept /\ k.version = v
    BY <1>2 DEF Call
  <2>2. heap'[k.obj] # <<>> /\ heap'[k.obj][1] = e
    <3>1. [s EXCEPT ![1] = e] # <<>> /\ [s EXCEPT ![1] = e][1] = e
      BY <1>2, <1>3, <1>4, FirstReplaced
    <3> HIDE DEF k, e
    <3> QED BY <1>6, <1>7, <3>1
  <2> QED BY <1>1, <1>2, <1>4, <2>1, <2>2 DEF Ref
<1>9. /\ [s EXCEPT ![1] = e] \in Seq(Entry) /\ Grows(s, [s EXCEPT ![1] = e])
      /\ Coherent([s EXCEPT ![1] = e])
  BY <1>2, <1>3, <1>4, FirstReplaced
<1> HIDE DEF k, e, v
<1> QED BY <1>1, <1>5, <1>6, <1>8, <1>9, EntryStep

LEMMA RegPrefer ==
    ASSUME RegInv, NEW c \in Callers, Prefer(c)
    PROVE  RegInv'
<1> DEFINE s == heap[call[c].obj]
           e == [s[1] EXCEPT !.current = call[c].version]
           k == [call[c] EXCEPT !.at = "changed"]
<1>1. /\ call[c].at = "defined"
      /\ heap' = IF call[c].holds THEN [heap EXCEPT ![call[c].obj] = [s EXCEPT ![1] = e]]
                                  ELSE heap
      /\ call' = [call EXCEPT ![c] = k]
      /\ UNCHANGED <<state, file, used, alone, expected, held>>
  BY DEF Prefer, To
<1>2. /\ call[c] \in Call /\ call[c].obj \in Objects /\ s \in Seq(Entry) /\ Ref(call[c], heap)
      /\ heap \in Heaps /\ Coherent(s)
  BY <1>1, BusyCall DEF RegInv, Refs, Types, Currents
<1>3. k \in Call /\ k.obj = call[c].obj
  BY <1>2 DEF Call, Stages
<1>4. Ref(k, heap')
  BY <1>1, <1>2 DEF Ref, Call, Holding
<1>5. CASE call[c].holds
  <2>1. s # <<>> /\ s[1] \in Entry
    <3>1. s # <<>>
      BY <1>1, <1>2, <1>5 DEF Ref, Holding
    <3> QED BY <1>2, <3>1, SeqFacts
  <2>2. call[c].version \in Versions /\ call[c].version \in s[1].versions
    BY <1>1, <1>2, <1>5 DEF Ref
  <2>3. e \in Entry /\ e.versions = s[1].versions /\ e.current \in e.versions
    BY <2>1, <2>2 DEF Entry
  <2>4. /\ [s EXCEPT ![1] = e] \in Seq(Entry) /\ Grows(s, [s EXCEPT ![1] = e])
        /\ Coherent([s EXCEPT ![1] = e])
    BY <1>2, <2>1, <2>3, FirstReplaced
  <2>5. heap' = [heap EXCEPT ![call[c].obj] = [s EXCEPT ![1] = e]]
    BY <1>1, <1>5
  <2> HIDE DEF k, e
  <2> QED BY <1>1, <1>3, <1>4, <2>4, <2>5, EntryStep
<1>6. CASE ~call[c].holds
  <2>1. heap' = [heap EXCEPT ![call[c].obj] = s]
    BY <1>1, <1>2, <1>6 DEF Heaps
  <2>2. Grows(s, s)
    BY <1>2, GrowsSame
  <2> HIDE DEF k
  <2> QED BY <1>1, <1>2, <1>3, <1>4, <2>1, <2>2, EntryStep
<1> QED BY <1>5, <1>6

\* A step of c after which the objects nothing refers to are gone.
LEMMA CollectStep ==
    ASSUME RegInv, NEW c \in Callers, NEW h \in Heaps,
           \A x \in Objects : Coherent(h[x]),
           \A d \in Callers \ {c} : Refers(call[d]) => h[call[d].obj] = heap[call[d].obj],
           state' \in Objects, heap' = Collected(h, state', call'),
           NEW k \in {Idle} \cup Call, call' = [call EXCEPT ![c] = k],
           k.at # "idle" => Ref(k, h),
           file' \in Seq(Entry), Coherent(file'), used' = used,
           alone' \in {alone, FALSE}, held' \in {held, "held"}
    PROVE  RegInv'
<1>1. /\ call' \in [Callers -> {Idle} \cup Call] /\ call'[c] = k
      /\ \A d \in Callers \ {c} : call'[d] = call[d]
  BY DEF RegInv, Types
<1>2. /\ heap' \in Heaps
      /\ \A d \in Callers : Refers(call'[d]) => heap'[call'[d].obj] = h[call'[d].obj]
      /\ \A x \in Objects : heap'[x] \in {h[x], <<>>}
  <2>1. PICK calls \in [Callers -> {Idle} \cup Call] : calls = call'
    BY <1>1
  <2>2. /\ Collected(h, state', calls) \in Heaps
        /\ \A d \in Callers : Refers(calls[d]) =>
                Collected(h, state', calls)[calls[d].obj] = h[calls[d].obj]
        /\ \A x \in Objects : Collected(h, state', calls)[x] \in {h[x], <<>>}
    BY CollectedKeeps
  <2>3. heap' = Collected(h, state', calls)
    BY <2>1
  <2> QED BY <2>1, <2>2, <2>3
<1>3. Types'
  BY <1>1, <1>2, TypesOfStep DEF RegInv
<1>4. \A d \in Callers \ {c} : Refers(call[d]) =>
            Grows(heap[call[d].obj], heap'[call[d].obj])
  <2>1. ASSUME NEW d \in Callers \ {c}, Refers(call[d])
        PROVE  Grows(heap[call[d].obj], heap'[call[d].obj])
    <3>1. heap'[call[d].obj] = heap[call[d].obj]
      BY <1>1, <1>2, <2>1
    <3>2. heap[call[d].obj] \in Seq(Entry)
      BY <2>1, BusyCall DEF RegInv, Refers
    <3> QED BY <3>1, <3>2, GrowsSame
  <2> QED BY <2>1
<1>5. \A x \in Objects : Coherent(heap'[x])
  BY <1>2, EmptyIsCoherent
<1>6. call'[c].at # "idle" => Ref(call'[c], heap')
  BY <1>1, <1>2 DEF Ref, Refers, Holding
<1> QED BY <1>1, <1>3, <1>4, <1>5, <1>6, StepKeeps

LEMMA RegRefuse ==
    ASSUME RegInv, NEW c \in Callers, Refuse(c)
    PROVE  RegInv'
<1>1. Idle \in {Idle} \cup Call /\ Idle.at = "idle"
  BY DEF Idle
<1>2. /\ heap \in Heaps /\ state \in Objects /\ file \in Seq(Entry) /\ Coherent(file)
      /\ \A x \in Objects : Coherent(heap[x])
  BY DEF RegInv, Types, Currents
<1> QED BY <1>1, <1>2, CollectStep DEF Refuse

\* The call that copies the state, for the registry or for the file.
Copying(c, at) == [call[c] EXCEPT !.at = at, !.obj = state, !.holds = State # <<>>,
                                  !.kept = State]

LEMMA RegCopy ==
    ASSUME RegInv, NEW c \in Callers, Copy(c) \/ Take(c)
    PROVE  RegInv'
<1>1. /\ heap \in Heaps /\ state \in Objects /\ file \in Seq(Entry) /\ Coherent(file)
      /\ \A x \in Objects : Coherent(heap[x])
  BY DEF RegInv, Types, Currents
<1>2. call[c] \in Call /\ State \in Seq(Entry) /\ Coherent(State)
  <2>1. call[c].at # "idle"
    BY DEF Copy, Take
  <2> QED BY <1>1, <2>1, BusyCall DEF RegInv, State, Heaps
<1>3. PICK at \in {"copying", "taking"} :
        /\ call' = [call EXCEPT ![c] = Copying(c, at)]
        /\ heap' = Collected(heap, state, call')
        /\ UNCHANGED <<state, file, used, alone, expected, held>>
  BY DEF Copy, Take, Copying
<1>4. PICK k : k = Copying(c, at)
  OBVIOUS
<1>5. /\ k \in Call /\ k.at = at /\ k.obj = state
      /\ k.holds = (State # <<>>) /\ k.kept = State
  BY <1>1, <1>2, <1>4 DEF Call, Stages, Copying
<1>6. Ref(k, heap)
  <2>1. Len(State) \in Nat /\ heap[k.obj] = State
    BY <1>2, <1>5, SeqFacts DEF State
  <2>2. k.holds => State # <<>>
    BY <1>5
  <2> QED BY <1>2, <1>5, <2>1, <2>2 DEF Ref
<1> QED BY <1>1, <1>3, <1>4, <1>5, <1>6, CollectStep

\* The copy has the entries of its object, each with a current version it has.
LEMMA CopyType ==
    ASSUME RegInv, NEW c \in Callers, call[c].at \in {"copying", "taking"}
    PROVE  CopyOf(c) \in Seq(Entry) /\ Coherent(CopyOf(c))
<1> DEFINE old == call[c].kept
           new == heap[call[c].obj]
           copy == CopyOf(c)
<1>1. /\ old \in Seq(Entry) /\ new \in Seq(Entry) /\ Ref(call[c], heap)
      /\ call[c].holds \in BOOLEAN /\ Coherent(old) /\ Coherent(new)
  BY BusyCall DEF RegInv, Refs, Ref, Currents
<1>2. /\ Len(old) \in Nat /\ DOMAIN old = 1..Len(old) /\ \A i \in 1..Len(old) : old[i] \in Entry
      /\ Len(new) \in Nat /\ DOMAIN new = 1..Len(new) /\ \A i \in 1..Len(new) : new[i] \in Entry
  BY <1>1, SeqFacts
<1>3. copy = [i \in 1..Len(new) |->
                IF i \notin 1..Len(old) THEN new[i]
                ELSE IF i = 1 /\ ~call[c].holds THEN old[i]
                ELSE [new[i] EXCEPT !.status = old[i].status, !.policy = old[i].policy,
                                    !.current = old[i].current]]
  BY <1>2 DEF CopyOf
<1>4. ASSUME NEW i \in 1..Len(new)
      PROVE  copy[i] \in Entry /\ copy[i].current \in copy[i].versions
  <2>1. CASE i \notin 1..Len(old)
    BY <1>1, <1>2, <1>3, <2>1 DEF Coherent
  <2>2. CASE i \in 1..Len(old) /\ i = 1 /\ ~call[c].holds
    BY <1>1, <1>2, <1>3, <2>2 DEF Coherent
  <2>3. CASE i \in 1..Len(old) /\ ~(i = 1 /\ ~call[c].holds)
    <3>1. copy[i] = [new[i] EXCEPT !.status = old[i].status, !.policy = old[i].policy,
                                   !.current = old[i].current]
      BY <1>3, <2>3
    <3>2. old[i].versions \subseteq new[i].versions
      BY <1>1, <2>3 DEF Ref
    <3>3. old[i].current \in old[i].versions
      BY <1>1, <1>2, <2>3 DEF Coherent
    <3>4. new[i] \in Entry /\ old[i] \in Entry
      BY <1>2, <2>3
    <3> HIDE DEF copy
    <3> QED BY <3>1, <3>2, <3>3, <3>4 DEF Entry
  <2> QED BY <2>1, <2>2, <2>3
<1>5. copy \in [1..Len(new) -> Entry]
  <2>1. copy = [i \in 1..Len(new) |-> copy[i]]
    BY <1>3
  <2> HIDE DEF copy
  <2> QED BY <1>4, <2>1
<1> HIDE DEF copy
<1>6. copy \in Seq(Entry) /\ DOMAIN copy = 1..Len(new)
  BY <1>2, <1>5, FunctionIsSeq
<1>7. Coherent(copy)
  BY <1>4, <1>6 DEF Coherent
<1> QED BY <1>6, <1>7 DEF copy

\* The call that has what it copied.
Released(c, at, kept) ==
    [at |-> at, op |-> call[c].op, obj |-> 0, holds |-> FALSE, version |-> None, kept |-> kept]

LEMMA ReleasedCall ==
    ASSUME RegInv, NEW c \in Callers, call[c].at # "idle",
           NEW at \in {"installed", "writing"}, NEW kept \in Seq(Entry), Coherent(kept),
           NEW h
    PROVE  /\ Released(c, at, kept) \in Call /\ Ref(Released(c, at, kept), h)
           /\ Apart(c, at, kept) = [call EXCEPT ![c] = Released(c, at, kept)]
<1>1. call[c].op \in Calls
  BY BusyCall DEF RegInv
<1>2. Released(c, at, kept) \in Call
  BY <1>1, ObjectsNat DEF Released, Call, Stages
<1>3. Ref(Released(c, at, kept), h)
  BY DEF Released, Ref, Holding
<1> QED BY <1>2, <1>3 DEF Apart, Released

LEMMA RegInstall ==
    ASSUME RegInv, NEW c \in Callers, Install(c)
    PROVE  RegInv'
<1> DEFINE h == [heap EXCEPT ![Unused] = CopyOf(c)]
           k == Released(c, "installed", <<>>)
<1>1. /\ heap \in Heaps /\ file \in Seq(Entry) /\ Coherent(file)
      /\ \A x \in Objects : Coherent(heap[x])
      /\ Unused \in Objects /\ Unused \notin Live(state, call)
  BY UnusedExists DEF RegInv, Types, Currents
<1>2. call[c].at = "copying" /\ CopyOf(c) \in Seq(Entry) /\ Coherent(CopyOf(c))
  BY CopyType DEF Install
<1>3. /\ h \in Heaps
      /\ \A x \in Objects : h[x] = IF x = Unused THEN CopyOf(c) ELSE heap[x]
  BY <1>1, <1>2 DEF Heaps
<1>4. \A x \in Objects : Coherent(h[x])
  BY <1>1, <1>2, <1>3
<1>5. \A d \in Callers \ {c} : Refers(call[d]) => h[call[d].obj] = heap[call[d].obj]
  <2>1. ASSUME NEW d \in Callers \ {c}, Refers(call[d])
        PROVE  h[call[d].obj] = heap[call[d].obj]
    <3>1. call[d].obj \in Objects
      BY <2>1, BusyCall DEF RegInv, Refers
    <3>2. call[d].obj \in Live(state, call)
      BY <2>1 DEF Live
    <3> QED BY <1>1, <1>3, <3>1, <3>2
  <2> QED BY <2>1
<1>6. k \in Call /\ Ref(k, h) /\ Apart(c, "installed", <<>>) = [call EXCEPT ![c] = k]
  BY <1>2, ReleasedCall, EmptySeq, EmptyIsCoherent
<1>7. /\ state' = Unused /\ call' = [call EXCEPT ![c] = k]
      /\ heap' = Collected(h, state', call')
      /\ UNCHANGED <<file, used, alone, expected, held>>
  BY <1>6 DEF Install
<1> HIDE DEF h, k
<1> QED BY <1>1, <1>3, <1>4, <1>5, <1>6, <1>7, CollectStep

LEMMA RegTaken ==
    ASSUME RegInv, NEW c \in Callers, Taken(c)
    PROVE  RegInv'
<1>1. /\ heap \in Heaps /\ state \in Objects /\ file \in Seq(Entry) /\ Coherent(file)
      /\ \A x \in Objects : Coherent(heap[x])
  BY DEF RegInv, Types, Currents
<1>2. call[c].at = "taking" /\ CopyOf(c) \in Seq(Entry) /\ Coherent(CopyOf(c))
  BY CopyType DEF Taken
<1>3. PICK k : k = Released(c, "writing", CopyOf(c))
  OBVIOUS
<1>4. k \in Call /\ Ref(k, heap) /\ Apart(c, "writing", CopyOf(c)) = [call EXCEPT ![c] = k]
  BY <1>2, <1>3, ReleasedCall
<1>5. /\ call' = [call EXCEPT ![c] = k]
      /\ heap' = Collected(heap, state, call')
      /\ UNCHANGED <<state, file, used, alone, expected, held>>
  BY <1>4 DEF Taken
<1> QED BY <1>1, <1>4, <1>5, CollectStep

LEMMA RegWrite ==
    ASSUME RegInv, NEW c \in Callers, Write(c)
    PROVE  RegInv'
<1>1. Idle \in {Idle} \cup Call /\ Idle.at = "idle"
  BY DEF Idle
<1>2. /\ heap \in Heaps /\ state \in Objects
      /\ \A x \in Objects : Coherent(heap[x])
  BY DEF RegInv, Types, Currents
<1>3. call[c].kept \in Seq(Entry) /\ Coherent(call[c].kept)
  <2>1. call[c].at # "idle"
    BY DEF Write
  <2> QED BY <2>1, BusyCall DEF RegInv, Refs, Ref
<1> QED BY <1>1, <1>2, <1>3, CollectStep DEF Write

LEMMA RegRestart == ASSUME RegInv, Restart PROVE RegInv'
<1>1. file \in Seq(Entry) /\ Coherent(file) /\ <<>> \in Seq(Entry)
  BY EmptySeq DEF RegInv, Types, Currents
<1>2. /\ state' = 0 /\ call' = [c \in Callers |-> Idle] /\ file' = file
      /\ heap' = [x \in Objects |-> IF x = 0 THEN file ELSE <<>>]
  BY DEF Restart
<1>3. Types'
  <2>1. used' \in [calls : 0..MaxCalls, restarts : 0..MaxRestarts]
    BY Bounds DEF Restart, RegInv, Types
  <2>2. alone' \in BOOLEAN /\ held' \in {"no", "pending", "held"}
    BY DEF Restart, RegInv, Types
  <2> QED BY <1>1, <1>2, <2>1, <2>2, ObjectsNat DEF Types, Heaps
<1>4. Currents'
  BY <1>1, <1>2, EmptyIsCoherent DEF Currents
<1>5. Refs'
  BY <1>2 DEF Refs, Busy, Idle
<1> QED BY <1>3, <1>4, <1>5 DEF RegInv

LEMMA RegNext == ASSUME RegInv, [Next]_vars PROVE RegInv'
<1>1. CASE Next
  <2>1. ASSUME NEW c \in Callers, Operate(c) \/ Authorize(c) \/ Record(c)
        PROVE  RegInv'
    BY <2>1, BeginCases, RegBegin
  <2> QED BY <1>1, <2>1, RegRegister, RegChange, RegDefine, RegPrefer, RegRefuse, RegCopy,
             RegInstall, RegTaken, RegWrite, RegRestart DEF Next
<1>2. CASE UNCHANGED vars
  BY <1>2 DEF vars, RegInv, Types, Refs, Ref, Currents, Coherent, Busy
<1> QED BY <1>1, <1>2

LEMMA RegInvariant == Spec => []RegInv
BY RegInit, RegNext, PTL DEF Spec

\* Whatever calls meet, every state object and the file hold entries the registry knows
\* how to read: a status, a policy, versions.
THEOREM PromptTypeCorrect == Spec => []TypeOK
<1>1. RegInv => TypeOK
  <2> SUFFICES ASSUME RegInv PROVE TypeOK
    OBVIOUS
  <2>1. DOMAIN heap = Objects /\ \A x \in Objects : IsState(heap[x])
    BY SeqFacts DEF RegInv, Types, Heaps
  <2>2. IsState(file) /\ state \in Objects
    BY SeqFacts DEF RegInv, Types
  <2>3. \A c \in Busy : /\ call[c].op \in Calls /\ call[c].obj \in Objects
                        /\ call[c].version \in Versions \cup {None}
                        /\ IsState(call[c].kept)
    BY BusyCall, SeqFacts DEF RegInv, Busy
  <2> QED BY <2>1, <2>2, <2>3 DEF RegInv, Types, TypeOK
<1> QED BY <1>1, RegInvariant, PTL

\* update_prompt_service_definition adds the version before it makes it the current one,
\* and a copy of the state takes the versions after the current one: no state and no file
\* ever names a current version that is not there.
THEOREM CurrentStaysAVersion == Spec => []CurrentVersionExists
<1>1. RegInv => CurrentVersionExists
  BY DEF RegInv, Currents, Coherent, CurrentVersionExists
<1> QED BY <1>1, RegInvariant, PTL

---------------------------------------------------------------------------
(* A call that no other overlaps.                                           *)

\* An entry with a version more, which is the current one; and with another current one.
Versioned(e, v) == [e EXCEPT !.versions = @ \cup {v}, !.current = v]
Preferred(e, v) == [e EXCEPT !.current = v]

\* Where such a call is: s is the state, in object x, and want what it should leave.
Lone(k, x, s, want) ==
    /\ k.at \in Holding => k.obj = x /\ (k.holds <=> s # <<>>)
    /\ k.at = "found" => Applies(k.op, s) /\ want = Effect(k.op, s)
    /\ k.at = "defining" =>
            k.holds /\ LET v == Added(k.op, s[1])
                       IN  v \in Versions => want = [s EXCEPT ![1] = Versioned(s[1], v)]
    /\ k.at = "defined" =>
            k.holds /\ want = [s EXCEPT ![1] = Preferred(s[1], k.version)]
    /\ k.at \in {"changed", "copying", "installed", "taking", "writing"} => want = s
    /\ k.at \in {"copying", "taking", "writing"} => k.kept = s

Alone ==
    alone =>
        /\ Busy = {} => State = expected /\ file = expected
        /\ \A c, d \in Busy : c = d
        /\ \A c \in Busy : Lone(call[c], state, State, expected)

\* A step of a call that is alone stays with it.
LEMMA LoneStep ==
    ASSUME Types, Alone, NEW c \in Callers, call[c].at # "idle",
           \A d \in Callers \ {c} : alone => call'[d] = call[d],
           alone' \in {alone, FALSE},
           alone' => IF call'[c].at = "idle" THEN State' = expected' /\ file' = expected'
                     ELSE Lone(call'[c], state', State', expected')
    PROVE  Alone'
<1> SUFFICES ASSUME alone' PROVE Alone'
  BY DEF Alone
<1>1. alone
  BY DEF Types
<1>2. c \in Busy /\ \A d \in Callers \ {c} : d \notin Busy
  BY <1>1, BusyCall DEF Alone, Busy
<1>3. \A d \in Callers \ {c} : d \notin Busy'
  BY <1>1, <1>2 DEF Busy
<1>4. c \in Busy' <=> call'[c].at # "idle"
  BY DEF Busy
<1>5. Busy' \subseteq {c}
  BY <1>3 DEF Busy
<1>6. Busy' = {} => State' = expected' /\ file' = expected'
  BY <1>4
<1>7. \A d \in Busy' : d = c /\ Lone(call'[d], state', State', expected')
  BY <1>4, <1>5
<1> QED BY <1>5, <1>6, <1>7 DEF Alone

\* What Alone says of the call of c.
LEMMA LoneCall ==
    ASSUME RegInv, Alone, alone, NEW c \in Callers, call[c].at # "idle"
    PROVE  /\ Lone(call[c], state, State, expected)
           /\ \A d \in Callers \ {c} : call[d].at = "idle"
           /\ State \in Seq(Entry) /\ state \in Objects /\ heap \in Heaps
           /\ State = heap[state]
<1>1. c \in Busy
  BY DEF Busy
<1>2. \A d \in Callers \ {c} : call[d].at = "idle"
  BY <1>1 DEF Alone, Busy
<1> QED BY <1>1, <1>2 DEF Alone, RegInv, Types, State, Heaps

LEMMA LoneInit == Init => Alone
<1> SUFFICES ASSUME Init PROVE Alone
  OBVIOUS
<1>1. Busy = {}
  BY DEF Init, Busy, Idle
<1>2. State = expected /\ file = expected
  BY ObjectsNat DEF Init, State
<1> QED BY <1>1, <1>2 DEF Alone

LEMMA LoneBegin ==
    ASSUME RegInv, NEW c \in Callers, NEW o \in Calls, Begin(c, o)
    PROVE  Alone'
<1> SUFFICES ASSUME alone' PROVE Alone'
  BY DEF Alone
<1>1. Busy = {} /\ expected' = Effect(o, State) /\ UNCHANGED <<heap, state>>
  BY DEF Begin
<1>2. call' = [call EXCEPT ![c] = Begun(o)]
  BY DEF Begin, Begun
<1>3. /\ call'[c] = Begun(o)
      /\ \A d \in Callers \ {c} : call'[d] = call[d]
  BY <1>2 DEF RegInv, Types
<1>4. Busy' = {c}
  BY <1>1, <1>3 DEF Busy, Begun
<1>5. State' = State
  BY <1>1 DEF State
<1>6. Lone(Begun(o), state, State, Effect(o, State))
  BY DEF Lone, Begun, Begin
<1>7. Lone(call'[c], state', State', expected')
  BY <1>1, <1>3, <1>5, <1>6
<1> QED BY <1>4, <1>7 DEF Alone

LEMMA LoneRegister ==
    ASSUME RegInv, Alone, NEW c \in Callers, Register(c)
    PROVE  Alone'
<1> DEFINE new == Registration(call[c].op)
           replaces == call[c].holds /\ call[c].obj = state
<1>1. /\ call[c].at = "found" /\ call[c].op.kind = "create"
      /\ UNCHANGED <<state, file, used, alone, expected, held>>
      /\ heap' = [heap EXCEPT ![state] =
                        IF replaces THEN [@ EXCEPT ![1] = new] ELSE Append(@, new)]
      /\ call' = [(IF replaces THEN Detached(c) ELSE call) EXCEPT ![c].at = "changed"]
  BY DEF Register
<1>2. call[c] \in Call /\ call[c].holds \in BOOLEAN
  BY <1>1, BusyCall DEF RegInv
<1>3. ASSUME alone
      PROVE  /\ \A d \in Callers \ {c} : call'[d] = call[d]
             /\ call'[c] = [call[c] EXCEPT !.at = "changed"]
             /\ State' = expected
  <2>1. /\ Lone(call[c], state, State, expected)
        /\ \A d \in Callers \ {c} : call[d].at = "idle"
        /\ State \in Seq(Entry) /\ state \in Objects /\ heap \in Heaps /\ State = heap[state]
    BY <1>1, <1>3, LoneCall
  <2>2. \A d \in Callers \ {c} : call'[d] = call[d]
    BY <1>1, <2>1 DEF Detached, RegInv, Types
  <2>3. call'[c] = [call[c] EXCEPT !.at = "changed"]
    BY <1>1 DEF Detached, RegInv, Types
  <2>4. /\ call[c].obj = state /\ (call[c].holds <=> State # <<>>)
        /\ expected = Effect(call[c].op, State)
    BY <1>1, <2>1 DEF Lone, Holding
  <2>5. State' = IF replaces THEN [State EXCEPT ![1] = new] ELSE Append(State, new)
    BY <1>1, <2>1 DEF Heaps, State
  <2>6. CASE State = <<>>
    <3>1. State' = Append(<<>>, new)
      BY <2>4, <2>5, <2>6
    <3>2. Append(<<>>, new) = <<new>>
      OBVIOUS
    <3>3. expected = <<new>>
      BY <1>1, <2>4, <2>6 DEF Effect
    <3> QED BY <2>2, <2>3, <3>1, <3>2, <3>3
  <2>7. CASE State # <<>>
    <3>1. State' = [State EXCEPT ![1] = new]
      BY <2>4, <2>5, <2>7
    <3>2. expected = [State EXCEPT ![1] = new]
      BY <1>1, <2>4, <2>7 DEF Effect
    <3> QED BY <2>2, <2>3, <3>1, <3>2
  <2> QED BY <2>6, <2>7
<1>4. alone => Lone(call'[c], state', State', expected')
  <2>1. [call[c] EXCEPT !.at = "changed"].at = "changed"
    BY <1>2 DEF Call
  <2> QED BY <1>1, <1>3, <2>1 DEF Lone, Holding
<1>5. alone => call'[c].at # "idle"
  BY <1>2, <1>3 DEF Call
<1> QED BY <1>1, <1>3, <1>4, <1>5, LoneStep DEF RegInv

\* What an operation other than a registration makes of one entry.
EffectOn(o, e) ==
    IF o.kind # "update" \/ Added(o, e) = None THEN Changed(o, e)
    ELSE Versioned(Changed(o, e), Added(o, e))

LEMMA EffectPointwise ==
    ASSUME NEW o, o.kind # "create", NEW s
    PROVE  Effect(o, s) =
                [i \in DOMAIN s |-> IF i = 1 \/ o.kind = "migrate" THEN EffectOn(o, s[i]) ELSE s[i]]
BY DEF Effect, EffectOn, Versioned

\* The version an update adds depends on the versions only.
LEMMA AddedAlike ==
    ASSUME NEW o, NEW e, NEW d, e.versions = d.versions
    PROVE  Added(o, e) = Added(o, d)
BY DEF Added

\* An update of two steps: the first change, then the version.
LEMMA UpdateInTwo ==
    ASSUME NEW o \in Calls, o.kind = "update", NEW s \in Seq(Entry), s # <<>>,
           NEW t \in Seq(Entry), t = [s EXCEPT ![1] = Changed(o, s[1])],
           Added(o, t[1]) \in Versions
    PROVE  Effect(o, s) = [t EXCEPT ![1] = Versioned(t[1], Added(o, t[1]))]
<1> DEFINE v == Added(o, t[1])
           e == Versioned(t[1], v)
<1>1. /\ Len(s) \in Nat /\ DOMAIN s = 1..Len(s) /\ 1 \in 1..Len(s) /\ s[1] \in Entry
      /\ s = [i \in 1..Len(s) |-> s[i]]
  BY SeqFacts
<1>2. Changed(o, s[1]) \in Entry /\ Changed(o, s[1]).versions = s[1].versions
  BY <1>1, ChangedType
<1>3. t[1] = Changed(o, s[1]) /\ DOMAIN t = 1..Len(s) /\ \A i \in 1..Len(s) : i # 1 => t[i] = s[i]
  BY <1>1
<1>4. Added(o, s[1]) = v /\ v # None
  BY <1>2, <1>3, AddedAlike, Bounds
<1>5. EffectOn(o, s[1]) = e
  BY <1>3, <1>4 DEF EffectOn
<1>6. Effect(o, s) = [i \in 1..Len(s) |-> IF i = 1 THEN e ELSE s[i]]
  <2>1. Effect(o, s) = [i \in DOMAIN s |->
                            IF i = 1 \/ o.kind = "migrate" THEN EffectOn(o, s[i]) ELSE s[i]]
    BY EffectPointwise
  <2> HIDE DEF e
  <2> QED BY <1>1, <1>5, <2>1
<1>7. [t EXCEPT ![1] = e] = [i \in 1..Len(s) |-> IF i = 1 THEN e ELSE t[i]]
  <2>1. t = [i \in 1..Len(s) |-> t[i]]
    BY <1>3, SeqFacts
  <2> HIDE DEF e
  <2> QED BY <1>1, <1>3, <2>1
<1>8. [t EXCEPT ![1] = e] = [i \in 1..Len(s) |-> IF i = 1 THEN e ELSE s[i]]
  <2> HIDE DEF e
  <2> QED BY <1>3, <1>7
<1> QED BY <1>6, <1>8

LEMMA LoneChange ==
    ASSUME RegInv, Alone, NEW c \in Callers, Change(c)
    PROVE  Alone'
<1> DEFINE o == call[c].op
           k == [call[c] EXCEPT !.at = AfterChange(o)]
<1>1. /\ call[c].at = "found" /\ o.kind # "create"
      /\ heap' = [heap EXCEPT ![call[c].obj] = ChangedObject(c)]
      /\ call' = To(c, AfterChange(o))
      /\ UNCHANGED <<state, file, used, alone, expected, held>>
  <2>1. call[c].obj \in DOMAIN heap
    <3>1. call[c].at # "idle"
      BY DEF Change
    <3> QED BY <3>1, BusyCall DEF RegInv, Types, Heaps
  <2> QED BY <2>1 DEF Change, ChangedObject, AfterChange
<1>2. /\ call[c] \in Call /\ call[c].obj \in Objects /\ o \in Calls /\ call[c].holds \in BOOLEAN
      /\ AfterChange(o) \in {"defining", "changed"}
  BY <1>1, BusyCall DEF RegInv, AfterChange
<1>3. call'[c] = k /\ \A d \in Callers \ {c} : call'[d] = call[d]
  <2>1. call' = [call EXCEPT ![c] = k]
    BY <1>1, <1>2 DEF To, Call
  <2> HIDE DEF k
  <2> QED BY <2>1 DEF RegInv, Types
<1>4. /\ k.at = AfterChange(o) /\ k.op = o /\ k.obj = call[c].obj /\ k.holds = call[c].holds
  BY <1>2 DEF Call
<1>5. ASSUME alone PROVE Lone(k, state', State', expected')
  <2>1. /\ Lone(call[c], state, State, expected)
        /\ State \in Seq(Entry) /\ state \in Objects /\ heap \in Heaps /\ State = heap[state]
    BY <1>1, <1>5, LoneCall
  <2>2. /\ call[c].obj = state /\ (call[c].holds <=> State # <<>>)
        /\ Applies(o, State) /\ expected = Effect(o, State)
    BY <1>1, <2>1 DEF Lone, Holding
  <2>3. State' = ChangedObject(c)
    BY <1>1, <2>1, <2>2 DEF Heaps, State
  <2>4. /\ ChangedObject(c) \in Seq(Entry) /\ Len(ChangedObject(c)) = Len(State)
        /\ Len(State) \in Nat /\ DOMAIN State = 1..Len(State)
        /\ State # <<>> <=> 1 \in 1..Len(State)
        /\ \A i \in 1..Len(State) : State[i] \in Entry
    BY <1>1, <2>1, <2>2, ChangedObjectType, SeqFacts
  <2>5. ChangedObject(c) # <<>> <=> State # <<>>
    BY <2>4, SeqFacts
  <2>6. \A i \in 1..Len(State) : i \in Reached(c) <=> i = 1 \/ o.kind = "migrate"
    <3>1. CASE o.kind = "migrate"
      BY <2>1, <2>2, <2>4, <3>1 DEF Reached
    <3>2. CASE o.kind # "migrate"
      <4>1. call[c].holds
        BY <1>1, <2>2, <3>2 DEF Applies
      <4> QED BY <3>2, <4>1 DEF Reached
    <3> QED BY <3>1, <3>2
  <2>7. ChangedObject(c) = [i \in 1..Len(State) |->
                        IF i = 1 \/ o.kind = "migrate" THEN Changed(o, State[i]) ELSE State[i]]
    BY <2>1, <2>2, <2>4, <2>6 DEF ChangedObject
  <2>8. CASE AfterChange(o) = "changed"
    <3>1. ASSUME NEW e PROVE EffectOn(o, e) = Changed(o, e)
      <4>1. CASE o.kind # "update"
        BY <4>1 DEF EffectOn
      <4>2. CASE o.kind = "update"
        <5>1. ~o.define /\ o.version = None
          BY <2>8, <4>2 DEF AfterChange
        <5>2. Added(o, e) = None
          BY <5>1 DEF Added
        <5> QED BY <5>2 DEF EffectOn
      <4> QED BY <4>1, <4>2
    <3>2. expected = ChangedObject(c)
      <4>1. expected = [i \in DOMAIN State |->
                IF i = 1 \/ o.kind = "migrate" THEN EffectOn(o, State[i]) ELSE State[i]]
        BY <1>1, <2>2, EffectPointwise
      <4> QED BY <2>4, <2>7, <3>1, <4>1
    <3> QED BY <1>1, <1>4, <2>3, <2>8, <3>2 DEF Lone, Holding
  <2>9. CASE AfterChange(o) = "defining"
    <3>1. o.kind = "update" /\ State # <<>>
      BY <2>2, <2>9 DEF AfterChange, Applies
    <3>2. ChangedObject(c) = [State EXCEPT ![1] = Changed(o, State[1])]
      <4>1. State = [i \in 1..Len(State) |-> State[i]]
        BY <2>1, SeqFacts
      <4> QED BY <2>4, <2>7, <3>1, <4>1
    <3>3. Added(o, ChangedObject(c)[1]) \in Versions =>
            expected = [ChangedObject(c) EXCEPT
                ![1] = Versioned(ChangedObject(c)[1], Added(o, ChangedObject(c)[1]))]
      BY <1>2, <2>1, <2>2, <2>4, <3>1, <3>2, UpdateInTwo
    <3> HIDE DEF k, o
    <3> QED BY <1>1, <1>4, <2>2, <2>3, <2>5, <2>9, <3>1, <3>3 DEF Lone, Holding
  <2> QED BY <1>2, <2>8, <2>9
<1> HIDE DEF k
<1> QED BY <1>1, <1>2, <1>3, <1>4, <1>5, LoneStep DEF RegInv

LEMMA LoneDefine ==
    ASSUME RegInv, Alone, NEW c \in Callers, Define(c)
    PROVE  Alone'
<1> DEFINE s == heap[call[c].obj]
           v == Added(call[c].op, s[1])
           e == [s[1] EXCEPT !.versions = @ \cup {v}]
           k == [call[c] EXCEPT !.at = "defined", !.version = v]
<1>1. /\ call[c].at = "defining" /\ v \in Versions
      /\ heap' = [heap EXCEPT ![call[c].obj] = [s EXCEPT ![1] = e]]
      /\ call' = [call EXCEPT ![c] = k]
      /\ UNCHANGED <<state, file, used, alone, expected, held>>
  BY DEF Define
<1>2. call[c] \in Call
  BY <1>1, BusyCall DEF RegInv
<1>3. call'[c] = k /\ \A d \in Callers \ {c} : call'[d] = call[d]
  BY <1>1 DEF RegInv, Types
<1>4. k.at = "defined" /\ k.obj = call[c].obj /\ k.holds = call[c].holds /\ k.version = v
  BY <1>2 DEF Call
<1>5. ASSUME alone PROVE Lone(k, state', State', expected')
  <2>1. /\ Lone(call[c], state, State, expected)
        /\ State \in Seq(Entry) /\ state \in Objects /\ heap \in Heaps /\ State = heap[state]
    BY <1>1, <1>5, LoneCall
  <2>2. /\ call[c].obj = state /\ call[c].holds /\ State # <<>> /\ s = State
        /\ expected = [s EXCEPT ![1] = Versioned(s[1], v)]
    BY <1>1, <2>1 DEF Lone, Holding
  <2>3. s[1] \in Entry /\ e \in Entry /\ 1 \in DOMAIN s
    <3>1. s[1] \in Entry /\ 1 \in DOMAIN s
      BY <2>1, <2>2, SeqFacts
    <3> QED BY <1>1, <3>1 DEF Entry
  <2>4. State' = [s EXCEPT ![1] = e]
    BY <1>1, <2>1, <2>2 DEF Heaps, State
  <2>5. [s EXCEPT ![1] = e] # <<>> /\ [s EXCEPT ![1] = e][1] = e
    BY <2>1, <2>2, <2>3, FirstReplaced
  <2>6. Versioned(s[1], v) = Preferred(e, v)
    BY <2>3 DEF Entry, Versioned, Preferred
  <2>7. expected = [[s EXCEPT ![1] = e] EXCEPT ![1] = Preferred([s EXCEPT ![1] = e][1], v)]
    <3> HIDE DEF e, s, v
    <3> QED BY <2>2, <2>5, <2>6
  <2> HIDE DEF k, e, s, v
  <2> QED BY <1>1, <1>4, <2>2, <2>4, <2>5, <2>7 DEF Lone, Holding
<1> HIDE DEF k
<1> QED BY <1>1, <1>3, <1>4, <1>5, LoneStep DEF RegInv

LEMMA LonePrefer ==
    ASSUME RegInv, Alone, NEW c \in Callers, Prefer(c)
    PROVE  Alone'
<1> DEFINE s == heap[call[c].obj]
           k == [call[c] EXCEPT !.at = "changed"]
<1>1. /\ call[c].at = "defined"
      /\ call[c].holds => heap' = [heap EXCEPT ![call[c].obj] =
                            [s EXCEPT ![1] = Preferred(s[1], call[c].version)]]
      /\ call' = [call EXCEPT ![c] = k]
      /\ UNCHANGED <<state, file, used, alone, expected, held>>
  BY DEF Prefer, To, Preferred
<1>2. call[c] \in Call
  BY <1>1, BusyCall DEF RegInv
<1>3. call'[c] = k /\ \A d \in Callers \ {c} : call'[d] = call[d]
  BY <1>1 DEF RegInv, Types
<1>4. k.at = "changed"
  BY <1>2 DEF Call
<1>5. ASSUME alone PROVE Lone(k, state', State', expected')
  <2>1. /\ Lone(call[c], state, State, expected)
        /\ state \in Objects /\ heap \in Heaps /\ State = heap[state]
    BY <1>1, <1>5, LoneCall
  <2>2. /\ call[c].obj = state /\ call[c].holds /\ s = State
        /\ expected = [State EXCEPT ![1] = Preferred(State[1], call[c].version)]
    BY <1>1, <2>1 DEF Lone, Holding
  <2>3. State' = expected
    BY <1>1, <2>1, <2>2 DEF Heaps, State
  <2> HIDE DEF k
  <2> QED BY <1>1, <1>4, <2>3 DEF Lone, Holding
<1> HIDE DEF k
<1> QED BY <1>1, <1>3, <1>4, <1>5, LoneStep DEF RegInv

\* What is collected is never the state.
LEMMA CollectedState ==
    ASSUME RegInv, NEW c \in Callers, NEW h \in Heaps, state' \in Objects,
           heap' = Collected(h, state', call'),
           NEW k \in {Idle} \cup Call, call' = [call EXCEPT ![c] = k]
    PROVE  /\ State' = h[state'] /\ call'[c] = k
           /\ \A d \in Callers \ {c} : call'[d] = call[d]
<1>1. /\ call' \in [Callers -> {Idle} \cup Call] /\ call'[c] = k
      /\ \A d \in Callers \ {c} : call'[d] = call[d]
  BY DEF RegInv, Types
<1>2. PICK calls \in [Callers -> {Idle} \cup Call] : calls = call'
  BY <1>1
<1>3. Collected(h, state', calls)[state'] = h[state']
  BY CollectedKeeps
<1> QED BY <1>1, <1>2, <1>3 DEF State

LEMMA LoneCopy ==
    ASSUME RegInv, Alone, NEW c \in Callers, Copy(c) \/ Take(c)
    PROVE  Alone'
<1>1. PICK at \in {"copying", "taking"} :
        /\ \/ call[c].at \in {"changed", "installed"}
           \/ call[c].at = "defining" /\ ~call[c].holds
        /\ call' = [call EXCEPT ![c] = Copying(c, at)]
        /\ heap' = Collected(heap, state', call')
        /\ UNCHANGED <<state, file, used, alone, expected, held>>
  BY DEF Copy, Take, Copying
<1>2. heap \in Heaps /\ state' \in Objects /\ call[c] \in Call /\ State \in Seq(Entry)
  BY <1>1, BusyCall DEF RegInv, Types, State, Heaps
<1>3. PICK k : k = Copying(c, at)
  OBVIOUS
<1>4. /\ k \in Call /\ k.at = at /\ k.obj = state
      /\ (k.holds <=> State # <<>>) /\ k.kept = State
  BY <1>1, <1>2, <1>3 DEF Call, Stages, Copying
<1>5. /\ State' = State /\ call'[c] = k
      /\ \A d \in Callers \ {c} : call'[d] = call[d]
  <2>1. call' = [call EXCEPT ![c] = k] /\ heap' = Collected(heap, state', call')
    BY <1>1, <1>3
  <2>2. /\ State' = heap[state'] /\ call'[c] = k
        /\ \A d \in Callers \ {c} : call'[d] = call[d]
    BY <1>2, <1>4, <2>1, CollectedState
  <2> QED BY <1>1, <2>2 DEF State
<1>6. alone => State = expected
  <2>1. alone => Lone(call[c], state, State, expected)
    BY <1>1, LoneCall
  <2> QED BY <1>1, <2>1 DEF Lone
<1>7. alone => Lone(k, state', State', expected')
  BY <1>1, <1>4, <1>5, <1>6 DEF Lone
<1> QED BY <1>1, <1>4, <1>5, <1>7, LoneStep DEF RegInv

\* A copy that nothing comes between is the state it is made of.
LEMMA LoneCopyIs ==
    ASSUME RegInv, Alone, alone, NEW c \in Callers, call[c].at \in {"copying", "taking"}
    PROVE  CopyOf(c) = State /\ State = expected
<1>1. /\ Lone(call[c], state, State, expected)
      /\ State \in Seq(Entry) /\ State = heap[state]
  BY LoneCall
<1>2. /\ call[c].obj = state /\ (call[c].holds <=> State # <<>>)
      /\ expected = State /\ call[c].kept = State
  BY <1>1 DEF Lone, Holding
<1>3. /\ DOMAIN State = 1..Len(State) /\ State = [i \in 1..Len(State) |-> State[i]]
      /\ State # <<>> <=> 1 \in 1..Len(State)
      /\ \A i \in 1..Len(State) : State[i] \in Entry
  BY <1>1, SeqFacts
<1>4. CopyOf(c) = [i \in 1..Len(State) |->
          IF i = 1 /\ ~call[c].holds THEN State[i]
          ELSE [State[i] EXCEPT !.status = State[i].status, !.policy = State[i].policy,
                                !.current = State[i].current]]
  BY <1>1, <1>2, <1>3 DEF CopyOf
<1>5. \A e \in Entry : [e EXCEPT !.status = e.status, !.policy = e.policy,
                                 !.current = e.current] = e
  BY DEF Entry
<1>6. \A i \in 1..Len(State) :
          (IF i = 1 /\ ~call[c].holds THEN State[i]
           ELSE [State[i] EXCEPT !.status = State[i].status, !.policy = State[i].policy,
                                 !.current = State[i].current]) = State[i]
  BY <1>3, <1>5
<1>7. CopyOf(c) = [i \in 1..Len(State) |-> State[i]]
  BY <1>4, <1>6, Zenon
<1> QED BY <1>2, <1>3, <1>7

LEMMA LoneInstall ==
    ASSUME RegInv, Alone, NEW c \in Callers, Install(c)
    PROVE  Alone'
<1> DEFINE h == [heap EXCEPT ![Unused] = CopyOf(c)]
           k == Released(c, "installed", <<>>)
<1>1. call[c].at = "copying" /\ CopyOf(c) \in Seq(Entry)
  BY CopyType DEF Install
<1>2. k \in Call /\ k.at = "installed" /\ Apart(c, "installed", <<>>) = [call EXCEPT ![c] = k]
  BY <1>1, ReleasedCall, EmptySeq, EmptyIsCoherent DEF Released
<1>3. /\ state' = Unused /\ call' = [call EXCEPT ![c] = k]
      /\ heap' = Collected(h, state', call')
      /\ UNCHANGED <<file, used, alone, expected, held>>
  BY <1>2 DEF Install
<1>4. Unused \in Objects /\ h \in Heaps /\ h[Unused] = CopyOf(c)
  BY <1>1, UnusedExists DEF RegInv, Types, Heaps
<1> HIDE DEF h, k
<1>5. /\ State' = CopyOf(c) /\ call'[c] = k
      /\ \A d \in Callers \ {c} : call'[d] = call[d]
  BY <1>2, <1>3, <1>4, CollectedState
<1>6. alone => CopyOf(c) = expected
  BY <1>1, LoneCopyIs
<1>7. alone => Lone(k, state', State', expected')
  BY <1>2, <1>3, <1>5, <1>6 DEF Lone, Holding
<1> QED BY <1>1, <1>2, <1>3, <1>5, <1>7, LoneStep DEF RegInv

LEMMA LoneTaken ==
    ASSUME RegInv, Alone, NEW c \in Callers, Taken(c)
    PROVE  Alone'
<1>1. call[c].at = "taking" /\ CopyOf(c) \in Seq(Entry) /\ Coherent(CopyOf(c))
  BY CopyType DEF Taken
<1>2. PICK k : k = Released(c, "writing", CopyOf(c))
  OBVIOUS
<1>3. /\ k \in Call /\ k.at = "writing" /\ k.kept = CopyOf(c)
      /\ Apart(c, "writing", CopyOf(c)) = [call EXCEPT ![c] = k]
  BY <1>1, <1>2, ReleasedCall DEF Released
<1>4. /\ call' = [call EXCEPT ![c] = k]
      /\ heap' = Collected(heap, state', call')
      /\ UNCHANGED <<state, file, used, alone, expected, held>>
  BY <1>3 DEF Taken
<1>5. heap \in Heaps /\ state' \in Objects
  BY <1>4 DEF RegInv, Types
<1>6. /\ State' = State /\ call'[c] = k
      /\ \A d \in Callers \ {c} : call'[d] = call[d]
  BY <1>3, <1>4, <1>5, CollectedState DEF State
<1>7. alone => CopyOf(c) = State /\ State = expected
  BY <1>1, LoneCopyIs
<1>8. alone => Lone(k, state', State', expected')
  BY <1>3, <1>4, <1>6, <1>7 DEF Lone, Holding
<1> QED BY <1>1, <1>3, <1>4, <1>6, <1>8, LoneStep DEF RegInv

LEMMA LoneWrite ==
    ASSUME RegInv, Alone, NEW c \in Callers, Write(c)
    PROVE  Alone'
<1>1. /\ call[c].at = "writing" /\ file' = call[c].kept
      /\ call' = [call EXCEPT ![c] = Idle]
      /\ heap' = Collected(heap, state', call')
      /\ UNCHANGED <<state, used, alone, expected>>
  BY DEF Write
<1>2. heap \in Heaps /\ state' \in Objects
  BY <1>1 DEF RegInv, Types
<1>3. /\ State' = State /\ call'[c] = Idle
      /\ \A d \in Callers \ {c} : call'[d] = call[d]
  BY <1>1, <1>2, CollectedState DEF State
<1>4. alone => State = expected /\ call[c].kept = State
  <2>1. alone => Lone(call[c], state, State, expected)
    BY <1>1, LoneCall
  <2> QED BY <1>1, <2>1 DEF Lone
<1>5. alone => State' = expected' /\ file' = expected'
  BY <1>1, <1>3, <1>4
<1>6. call'[c].at = "idle"
  BY <1>3 DEF Idle
<1> QED BY <1>1, <1>3, <1>5, <1>6, LoneStep DEF RegInv

\* What was left is in the file, and the process starts again with it.
LEMMA LoneRestart == ASSUME RegInv, Alone, Restart PROVE Alone'
<1> SUFFICES ASSUME alone' PROVE Alone'
  BY DEF Alone
<1>1. /\ alone /\ Busy = {} /\ expected' = expected /\ file' = file
      /\ state' = 0 /\ call' = [c \in Callers |-> Idle]
      /\ heap' = [x \in Objects |-> IF x = 0 THEN file ELSE <<>>]
  BY DEF Restart, RegInv, Types
<1>2. Busy' = {}
  BY <1>1 DEF Busy, Idle
<1>3. State' = file
  BY <1>1, ObjectsNat DEF State
<1>4. file = expected
  BY <1>1 DEF Alone
<1> QED BY <1>1, <1>2, <1>3, <1>4 DEF Alone

LEMMA LoneNext == ASSUME RegInv, Alone, [Next]_vars PROVE Alone'
<1>1. CASE Next
  <2>1. ASSUME NEW c \in Callers, Operate(c) \/ Authorize(c) \/ Record(c)
        PROVE  Alone'
    BY <2>1, BeginCases, LoneBegin
  <2>2. ASSUME NEW c \in Callers, Refuse(c) PROVE Alone'
    BY <2>2 DEF Refuse, Alone
  <2> QED BY <1>1, <2>1, <2>2, LoneRegister, LoneChange, LoneDefine, LonePrefer, LoneCopy,
             LoneInstall, LoneTaken, LoneWrite, LoneRestart DEF Next
<1>2. CASE UNCHANGED vars
  BY <1>2 DEF vars, Alone, Busy, State
<1> QED BY <1>1, <1>2

\* The steps of a call that no other overlaps are its operation: they leave what it
\* promises in the registry and in the file, and a restart finds it there.  A change is
\* lost by calls that overlap, and by them only.
THEOREM AloneCallsStick == Spec => []AloneSticks
<1>1. Alone => AloneSticks
  BY DEF Alone, AloneSticks
<1>2. Init => Alone
  BY LoneInit
<1>3. RegInv /\ Alone /\ [Next]_vars => Alone'
  BY LoneNext
<1> QED BY <1>1, <1>2, <1>3, RegInvariant, PTL DEF Spec
=============================================================================
