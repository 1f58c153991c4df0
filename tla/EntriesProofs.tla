--------------------------- MODULE EntriesProofs ---------------------------
(***************************************************************************)
(* Proofs about Entries for any number of flows, controllers, users and    *)
(* run times. The inductive invariant says what a flow that was discovered *)
(* or that reads knows about its controller: no entry can appear behind    *)
(* its back, as creating one ends the flows of its controller. And it says *)
(* what a coordinator that has read knows of the device registry.          *)
(***************************************************************************)
EXTENDS Entries, FiniteSetTheorems, TLAPS

Open(f) == flow[f].at \in {"form", "reading"}

\* A discovered controller has no entry as long as its flow is open, and neither has
\* the one a flow reads.
FlowInv ==
    /\ \A f \in Flow : Open(f) => flow[f].source \in {"bluetooth", "user"}
    /\ \A f \in Flow : Open(f) /\ flow[f].source = "bluetooth" =>
          flow[f].offered = {flow[f].address} /\ entries[flow[f].address] = None
    /\ \A f \in Flow : flow[f].at = "reading" =>
          flow[f].address \in Address /\ entries[flow[f].address] = None

\* What a coordinator has read is its controller's serial number, under which the
\* registry has its entry.
DeviceInv ==
    /\ \A a \in Address : identified[a] \in {serial[a], None}
    /\ \A a \in loaded : identified[a] # None => <<identified[a], a>> \in devices

IInv == TypeOK /\ FlowInv /\ DeviceInv /\ RunTimeAsAsked

USE EntriesAssumption
-----------------------------------------------------------------------------
LEMMA InitInv == Init => IInv
BY DEF Init, IInv, TypeOK, FlowInv, DeviceInv, RunTimeAsAsked, Open, Gone,
       FlowState

\* What a step of one flow, which creates no entry, may make of it.
LEMMA FlowStep ==
    ASSUME IInv, NEW f \in Flow, NEW new \in FlowState, Becomes(f, new),
           UNCHANGED <<serial, entries, lifecycle, options>>, edited' = None,
           new.at \in {"form", "reading"} => new.source \in {"bluetooth", "user"},
           new.at \in {"form", "reading"} /\ new.source = "bluetooth" =>
              new.offered = {new.address} /\ entries[new.address] = None,
           new.at = "reading" => new.address \in Address /\ entries[new.address] = None
    PROVE  IInv'
<1>1. flow' \in [Flow -> FlowState] /\ \A g \in Flow : flow'[g] = IF g = f THEN new ELSE flow[g]
  BY DEF Becomes, IInv, TypeOK
<1>2. TypeOK' /\ DeviceInv' /\ RunTimeAsAsked'
  BY <1>1 DEF IInv, TypeOK, DeviceInv, RunTimeAsAsked, lifecycle, options
<1>3. FlowInv'
  BY <1>1 DEF IInv, FlowInv, Open
<1> QED BY <1>2, <1>3 DEF IInv

LEMMA FlowSteps ==
    ASSUME IInv, NEW f \in Flow,
           \/ \E a \in Address : Discover(f, a)
           \/ StartUserFlow(f)
           \/ \E a \in Address, p \in Pin \cup {Malformed} : Submit(f, a, p)
           \/ ReadFails(f) \/ OrphanEnds(f) \/ CloseFlow(f)
    PROVE  IInv'
<1>1. Gone \in FlowState /\ Gone.at = "gone"
  BY DEF Gone, FlowState
<1>2. flow[f] \in FlowState
  BY DEF IInv, TypeOK
<1>3. CASE \E a \in Address : Discover(f, a)
  <2>1. PICK a \in Address : Discover(f, a)
    BY <1>3
  <2> DEFINE new == [at |-> "form", source |-> "bluetooth", offered |-> {a},
                     address |-> a, pin |-> None]
  <2>2. new \in FlowState
    BY DEF FlowState
  <2> QED BY <2>1, <2>2, FlowStep DEF Discover
<1>4. CASE StartUserFlow(f)
  <2>1. PICK offered \in SUBSET Address :
           Becomes(f, [at |-> "form", source |-> "user", offered |-> offered,
                       address |-> None, pin |-> None])
    BY <1>4 DEF StartUserFlow
  <2> DEFINE new == [at |-> "form", source |-> "user", offered |-> offered,
                     address |-> None, pin |-> None]
  <2>2. new \in FlowState
    BY DEF FlowState
  <2> QED BY <1>4, <2>1, <2>2, FlowStep DEF StartUserFlow
<1>5. ASSUME NEW a \in Address, NEW p \in Pin \cup {Malformed}, Submit(f, a, p)
      PROVE  IInv'
  <2>1. edited' = None /\ UNCHANGED <<serial, entries, lifecycle, options>>
    BY <1>5 DEF Submit
  <2>2. Open(f) /\ a \in flow[f].offered
    BY <1>5 DEF Submit, Open
  <2>3. flow[f].source \in {"bluetooth", "user"}
    BY <2>2 DEF IInv, FlowInv
  <2>4. flow[f].source = "bluetooth" => flow[f].offered = {a} /\ entries[a] = None
    BY <2>2 DEF IInv, FlowInv
  <2>5. CASE AbortsConfigured(f, a)
    BY <1>1, <1>5, <2>5, FlowStep DEF Submit
  <2>6. CASE ~AbortsConfigured(f, a) /\ ~WellFormed(p)
    <3> DEFINE new == [flow[f] EXCEPT !.address = a]
    <3>1. new \in FlowState /\ new.at = "form"
      BY <1>2, <1>5 DEF FlowState, Submit
    <3>2. new.source = flow[f].source /\ new.offered = flow[f].offered /\ new.address = a
      BY <1>2 DEF FlowState
    <3>3. Becomes(f, new)
      BY <1>5, <2>6 DEF Submit
    <3> HIDE DEF new
    <3> QED BY <2>1, <2>3, <2>4, <3>1, <3>2, <3>3, FlowStep
  <2>7. CASE ~AbortsConfigured(f, a) /\ WellFormed(p)
    <3> DEFINE new == [flow[f] EXCEPT !.address = a, !.at = "reading", !.pin = p]
    <3>1. new \in FlowState
      BY <1>2, <2>7 DEF FlowState, WellFormed
    <3>2. new.source = flow[f].source /\ new.offered = flow[f].offered /\ new.address = a
      BY <1>2 DEF FlowState
    <3>3. Becomes(f, new)
      BY <1>5, <2>7 DEF Submit
    <3>4. entries[a] = None
      BY <2>3, <2>4, <2>7 DEF AbortsConfigured
    <3> HIDE DEF new
    <3> QED BY <2>1, <2>3, <2>4, <3>1, <3>2, <3>3, <3>4, FlowStep
  <2> QED BY <2>5, <2>6, <2>7
<1>6. CASE ReadFails(f)
  <2> DEFINE new == [flow[f] EXCEPT !.at = "form", !.pin = None]
  <2>1. new \in FlowState /\ new.at = "form"
    BY <1>2 DEF FlowState
  <2>2. new.source = flow[f].source /\ new.offered = flow[f].offered
        /\ new.address = flow[f].address
    BY <1>2 DEF FlowState
  <2> QED BY <1>6, <2>1, <2>2, FlowStep DEF ReadFails, IInv, FlowInv, Open
<1>7. CASE OrphanEnds(f)
  BY <1>1, <1>7, FlowStep DEF OrphanEnds
<1>8. CASE CloseFlow(f)
  <2>1. Ended(f) \in FlowState /\ Ended(f).at \in {"orphan", "gone"}
    BY <1>1, <1>2 DEF Ended, FlowState
  <2> QED BY <1>8, <2>1, FlowStep DEF CloseFlow
<1> QED BY <1>3, <1>4, <1>5, <1>6, <1>7, <1>8

\* A created entry ends the flows that knew that there was none.
LEMMA CreateStep == ASSUME IInv, NEW f \in Flow, CreateEntry(f) PROVE IInv'
<1> DEFINE a == flow[f].address
<1> USE DEF IInv, TypeOK, FlowState, CreateEntry, ReadsWith, Ended, Gone, options
<1>1. a \in Address /\ flow[f].pin \in Pin /\ entries[a] = None
  BY DEF FlowInv
<1>2. TypeOK' /\ RunTimeAsAsked'
  BY <1>1 DEF RunTimeAsAsked
<1>3. FlowInv'
  BY <1>1 DEF FlowInv, Open
<1>4. DeviceInv'
  BY <1>1 DEF DeviceInv
<1> QED BY <1>2, <1>3, <1>4

\* The steps of an entry.
LEMMA EntrySteps ==
    ASSUME IInv, NEW a \in Address,
           \/ Load(a) \/ Unload(a) \/ Identify(a) \/ Remove(a)
           \/ \E time \in RunTimes : SetOptions(a, time)
    PROVE  IInv'
<1> USE DEF IInv, TypeOK, lifecycle, options
<1>1. CASE Load(a)
  BY <1>1 DEF Load, FlowInv, Open, DeviceInv, RunTimeAsAsked
<1>2. CASE Unload(a)
  <2>1. TypeOK' /\ FlowInv' /\ RunTimeAsAsked'
    BY <1>2 DEF Unload, FlowInv, Open, RunTimeAsAsked
  <2>2. DeviceInv'
    BY <1>2 DEF Unload, DeviceInv
  <2> QED BY <2>1, <2>2
<1>3. CASE Identify(a)
  <2>1. TypeOK' /\ FlowInv' /\ RunTimeAsAsked'
    BY <1>3 DEF Identify, FlowInv, Open, RunTimeAsAsked
  <2>2. DeviceInv'
    BY <1>3 DEF Identify, DeviceInv
  <2> QED BY <2>1, <2>2
<1>4. CASE Remove(a)
  <2>1. TypeOK' /\ RunTimeAsAsked'
    BY <1>4 DEF Remove, RunTimeAsAsked
  <2>2. FlowInv'
    BY <1>4 DEF Remove, FlowInv, Open
  <2>3. DeviceInv'
    BY <1>4 DEF Remove, DeviceInv
  <2> QED BY <2>1, <2>2, <2>3
<1>5. CASE \E time \in RunTimes : SetOptions(a, time)
  BY <1>5 DEF SetOptions, Accepts, FlowInv, Open, DeviceInv, RunTimeAsAsked
<1> QED BY <1>1, <1>2, <1>3, <1>4, <1>5

LEMMA SetProgramStep ==
    ASSUME IInv, NEW s \in Serial, NEW user \in User \cup {None}, SetProgram(s, user)
    PROVE  IInv'
BY DEF IInv, TypeOK, SetProgram, Candidates, FlowInv, Open, DeviceInv,
       RunTimeAsAsked, lifecycle, options

LEMMA NextInv == IInv /\ [Next]_vars => IInv'
<1> SUFFICES ASSUME IInv, [Next]_vars PROVE IInv'
  OBVIOUS
<1>1. CASE UNCHANGED vars
  BY <1>1 DEF vars, lifecycle, options, IInv, TypeOK, FlowInv, Open, DeviceInv,
              RunTimeAsAsked
<1>2. CASE Next
  BY <1>2, FlowSteps, CreateStep, EntrySteps, SetProgramStep DEF Next
<1> QED BY <1>1, <1>2

LEMMA Invariance == Spec => []IInv
BY InitInv, NextInv, PTL DEF Spec
-----------------------------------------------------------------------------
\* The state of flows, entries, devices and options is of its type: in particular no
\* entry is loaded, nor in a device, that does not exist (HunterNodeConfigFlow).
THEOREM TypeCorrect == Spec => []TypeOK
BY Invariance, PTL DEF IInv

\* Only controllers without an entry are read by a flow that may create one, so that no
\* entry is created in place of another (async_step_user, _async_create_for_device).
THEOREM FlowsRead == Spec => []FlowsReadUnconfigured
<1>1. IInv => FlowsReadUnconfigured
  BY DEF IInv, FlowInv, FlowsReadUnconfigured
<1> QED BY <1>1, Invariance, PTL

\* The option that is stored is what was entered, never less (async_step_init).
THEOREM RunTimesAsked == Spec => []RunTimeAsAsked
BY Invariance, PTL DEF IInv

\* The action edits the one loaded controller that has shown the serial number of the
\* device, for a user who may (async_set_program in services.py).
THEOREM ActionFinds == Spec => ActionFindsDevice
<1> DEFINE Found == edited' # None =>
        LET s == edited'[1]
            a == edited'[2]
            user == edited'[3]
        IN  /\ entries[a] # None /\ a \in loaded
            /\ serial[a] = s
            /\ \A b \in loaded : identified[b] = s => b = a
            /\ user # None => Entity \subseteq Granted[user]
<1>1. IInv /\ [Next]_vars => [Found]_vars
  <2> SUFFICES ASSUME IInv, Next, edited' # None PROVE Found
    OBVIOUS
  <2>1. PICK s \in Serial, user \in User \cup {None} : SetProgram(s, user)
    BY DEF Next, Discover, StartUserFlow, Submit, CreateEntry, ReadFails, OrphanEnds, CloseFlow,
           Load, Unload, Identify, Remove, SetOptions
  <2>2. PICK a \in Candidates(s) : edited' = <<s, a, user>>
    BY <2>1 DEF SetProgram
  <2>3. \A b \in Candidates(s) : b = a
    <3>1. IsFiniteSet(Candidates(s)) /\ Cardinality(Candidates(s)) = 1
      BY <2>1, FS_Subset DEF SetProgram, Candidates
    <3> QED BY <3>1, <2>2, FS_Singleton
  <2>4. \A b \in loaded : identified[b] = s => b = a
    BY <2>3 DEF Candidates, IInv, TypeOK, DeviceInv
  <2>5. entries[a] # None /\ a \in loaded /\ serial[a] = s
    BY <2>2 DEF Candidates, IInv, TypeOK, DeviceInv
  <2>6. user # None => Entity \subseteq Granted[user]
    BY <2>1 DEF SetProgram, MayEdit
  <2> QED BY <2>2, <2>4, <2>5, <2>6
<1> QED BY <1>1, Invariance, PTL DEF Spec, ActionFindsDevice
=============================================================================
