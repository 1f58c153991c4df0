--------------------------- MODULE StartupProofs ---------------------------
(***************************************************************************)
(* Proofs about Startup for any set of platforms, any number of setups and *)
(* any advertisements. The entities and the polling depend on who listens  *)
(* when: the inductive invariant ties listeners and platforms to the state *)
(* of the entry, and what the sensors show to what was published last.     *)
(***************************************************************************)
EXTENDS Startup, TLAPS

\* Platforms listen from their setup until the entry's unload has ended. Before every
\* platform does, nothing is read.
ListenersInv ==
    /\ entry = "unloaded" => up = {} /\ listeners = {}
    /\ entry = "setup" => up = listeners /\ ~data
    /\ entry = "loaded" => up = Platform /\ listeners = Platform
    /\ entry = "unloading" => up = {} /\ listeners = Platform
    /\ operation = "edit" => data

\* The signal sensor, while it exists, shows the newest observation.
SignalInv ==
    /\ signalAdded => Sensor \in up
    /\ signalShown = IF signalAdded THEN observed ELSE 0

IInv == /\ TypeOK /\ ListenersInv /\ SignalInv
        /\ EntitiesWithData /\ PollingSurvives /\ StatusShownWhenAvailable

USE StartupAssumption
-----------------------------------------------------------------------------
LEMMA InitInv == Init => IInv
<1> SUFFICES ASSUME Init PROVE IInv
  OBVIOUS
<1>1. TypeOK
  <2>1. data \in BOOLEAN /\ success \in BOOLEAN /\ timer \in BOOLEAN /\ signalAdded \in BOOLEAN
    BY Zenon DEF Init
  <2>2. built \in [Platform -> Nat]
    BY DEF Init
  <2>3. cached \in Time /\ observed \in Time /\ signalShown \in Time /\ setups \in 0..Setups
    BY DEF Init, Time
  <2> QED BY <2>1, <2>2, <2>3 DEF Init, TypeOK, Status
<1>2. ListenersInv /\ SignalInv
  BY DEF Init, ListenersInv, SignalInv
<1> QED BY <1>1, <1>2 DEF Init, IInv, EntitiesWithData, PollingSurvives, StatusShownWhenAvailable

\* All platforms listen, so telling the listeners builds the entities of every platform
\* that has none, if there is something to build them from, and shows the status.
LEMMA Told ==
    ASSUME IInv, Notify, entry \in {"loaded", "unloading"}, UNCHANGED entry, UNCHANGED up,
           data' \in BOOLEAN, data => data', success' \in BOOLEAN,
           data' => data \/ success'
    PROVE  /\ listeners' = Platform
           /\ built' \in [Platform -> Nat]
           /\ EntitiesWithData'
           /\ data' /\ entry = "loaded" => statusShown' = status'
           /\ statusShown' \in {status', statusShown}
<1>1. listeners = Platform /\ built \in [Platform -> Nat]
  BY DEF IInv, ListenersInv, TypeOK
<1>2. \A p \in Platform : built[p] = IF data THEN 1 ELSE 0
  BY DEF IInv, EntitiesWithData
<1>3. built' = [p \in Platform |-> IF data' /\ success' /\ built[p] = 0 THEN built[p] + 1 ELSE built[p]]
  BY <1>1 DEF Notify, BuildReady, MayBuild
<1>4. \A p \in Platform : built'[p] = IF data' THEN 1 ELSE 0
  BY <1>1, <1>2, <1>3 DEF IInv, TypeOK
<1>5. EntitiesWithData' /\ built' \in [Platform -> Nat]
  BY <1>3, <1>4, <1>1 DEF EntitiesWithData
<1>6. listeners' = Platform
  BY <1>1 DEF Notify, Retained
<1>7. statusShown' = IF Sensor \in up /\ built'[Sensor] > 0 THEN status' ELSE statusShown
  BY DEF Notify
<1>8. data' /\ entry = "loaded" => statusShown' = status'
  BY <1>4, <1>7 DEF IInv, ListenersInv
<1> QED BY <1>5, <1>6, <1>7, <1>8

LEMMA SetUpSteps ==
    ASSUME IInv,
           SetUpEntry \/ FinishSetup \/ UnloadPlatforms \/ FinishUnload \/ Poll \/ AddSignal
    PROVE  IInv'
<1> USE DEF IInv, TypeOK, ListenersInv, SignalInv, EntitiesWithData, PollingSurvives,
            StatusShownWhenAvailable, lifecycle, coordinator, entities, signal
<1>1. CASE SetUpEntry
  <2>1. /\ setups' \in 0..Setups /\ built' \in [Platform -> Nat] /\ data' = FALSE /\ success' = FALSE
        /\ entry' = "setup" /\ status' = "not_requested" /\ observed' = cached
    BY <1>1 DEF SetUpEntry
  <2>2. TypeOK'
    BY <1>1, <2>1 DEF SetUpEntry, Status
  <2>3. ListenersInv' /\ SignalInv'
    BY <1>1 DEF SetUpEntry
  <2>4. EntitiesWithData' /\ PollingSurvives' /\ StatusShownWhenAvailable'
    BY <1>1 DEF SetUpEntry
  <2> QED BY <2>2, <2>3, <2>4
<1>2. CASE FinishSetup
  BY <1>2 DEF FinishSetup
<1>3. CASE UnloadPlatforms
  <2>1. signalShown' \in Time
    BY <1>3 DEF UnloadPlatforms, Time
  <2>2. signalAdded' \in BOOLEAN /\ entry' = "unloading"
    BY <1>3, Zenon DEF UnloadPlatforms
  <2>3. TypeOK'
    BY <1>3, <2>1, <2>2 DEF UnloadPlatforms
  <2>4. ListenersInv' /\ SignalInv'
    BY <1>3 DEF UnloadPlatforms
  <2>5. EntitiesWithData' /\ PollingSurvives' /\ StatusShownWhenAvailable'
    BY <1>3 DEF UnloadPlatforms
  <2> QED BY <2>3, <2>4, <2>5
<1>4. CASE FinishUnload
  BY <1>4 DEF FinishUnload
<1>5. CASE Poll
  BY <1>5 DEF Poll
<1>6. CASE AddSignal
  BY <1>6 DEF AddSignal
<1> QED BY <1>1, <1>2, <1>3, <1>4, <1>5, <1>6

\* Before the first read a platform that is set up builds nothing.
LEMMA PlatformStep == ASSUME IInv, NEW p \in Platform, SetUpPlatform(p) PROVE IInv'
<1>1. entry = "setup" /\ ~data /\ up = listeners
  BY DEF SetUpPlatform, IInv, ListenersInv
<1>2. built' = built
  BY <1>1 DEF SetUpPlatform, BuildReady, MayBuild, IInv, TypeOK
<1> QED BY <1>1, <1>2 DEF SetUpPlatform, IInv, TypeOK, ListenersInv, SignalInv,
             EntitiesWithData, PollingSurvives, StatusShownWhenAvailable, lifecycle, signal

LEMMA ReadSteps == ASSUME IInv, NEW ok \in BOOLEAN, EndRead(ok) PROVE IInv'
<1>1. entry \in {"loaded", "unloading"} /\ operation = "read" /\ operation' = "none"
  BY DEF EndRead, IInv, TypeOK
<1>2. /\ data' = (data \/ ok) /\ success' = ok /\ timer' = (listeners' # {})
      /\ UNCHANGED <<entry, setups, status, up, cached, observed, signalAdded, signalShown>>
  BY DEF EndRead, NextPoll, lifecycle, signal
<1>3. /\ listeners' = Platform
      /\ built' \in [Platform -> Nat]
      /\ EntitiesWithData'
      /\ data' /\ success' /\ entry = "loaded" => statusShown' = status'
      /\ statusShown' \in {status', statusShown}
  <2>1. CASE ok \/ success
    <3>1. Notify
      BY <2>1 DEF EndRead
    <3> QED BY <1>1, <1>2, <3>1, Told DEF IInv, TypeOK
  <2>2. CASE ~(ok \/ success)
    <3>1. Quiet /\ data' = data /\ ~success'
      BY <1>2, <2>2 DEF EndRead, IInv, TypeOK
    <3> QED BY <1>1, <1>2, <3>1 DEF Quiet, IInv, TypeOK, ListenersInv, EntitiesWithData
  <2> QED BY <2>1, <2>2
<1>4. TypeOK'
  BY <1>1, <1>2, <1>3 DEF IInv, TypeOK
<1>5. ListenersInv' /\ SignalInv'
  BY <1>1, <1>2, <1>3 DEF IInv, ListenersInv, SignalInv
<1>6. PollingSurvives' /\ StatusShownWhenAvailable'
  BY <1>1, <1>2, <1>3 DEF PollingSurvives, StatusShownWhenAvailable
<1> QED BY <1>3, <1>4, <1>5, <1>6 DEF IInv

LEMMA BeginEditStep == ASSUME IInv, BeginEdit PROVE IInv'
<1>1. /\ entry = "loaded" /\ data /\ timer /\ operation' = "edit" /\ status' = "writing"
      /\ UNCHANGED <<entry, setups, data, success, timer, up, cached, observed, signalAdded,
                     signalShown>>
  BY DEF BeginEdit, IInv, PollingSurvives, lifecycle, signal
<1>2. /\ listeners' = Platform /\ built' \in [Platform -> Nat] /\ EntitiesWithData'
      /\ statusShown' = status'
  BY <1>1, Told DEF BeginEdit, IInv, TypeOK
<1>3. TypeOK'
  BY <1>1, <1>2 DEF IInv, TypeOK, Status
<1>4. ListenersInv' /\ SignalInv'
  BY <1>1, <1>2 DEF IInv, ListenersInv, SignalInv
<1> QED BY <1>1, <1>2, <1>3, <1>4 DEF IInv, PollingSurvives, StatusShownWhenAvailable

LEMMA EndEditStep == ASSUME IInv, EndEdit PROVE IInv'
<1>1. /\ entry \in {"loaded", "unloading"} /\ data /\ operation = "edit" /\ operation' = "none"
      /\ UNCHANGED <<entry, setups, data, up, cached, observed, signalAdded, signalShown>>
  BY DEF EndEdit, IInv, TypeOK, ListenersInv, lifecycle, signal
<1>2. status' \in Status \ {"writing"} /\ success' \in BOOLEAN
  BY DEF EndEdit, EditVerified, EditRefused, EditFails, Status, IInv, TypeOK
<1>3. /\ listeners' = Platform
      /\ built' \in [Platform -> Nat]
      /\ EntitiesWithData'
      /\ success' /\ entry = "loaded" => statusShown' = status'
      /\ statusShown' \in {status', statusShown}
  <2>1. CASE Notify
    BY <1>1, <1>2, <2>1, Told
  <2>2. CASE Quiet /\ ~success'
    BY <1>1, <2>2 DEF Quiet, IInv, TypeOK, ListenersInv, EntitiesWithData
  <2> QED BY <2>1, <2>2 DEF EndEdit, EditVerified, EditRefused, EditFails
<1>4. timer' = timer \/ timer' = (listeners' # {})
  BY DEF EndEdit, EditVerified, EditRefused, EditFails
<1>5. timer' \in BOOLEAN /\ PollingSurvives'
  BY <1>1, <1>3, <1>4 DEF IInv, TypeOK, PollingSurvives
<1>6. TypeOK'
  BY <1>1, <1>2, <1>3, <1>5 DEF IInv, TypeOK, Status
<1>7. ListenersInv' /\ SignalInv'
  BY <1>1, <1>3 DEF IInv, ListenersInv, SignalInv
<1>8. StatusShownWhenAvailable'
  BY <1>1, <1>3 DEF StatusShownWhenAvailable
<1> QED BY <1>3, <1>5, <1>6, <1>7, <1>8 DEF IInv

\* What an observation does, from the callback or the sampler.
LEMMA AdvertisementSteps == ASSUME IInv, Advertise \/ Sample PROVE IInv'
<1>1. /\ cached' \in Time /\ UNCHANGED <<lifecycle, coordinator, entities, signalAdded>>
      /\ \/ \E time \in Time : Observe(time)
         \/ UNCHANGED <<observed, signalShown>>
  BY DEF Advertise, Sample, IInv, TypeOK
<1>2. TypeOK' /\ SignalInv'
  BY <1>1 DEF IInv, TypeOK, SignalInv, Observe, lifecycle, coordinator, entities
<1> QED BY <1>1, <1>2 DEF IInv, ListenersInv, EntitiesWithData, PollingSurvives,
             StatusShownWhenAvailable, lifecycle, coordinator, entities

LEMMA NextInv == IInv /\ [Next]_vars => IInv'
<1> SUFFICES ASSUME IInv, [Next]_vars PROVE IInv'
  OBVIOUS
<1>1. CASE UNCHANGED vars
  BY <1>1 DEF vars, lifecycle, coordinator, entities, signal, IInv, TypeOK, ListenersInv,
              SignalInv, EntitiesWithData, PollingSurvives, StatusShownWhenAvailable
<1>2. CASE ReadSucceeds \/ ReadFails
  BY <1>2, ReadSteps DEF ReadSucceeds, ReadFails
<1>3. CASE Next /\ ~(ReadSucceeds \/ ReadFails)
  BY <1>3, SetUpSteps, PlatformStep, BeginEditStep, EndEditStep, AdvertisementSteps DEF Next
<1> QED BY <1>1, <1>2, <1>3

LEMMA Invariance == Spec => []IInv
BY InitInv, NextInv, PTL DEF Spec
-----------------------------------------------------------------------------
\* The state is of its type; in particular no operation runs before an entry is loaded
\* and nothing but an edit is shown as 'writing' (async_setup_entry).
THEOREM TypeCorrect == Spec => []TypeOK
BY Invariance, PTL DEF IInv

\* Each platform builds its entities once in a setup, with the first successful read
\* (async_add_entities_when_ready).
THEOREM EntitiesBuiltWithData == Spec => []EntitiesWithData
BY Invariance, PTL DEF IInv

\* A loaded entry keeps polling, whatever fails and whoever listens (setup_helpers.py).
THEOREM PollingGoesOn == Spec => []PollingSurvives
BY Invariance, PTL DEF IInv

\* The status sensor shows the status while the controls are available
\* (HunterNodeScheduleStatus).
THEOREM StatusIsShown == Spec => []StatusShownWhenAvailable
BY Invariance, PTL DEF IInv

\* The signal sensor never goes back to an older observation (async_observe).
THEOREM SignalGrows == Spec => SignalNeverOlder
<1>1. IInv /\ [Next]_vars => [signalShown' # 0 => signalShown' >= signalShown]_signalShown
  <2> SUFFICES ASSUME IInv, Next, signalShown' # signalShown, signalShown' # 0
               PROVE  signalShown' >= signalShown
    BY DEF vars, signal
  <2>1. CASE AddSignal
    BY <2>1 DEF AddSignal, IInv, SignalInv, TypeOK, Time
  <2>2. CASE Advertise \/ Sample
    BY <2>2 DEF Advertise, Sample, Observe, IInv, SignalInv, TypeOK, Time
  <2>3. ~(AddSignal \/ Advertise \/ Sample) => signalShown' \in {0, signalShown}
    BY DEF Next, SetUpEntry, FinishSetup, UnloadPlatforms, FinishUnload, SetUpPlatform, Poll,
           ReadSucceeds, ReadFails, EndRead, BeginEdit, EndEdit, signal
  <2> QED BY <2>1, <2>2, <2>3
<1> QED BY <1>1, Invariance, PTL DEF Spec, SignalNeverOlder
=============================================================================
