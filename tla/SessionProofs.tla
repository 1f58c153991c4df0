---------------------------- MODULE SessionProofs ----------------------------
(***************************************************************************)
(* Proofs about Session for every sequence of transactions the code runs,  *)
(* answers of any length and any faults of the link. An answer is the one  *)
(* to its request because notifications keep their order: when an answer   *)
(* is complete, all that may still arrive of it is its last part, and that *)
(* alone never passes for the answer to the next request.                  *)
(***************************************************************************)
EXTENDS Session, SequenceTheorems, TLAPS

\* What a packet says of the login is true.
Truthful(packet) ==
    packet.kind = "login" =>
        login = IF packet.result = 0 THEN "accepted" ELSE "rejected"

LoginInv ==
    /\ LoginTruthful
    /\ pinFuture \notin {None, Pending} => Truthful(pinFuture)
    /\ \A i \in DOMAIN air : IsPacket(air[i]) => Truthful(air[i])

\* A future is there, and parts of an answer are kept, only while they are waited for.
RetainInv ==
    /\ pc \notin {"challenging", "answering"} => pinFuture = None
    /\ pc \notin {"sending", "waiting"} => future = None /\ response = <<>>

Transacting == pc \in {"sending", "waiting"}

\* How far the task, the controller and the answers have come.
TurnInv ==
    /\ answered <= received /\ received <= turn
    /\ pc \in {"subscribing", "challenging", "answering"} => turn = 0 /\ trusted = <<>>
    /\ Transacting => turn > 0 /\ Len(trusted) = turn - 1 /\ answered >= turn - 1
    /\ pc = "saving" => turn > 0 /\ HasNext(turn) /\ Len(trusted) = turn
    /\ \A i \in DOMAIN air :
          ~IsPacket(air[i]) =>
             air[i].turn <= answered /\ air[i].part <= Length[air[i].kind]

IsLastPart(fragment) == fragment.part = Length[fragment.kind]

\* The answer to the current request has come; its last part may arrive again.
Arrived ==
    /\ answered = turn
    /\ \A i \in DOMAIN air :
          /\ i = 1
          /\ ~IsPacket(air[i])
          /\ air[i].turn = turn
          /\ IsLastPart(air[i])
          /\ Script[turn] = "all" => air[i].kind = "all"

\* What is left of the previous answer comes first, and is its last part.
Stale(i) ==
    /\ i = 1
    /\ air[i].turn = turn - 1
    /\ IsLastPart(air[i])
    /\ air[i].kind = "all" \/ Script[turn] = "all"

AirInv ==
    /\ Transacting => \A i \in DOMAIN air : ~IsPacket(air[i]) =>
          /\ air[i].turn # turn => Stale(i)
          /\ air[i].turn = turn /\ IsLastPart(air[i]) => i = Len(air)
    /\ pc = "saving" => Arrived

\* What is kept of an answer, and an answer that would be accepted, is of this turn.
AnswerInv ==
    /\ Transacting /\ future = Pending =>
          /\ \A i \in DOMAIN response : response[i].turn = turn
          /\ response = <<>> \/ \A i \in DOMAIN air : ~IsPacket(air[i]) => air[i].turn = turn
    /\ Transacting /\ future # Pending /\ Usable(future.kind) =>
          future.turns = {turn} /\ Arrived

IInv ==
    /\ TypeOK /\ LoginInv /\ RetainInv /\ TurnInv /\ AirInv /\ AnswerInv
    /\ ResponseBounded /\ TrustedAnswersOwn

USE SessionAssumption, FutureAssumption
-----------------------------------------------------------------------------
(* Constants and sequences *)

LEMMA ScriptLemma ==
    /\ Len(Script) \in Nat \ {0} /\ 1 \in Turn /\ Turn \subseteq Nat
    /\ \A n \in Turn : Script[n] \in {"all", "status", "state"}
    /\ \A n \in Turn : HasNext(n) => /\ n + 1 \in Turn
                                     /\ Script[n] = "all" \/ Script[n + 1] = "all"
<1>1. Script \in Seq({"all", "status", "state"}) /\ Script # <<>>
  OBVIOUS
<1>2. Len(Script) \in Nat \ {0}
  BY <1>1
<1>3. \A n \in Turn : Script[n] \in {"all", "status", "state"}
  BY <1>1 DEF Turn
<1>4. 1 \in Turn /\ Turn \subseteq Nat
  BY <1>2 DEF Turn
<1>5. \A n \in Turn : HasNext(n) => n + 1 \in Turn /\ n \in 1..Len(Script) - 1
  BY <1>2 DEF Turn, HasNext
<1> QED BY <1>2, <1>3, <1>4, <1>5

LEMMA TailLemma ==
    ASSUME NEW S, NEW s \in Seq(S), s # <<>>
    PROVE  /\ Tail(s) \in Seq(S) /\ Head(s) \in S /\ Head(s) = s[1] /\ 1 \in DOMAIN s
           /\ Len(s) \in Nat /\ Len(Tail(s)) = Len(s) - 1
           /\ \A i \in DOMAIN Tail(s) : /\ i \in Nat /\ i >= 1 /\ i + 1 \in DOMAIN s
                                        /\ Tail(s)[i] = s[i + 1]
<1>1. Len(s) \in Nat /\ DOMAIN s = 1..Len(s) /\ Len(s) # 0
  OBVIOUS
<1>2. /\ Tail(s) \in Seq(S) /\ Head(s) \in S /\ Head(s) = s[1] /\ Len(Tail(s)) = Len(s) - 1
      /\ \A i \in 1..Len(Tail(s)) : Tail(s)[i] = s[i + 1]
  BY <1>1
<1>3. DOMAIN Tail(s) = 1..Len(Tail(s))
  BY <1>2
<1> QED BY <1>1, <1>2, <1>3

LEMMA AppendLemma ==
    ASSUME NEW S, NEW s \in Seq(S), NEW e \in S
    PROVE  /\ Append(s, e) \in Seq(S) /\ Append(s, e) # <<>>
           /\ Len(Append(s, e)) = Len(s) + 1
           /\ DOMAIN Append(s, e) = 1..Len(s) + 1
           /\ Append(s, e)[Len(s) + 1] = e
           /\ \A i \in 1..Len(s) : Append(s, e)[i] = s[i]
           /\ Len(s) \in Nat /\ DOMAIN s = 1..Len(s)
<1>1. Append(s, e) \in Seq(S) /\ Append(s, e) # <<>>
  BY AppendProperties
<1>2. Len(s) \in Nat /\ DOMAIN s = 1..Len(s)
  OBVIOUS
<1>3. Len(Append(s, e)) = Len(s) + 1 /\ Append(s, e)[Len(s) + 1] = e
  BY AppendProperties
<1>4. \A i \in 1..Len(s) : Append(s, e)[i] = s[i]
  BY AppendProperties
<1>5. DOMAIN Append(s, e) = 1..Len(s) + 1
  BY <1>1, <1>3
<1> QED BY <1>1, <1>2, <1>3, <1>4, <1>5

\* Fragments and packets are told apart by their kind.
LEMMA NotificationLemma ==
    /\ \A f \in Fragment : ~IsPacket(f) /\ f.turn \in Turn /\ f.kind \in Kind
                           /\ f.part \in Nat \ {0}
    /\ \A p \in Packet : IsPacket(p)
    /\ \A n \in Fragment \cup Packet : IsPacket(n) <=> n \in Packet
    /\ \A kind \in Kind : Length[kind] \in Nat \ {0}
BY DEF Fragment, Packet, IsPacket, Kind
-----------------------------------------------------------------------------
LEMMA InitInv == Init => IInv
<1> SUFFICES ASSUME Init PROVE IInv
  OBVIOUS
<1>1. TypeOK
  <2>1. pc \in Where /\ recent \in BOOLEAN
    BY DEF Init, Where
  <2>2. response \in Seq(Fragment) /\ air \in Seq(Fragment \cup Packet) /\ trusted \in Seq(Answer)
    BY DEF Init
  <2> QED BY <2>1, <2>2 DEF Init, TypeOK
<1>2. LoginInv /\ RetainInv
  BY DEF Init, LoginInv, LoginTruthful, RetainInv
<1>3. TurnInv /\ AirInv /\ AnswerInv
  BY DEF Init, TurnInv, AirInv, AnswerInv, Transacting
<1>4. ResponseBounded /\ TrustedAnswersOwn
  BY DEF Init, ResponseBounded, TrustedAnswersOwn
<1> QED BY <1>1, <1>2, <1>3, <1>4 DEF IInv
-----------------------------------------------------------------------------
(* The task *)

\* The session ends, for whatever reason.
LEMMA EndStep ==
    ASSUME IInv, NEW result \in {"failed", "rejected"}, End(result), UNCHANGED linkVars,
           result = "rejected" => login = "rejected"
    PROVE  IInv'
<1> USE DEF IInv, End, linkVars
<1>1. TypeOK'
  BY DEF TypeOK, Where, Ended
<1>2. LoginInv'
  BY DEF LoginInv, LoginTruthful, Truthful, IsPacket
<1>3. RetainInv' /\ ResponseBounded'
  BY DEF RetainInv, ResponseBounded
<1>4. TurnInv' /\ AirInv' /\ AnswerInv'
  BY DEF TurnInv, AirInv, AnswerInv, Transacting, IsPacket
<1>5. TrustedAnswersOwn'
  BY DEF TrustedAnswersOwn
<1> QED BY <1>1, <1>2, <1>3, <1>4, <1>5

\* A transaction starts after the answer to the one before it: what is left of that
\* one is not taken for its own.
LEMMA TransactStep ==
    ASSUME IInv, NEW n \in Turn, Transact(n), pinFuture' = None, UNCHANGED linkVars,
           login = "accepted", answered = n - 1, received = n - 1,
           trusted' \in Seq(Answer), Len(trusted') = n - 1, TrustedAnswersOwn',
           \A i \in DOMAIN air : ~IsPacket(air[i]) =>
              /\ i = 1 /\ air[i].turn = n - 1 /\ IsLastPart(air[i])
              /\ air[i].kind = "all" \/ Script[n] = "all"
    PROVE  IInv'
<1> USE DEF IInv, Transact, linkVars
<1>1. TypeOK'
  BY DEF TypeOK, Where
<1>2. LoginInv'
  BY DEF LoginInv, LoginTruthful, Truthful, IsPacket
<1>3. RetainInv' /\ ResponseBounded'
  BY DEF RetainInv, ResponseBounded
<1>4. n \in Nat /\ n # 0
  BY ScriptLemma DEF Turn
<1>5. TurnInv'
  BY <1>4 DEF TurnInv, Transacting, IsPacket
<1>6. AirInv'
  BY <1>4 DEF AirInv, Stale, Transacting, IsPacket, IsLastPart
<1>7. AnswerInv'
  BY DEF AnswerInv, Transacting
<1> QED BY <1>1, <1>2, <1>3, <1>5, <1>6, <1>7

\* A step of the task that starts no transaction and ends no session.
LEMMA TaskStep ==
    ASSUME IInv, NEW where \in {"challenging", "answering", "waiting"}, pc' = where,
           IF where = "waiting" THEN pc = "sending" /\ pinFuture' = pinFuture
                                ELSE /\ pc \in {"subscribing", "challenging"}
                                     /\ pinFuture' = Pending,
           UNCHANGED <<turn, trusted, future, response, last, recent, linkVars>>
    PROVE  IInv'
<1> USE DEF IInv, linkVars
<1>1. TypeOK'
  BY DEF TypeOK, Where
<1>2. LoginInv'
  BY DEF LoginInv, LoginTruthful, Truthful, IsPacket
<1>3. RetainInv' /\ ResponseBounded'
  BY DEF RetainInv, ResponseBounded
<1>4. TurnInv'
  BY DEF TurnInv, Transacting, IsPacket
<1>5. AirInv'
  BY DEF AirInv, Stale, Transacting, IsPacket, IsLastPart
<1>6. AnswerInv'
  BY DEF AnswerInv, Arrived, Usable, Transacting, IsPacket, IsLastPart
<1>7. TrustedAnswersOwn'
  BY DEF TrustedAnswersOwn
<1> QED BY <1>1, <1>2, <1>3, <1>4, <1>5, <1>6, <1>7

LEMMA TakeLoginStep == IInv /\ TakeLogin => IInv'
<1> SUFFICES ASSUME IInv, TakeLogin PROVE IInv'
  OBVIOUS
<1>1. /\ pc = "answering" /\ pinFuture \in Packet /\ Truthful(pinFuture)
      /\ turn = 0 /\ trusted = <<>> /\ UNCHANGED linkVars
  BY DEF TakeLogin, IInv, TypeOK, LoginInv, TurnInv
<1>2. CASE LoginVerdict(pinFuture) = "accepted"
  <2>1. login = "accepted"
    BY <1>1, <1>2 DEF LoginVerdict, Truthful
  <2>2. Transact(1) /\ pinFuture' = None /\ trusted' = trusted
    BY <1>2 DEF TakeLogin
  <2>3. answered \in Nat /\ received \in Nat /\ answered = 0 /\ received = 0
    BY <1>1, ScriptLemma DEF IInv, TypeOK, TurnInv, Turn
  <2>4. \A i \in DOMAIN air : IsPacket(air[i])
    <3>1. SUFFICES ASSUME NEW i \in DOMAIN air, ~IsPacket(air[i]) PROVE FALSE
      OBVIOUS
    <3>2. air[i] \in Fragment
      BY <3>1, NotificationLemma DEF IInv, TypeOK
    <3>3. air[i].turn \in Nat \ {0}
      BY <3>2, NotificationLemma DEF Turn
    <3> QED BY <2>3, <3>1, <3>3 DEF IInv, TurnInv
  <2>5. trusted' \in Seq(Answer) /\ Len(trusted') = 0 /\ TrustedAnswersOwn'
    BY <1>1, <2>2 DEF TrustedAnswersOwn
  <2> QED BY <1>1, <2>1, <2>2, <2>3, <2>4, <2>5, ScriptLemma, TransactStep
<1>3. CASE LoginVerdict(pinFuture) # "accepted"
  <2>1. /\ LoginVerdict(pinFuture) \in {"failed", "rejected"}
        /\ LoginVerdict(pinFuture) = "rejected" => login = "rejected"
    BY <1>1, <1>3 DEF LoginVerdict, Truthful
  <2>2. End(LoginVerdict(pinFuture))
    BY <1>3 DEF TakeLogin
  <2> QED BY <1>1, <2>1, <2>2, EndStep
<1> QED BY <1>2, <1>3

\* Only an answer to the current request is taken, so the next one is behind it.
LEMMA TakeAnswerStep == IInv /\ TakeAnswer => IInv'
<1> SUFFICES ASSUME IInv, TakeAnswer PROVE IInv'
  OBVIOUS
<1>1. pc = "waiting" /\ future \in Answer /\ future # Pending /\ UNCHANGED linkVars
  BY DEF TakeAnswer, IInv, TypeOK
<1>2. CASE ~Usable(future.kind)
  BY <1>1, <1>2, EndStep DEF TakeAnswer
<1>3. CASE Usable(future.kind)
  <2>1. /\ trusted' = Append(trusted, future) /\ pinFuture' = pinFuture
        /\ IF HasNext(turn) /\ ~WritesNext(turn)
           THEN Transact(turn + 1)
           ELSE /\ pc' = IF HasNext(turn) THEN "saving" ELSE "ok"
                /\ future' = None /\ response' = <<>>
                /\ UNCHANGED <<turn, last, recent>>
    BY <1>3 DEF TakeAnswer
  <2>2. /\ future.turns = {turn} /\ Arrived /\ login = "accepted"
        /\ turn > 0 /\ Len(trusted) = turn - 1 /\ pinFuture = None
    BY <1>1, <1>3 DEF IInv, AnswerInv, TurnInv, Transacting, LoginInv, LoginTruthful, RetainInv
  <2>3. turn \in Turn /\ turn \in Nat /\ answered \in Nat /\ received \in Nat
    BY <2>2, ScriptLemma DEF IInv, TypeOK, Turn
  <2>4. answered = turn /\ received = turn
    BY <2>2, <2>3 DEF Arrived, IInv, TurnInv
  <2>5. Script[turn] # "state" => future.kind = Script[turn]
    BY <1>3 DEF Usable
  <2>6. trusted' \in Seq(Answer) /\ Len(trusted') = turn /\ TrustedAnswersOwn'
    <3>1. trusted \in Seq(Answer)
      BY DEF IInv, TypeOK
    <3>2. /\ Len(trusted') = turn /\ trusted' \in Seq(Answer)
          /\ DOMAIN trusted' = 1..turn /\ DOMAIN trusted = 1..turn - 1
          /\ \A n \in 1..turn - 1 : trusted'[n] = trusted[n]
          /\ trusted'[turn] = future
      BY <1>1, <2>1, <2>2, <2>3, <3>1
    <3>3. TrustedAnswersOwn'
      BY <2>2, <2>3, <2>5, <3>2 DEF IInv, TrustedAnswersOwn
    <3> QED BY <3>2, <3>3
  <2>7. CASE HasNext(turn) /\ ~WritesNext(turn)
    <3>1. /\ turn + 1 \in Turn /\ (turn + 1) - 1 = turn
          /\ Script[turn] = "all" \/ Script[turn + 1] = "all"
      BY <2>3, <2>7, ScriptLemma
    <3>2. Transact(turn + 1) /\ pinFuture' = None
      BY <2>1, <2>2, <2>7
    <3> QED BY <1>1, <2>2, <2>4, <2>6, <3>1, <3>2, TransactStep DEF Arrived
  <2>8. CASE ~(HasNext(turn) /\ ~WritesNext(turn))
    <3>1. /\ pc' = IF HasNext(turn) THEN "saving" ELSE "ok"
          /\ future' = None /\ response' = <<>> /\ pinFuture' = None
          /\ UNCHANGED <<turn, last, recent>>
      BY <2>1, <2>2, <2>8
    <3> USE DEF IInv, linkVars
    <3>2. TypeOK'
      BY <1>1, <2>6, <3>1 DEF TypeOK, Where, Ended
    <3>3. LoginInv' /\ RetainInv' /\ ResponseBounded'
      BY <1>1, <3>1 DEF LoginInv, LoginTruthful, Truthful, IsPacket, RetainInv, ResponseBounded
    <3>4. TurnInv'
      BY <1>1, <2>2, <2>6, <3>1 DEF TurnInv, Transacting, IsPacket, HasNext
    <3>5. AirInv' /\ AnswerInv'
      BY <1>1, <2>2, <3>1 DEF AirInv, AnswerInv, Arrived, Transacting, IsPacket, IsLastPart
    <3> QED BY <2>6, <3>2, <3>3, <3>4, <3>5
  <2> QED BY <2>7, <2>8
<1> QED BY <1>2, <1>3

LEMMA SaveStep == IInv /\ Save => IInv'
<1> SUFFICES ASSUME IInv, Save PROVE IInv'
  OBVIOUS
<1>1. /\ pc = "saving" /\ Transact(turn + 1) /\ trusted' = trusted
      /\ pinFuture' = None /\ UNCHANGED linkVars
  BY DEF Save, IInv, RetainInv
<1>2. /\ turn > 0 /\ HasNext(turn) /\ Len(trusted) = turn /\ login = "accepted" /\ Arrived
      /\ turn \in Turn /\ turn \in Nat
  BY <1>1, ScriptLemma DEF IInv, TypeOK, TurnInv, LoginInv, LoginTruthful, AirInv, Turn
<1>3. received = turn /\ answered = turn
  BY <1>2, ScriptLemma DEF Arrived, IInv, TypeOK, TurnInv, Turn
<1>4. /\ turn + 1 \in Turn /\ (turn + 1) - 1 = turn
      /\ Script[turn] = "all" \/ Script[turn + 1] = "all"
  BY <1>2, ScriptLemma
<1>5. trusted' \in Seq(Answer) /\ TrustedAnswersOwn'
  BY <1>1 DEF IInv, TypeOK, TrustedAnswersOwn
<1> QED BY <1>1, <1>2, <1>3, <1>4, <1>5, TransactStep DEF Arrived

LEMMA TaskSteps == IInv /\ (Progress \/ LinkFails) => IInv'
<1> SUFFICES ASSUME IInv, Progress \/ LinkFails PROVE IInv'
  OBVIOUS
<1>1. CASE Subscribe
  BY <1>1, TaskStep DEF Subscribe
<1>2. CASE TakeChallenge
  <2>1. CASE pinFuture = [kind |-> "challenge", result |-> 0]
    BY <1>2, <2>1, TaskStep DEF TakeChallenge
  <2>2. CASE pinFuture # [kind |-> "challenge", result |-> 0]
    BY <1>2, <2>2, EndStep DEF TakeChallenge
  <2> QED BY <2>1, <2>2
<1>3. CASE Written
  BY <1>3, TaskStep DEF Written, callbackVars
<1>4. CASE TimeOut \/ LinkFails
  BY <1>4, EndStep DEF TimeOut, LinkFails
<1> QED BY <1>1, <1>2, <1>3, <1>4, TakeLoginStep, TakeAnswerStep, SaveStep DEF Progress
-----------------------------------------------------------------------------
(* Notifications *)

\* The oldest notification has arrived, and will not or will do so again.
LEMMA AirShrinks ==
    ASSUME IInv, air # <<>>, air' \in {air, Tail(air)}, repeats' \in 0..MaxRepeats,
           UNCHANGED <<taskVars, login, received, answered>>
    PROVE  /\ air' \in Seq(Fragment \cup Packet)
           /\ \A i \in DOMAIN air' : \E j \in DOMAIN air : air'[i] = air[j]
           /\ TurnInv' /\ AirInv' /\ (Arrived => Arrived')
<1> USE DEF taskVars
<1>1. air \in Seq(Fragment \cup Packet)
  BY DEF IInv, TypeOK
<1>2. CASE air' = air
  <2>1. TurnInv'
    BY <1>2 DEF IInv, TurnInv, Transacting, IsPacket
  <2>2. AirInv' /\ (Arrived => Arrived')
    BY <1>2 DEF IInv, AirInv, Arrived, Stale, Transacting, IsPacket, IsLastPart
  <2> QED BY <1>1, <1>2, <2>1, <2>2
<1>3. CASE air' = Tail(air)
  <2>1. /\ air' \in Seq(Fragment \cup Packet) /\ Len(air) \in Nat
        /\ Len(air') = Len(air) - 1
        /\ \A i \in DOMAIN air' : /\ i \in Nat /\ i >= 1 /\ i + 1 \in DOMAIN air
                                  /\ air'[i] = air[i + 1]
    <3>1. /\ Tail(air) \in Seq(Fragment \cup Packet) /\ Len(air) \in Nat
          /\ Len(Tail(air)) = Len(air) - 1
          /\ \A i \in DOMAIN Tail(air) : /\ i \in Nat /\ i >= 1 /\ i + 1 \in DOMAIN air
                                         /\ Tail(air)[i] = air[i + 1]
      BY <1>1, TailLemma
    <3> QED BY <1>3, <3>1
  <2>2. TurnInv'
    BY <2>1 DEF IInv, TurnInv, Transacting, IsPacket
  <2>3. Arrived => DOMAIN air' = {}
    BY <2>1 DEF Arrived
  <2>4. Arrived => Arrived'
    BY <2>3 DEF Arrived
  <2>5. ASSUME Transacting, NEW i \in DOMAIN air', ~IsPacket(air'[i])
        PROVE  air'[i].turn = turn /\ (IsLastPart(air'[i]) => i = Len(air'))
    <3>1. air[i + 1].turn = turn /\ (IsLastPart(air[i + 1]) => i + 1 = Len(air))
      BY <2>1, <2>5 DEF IInv, AirInv, Stale, IsPacket
    <3> QED BY <2>1, <3>1 DEF IsLastPart
  <2>6. AirInv'
    BY <2>4, <2>5 DEF IInv, AirInv, Stale, Transacting, IsPacket, IsLastPart
  <2> QED BY <2>1, <2>2, <2>4, <2>6
<1> QED BY <1>2, <1>3

\* A notification that leaves the transaction alone.
LEMMA IgnoredStep ==
    ASSUME IInv, air # <<>>, air' \in {air, Tail(air)}, repeats' \in 0..MaxRepeats,
           UNCHANGED <<taskVars, login, received, answered>>,
           UNCHANGED <<future, response, last, recent>>,
           \/ pinFuture' = pinFuture
           \/ /\ pinFuture = Pending /\ pinFuture' = Head(air) /\ IsPacket(Head(air))
    PROVE  IInv'
<1>1. /\ air' \in Seq(Fragment \cup Packet)
      /\ \A i \in DOMAIN air' : \E j \in DOMAIN air : air'[i] = air[j]
      /\ TurnInv' /\ AirInv' /\ (Arrived => Arrived')
  BY AirShrinks
<1>2. Head(air) = air[1] /\ 1 \in DOMAIN air /\ Head(air) \in Fragment \cup Packet
  BY TailLemma DEF IInv, TypeOK
<1>3. pinFuture' \in Packet \cup {None, Pending}
  BY <1>2, NotificationLemma DEF IInv, TypeOK
<1>4. TypeOK'
  BY <1>1, <1>3 DEF IInv, TypeOK, taskVars
<1>5. LoginInv'
  <2>1. LoginTruthful'
    BY DEF IInv, LoginInv, LoginTruthful, taskVars
  <2>2. pinFuture' \notin {None, Pending} => Truthful(pinFuture)'
    BY <1>2 DEF IInv, LoginInv, Truthful
  <2>3. \A i \in DOMAIN air' : IsPacket(air'[i]) => Truthful(air[i])'
    BY <1>1 DEF IInv, LoginInv, Truthful, IsPacket
  <2> QED BY <2>1, <2>2, <2>3 DEF LoginInv, IsPacket
<1>6. RetainInv' /\ ResponseBounded' /\ TrustedAnswersOwn'
  BY DEF IInv, RetainInv, ResponseBounded, TrustedAnswersOwn, taskVars
<1>7. AnswerInv'
  <2>1. Transacting' = Transacting /\ turn' = turn /\ future' = future /\ response' = response
    BY DEF Transacting, taskVars
  <2>2. (\A i \in DOMAIN air : ~IsPacket(air[i]) => air[i].turn = turn)
        => \A i \in DOMAIN air' : ~IsPacket(air'[i]) => air'[i].turn = turn
    BY <1>1 DEF IsPacket
  <2> QED BY <1>1, <2>1, <2>2 DEF IInv, AnswerInv, Usable, IsPacket
<1> QED BY <1>1, <1>4, <1>5, <1>6, <1>7 DEF IInv

\* The kind a text is read as is that of its every part, or invalid; one part alone is
\* an answer only if it is all of it.
LEMMA DecodingLemma ==
    ASSUME NEW text \in Seq(Fragment), text # <<>>, NEW kind \in Decodings(text)
    PROVE  /\ kind \in Kind \cup {"invalid"}
           /\ kind # "invalid" =>
                 /\ text[1].part = 1
                 /\ \A i \in DOMAIN text : text[i].kind = kind
<1>1. /\ DOMAIN text = 1..Len(text) /\ Len(text) \in Nat \ {0} /\ 1 \in DOMAIN text
      /\ \A i \in DOMAIN text : text[i] \in Fragment
  OBVIOUS
<1> DEFINE parts == [i \in DOMAIN text |-> text[i].part]
<1>2. parts \in Seq(Nat) /\ parts # <<>> /\ Head(parts) = text[1].part
  <2>1. \A i \in DOMAIN text : text[i].part \in Nat
    BY <1>1, NotificationLemma
  <2>2. parts \in [1..Len(text) -> Nat]
    BY <1>1, <2>1
  <2>3. parts \in Seq(Nat) /\ parts[1] = text[1].part
    BY <1>1, <2>2
  <2>4. DOMAIN parts = 1..Len(text)
    OBVIOUS
  <2> HIDE DEF parts
  <2>5. Len(parts) = Len(text)
    BY <1>1, <2>3, <2>4, LenProperties
  <2> QED BY <1>1, <2>3, <2>5
<1>3. text[1].kind \in Kind
  BY <1>1, NotificationLemma
<1>4. CASE kind = "invalid"
  BY <1>4
<1>5. CASE kind # "invalid"
  <2>1. /\ kind = text[1].kind
        /\ \A i \in DOMAIN text : text[i].kind = text[1].kind
        /\ Head(parts) = 1
    <3> HIDE DEF parts
    <3>1. ~(\/ text[1].kind = "noise"
            \/ \E i \in DOMAIN text : text[i].kind # text[1].kind
            \/ Head(parts) # 1
            \/ Last(parts) # Length[text[1].kind])
      BY <1>5 DEF Decodings, parts
    <3>2. kind \in {text[1].kind, "invalid"}
      BY DEF Decodings
    <3> QED BY <1>5, <3>1, <3>2
  <2> QED BY <1>2, <1>3, <2>1
<1> QED BY <1>4, <1>5

\* A notification a transaction waits for: if it is the last part of the answer before,
\* it is no answer to this request, and otherwise the answer is of this turn alone.
LEMMA MessageStep ==
    ASSUME IInv, air # <<>>, air' \in {air, Tail(air)}, repeats' \in 0..MaxRepeats,
           UNCHANGED <<taskVars, login, received, answered>>,
           ~IsPacket(Head(air)), OnMessage(Head(air)),
           future = Pending, ~IsRepeat(Head(air))
    PROVE  IInv'
<1> DEFINE f == Head(air)
<1>1. /\ air' \in Seq(Fragment \cup Packet)
      /\ \A i \in DOMAIN air' : \E j \in DOMAIN air : air'[i] = air[j]
      /\ TurnInv' /\ AirInv' /\ (Arrived => Arrived')
  BY AirShrinks
<1>2. f = air[1] /\ 1 \in DOMAIN air /\ f \in Fragment
  BY TailLemma, NotificationLemma DEF IInv, TypeOK
<1>3. /\ Transacting /\ turn' = turn /\ trusted' = trusted /\ pc' = pc
      /\ pinFuture' = pinFuture /\ answered' = answered
  <2>1. UNCHANGED <<turn, trusted, pc, pinFuture, answered>>
    BY DEF taskVars, OnMessage
  <2>2. Transacting
    BY DEF IInv, RetainInv, Transacting
  <2> QED BY <2>1, <2>2
<1>4. turn \in Turn /\ turn \in Nat /\ answered \in Nat /\ received \in Nat
      /\ Script[turn] \in {"all", "status", "state"}
  BY <1>3, ScriptLemma DEF IInv, TypeOK, TurnInv, Turn
<1>5. f.turn \in Turn /\ f.turn \in Nat /\ f.kind \in Kind /\ f.part \in Nat
      /\ Length[f.kind] \in Nat /\ f.part <= Length[f.kind] /\ f.turn <= answered
  BY <1>2, NotificationLemma, ScriptLemma DEF IInv, TurnInv
<1>6. LoginInv'
  <2>1. LoginTruthful'
    BY DEF IInv, LoginInv, LoginTruthful, taskVars
  <2>2. pinFuture' \notin {None, Pending} => Truthful(pinFuture)'
    BY <1>3 DEF IInv, LoginInv, Truthful
  <2>3. \A i \in DOMAIN air' : IsPacket(air'[i]) => Truthful(air[i])'
    BY <1>1 DEF IInv, LoginInv, Truthful, IsPacket
  <2> QED BY <2>1, <2>2, <2>3 DEF LoginInv, IsPacket
<1>7. RetainInv' /\ TrustedAnswersOwn'
  BY <1>3 DEF IInv, RetainInv, TrustedAnswersOwn, Transacting
<1>8. ~Usable("invalid")
  BY <1>4 DEF Usable, Kind
<1>9. CASE ~Fits(response)
  <2>1. /\ response' = <<>> /\ future' = [kind |-> "invalid", turns |-> {}]
        /\ UNCHANGED <<last, recent>>
    BY <1>9 DEF OnMessage, Expecting
  <2>2. future' \in Answer /\ future' # Pending /\ future'.kind = "invalid"
    BY <2>1 DEF Answer
  <2>3. TypeOK' /\ ResponseBounded'
    BY <1>1, <1>3, <2>1, <2>2 DEF IInv, TypeOK, ResponseBounded, taskVars
  <2>4. AnswerInv'
    BY <1>3, <1>8, <2>2 DEF AnswerInv, Usable
  <2> QED BY <1>1, <1>6, <1>7, <2>3, <2>4 DEF IInv
<1>10. CASE Fits(response)
  <2>1. /\ response' = Append(response, f) /\ last' = f /\ recent' = TRUE
        /\ IF f.part < Length[f.kind] THEN future' = future
           ELSE \E kind \in Decodings(response') :
                   future' = [kind |-> kind,
                              turns |-> {response'[i].turn : i \in DOMAIN response'}]
    BY <1>10 DEF OnMessage, Expecting
  <2>2. response \in Seq(Fragment)
    BY DEF IInv, TypeOK
  <2>3. /\ response' \in Seq(Fragment) /\ response' # <<>>
        /\ Len(response') = Len(response) + 1 /\ Len(response) \in Nat
        /\ DOMAIN response' = 1..Len(response) + 1
        /\ response'[Len(response) + 1] = f
        /\ \A i \in 1..Len(response) : response'[i] = response[i]
        /\ DOMAIN response = 1..Len(response)
    <3> HIDE DEF f
    <3>1. response' = Append(response, f)
      BY <2>1
    <3>2. f \in Fragment
      BY <1>2
    <3>3. /\ Append(response, f) \in Seq(Fragment) /\ Append(response, f) # <<>>
          /\ Len(Append(response, f)) = Len(response) + 1
          /\ DOMAIN Append(response, f) = 1..Len(response) + 1
          /\ Append(response, f)[Len(response) + 1] = f
          /\ \A i \in 1..Len(response) : Append(response, f)[i] = response[i]
          /\ Len(response) \in Nat /\ DOMAIN response = 1..Len(response)
      BY <2>2, <3>2, AppendLemma
    <3> QED BY <3>1, <3>3
  <2>4. ResponseBounded'
    BY <1>10, <2>3 DEF Fits, ResponseBounded
  <2> HIDE DEF f
  <2>5. /\ \A i \in DOMAIN response : response[i].turn = turn
        /\ response = <<>> \/ \A i \in DOMAIN air : ~IsPacket(air[i]) => air[i].turn = turn
        /\ \A i \in DOMAIN air : ~IsPacket(air[i]) =>
              /\ air[i].turn # turn => Stale(i)
              /\ air[i].turn = turn /\ IsLastPart(air[i]) => i = Len(air)
    BY <1>3 DEF IInv, AnswerInv, AirInv
  <2>6. ~IsPacket(f)
    BY DEF f
  <2>7. CASE f.part < Length[f.kind]
    <3>1. f.turn = turn /\ future' = Pending
      <4>1. f.part # Length[f.kind]
        BY <1>5, <2>7
      <4>2. f.turn = turn
        BY <1>2, <2>5, <2>6, <4>1 DEF Stale, IsLastPart
      <4>3. future' = future
        BY <2>1, <2>7
      <4> QED BY <4>2, <4>3
    <3>2. \A i \in DOMAIN air : ~IsPacket(air[i]) => air[i].turn = turn
      BY <1>2, <2>5, <3>1 DEF Stale
    <3>3. \A i \in DOMAIN air' : ~IsPacket(air'[i]) => air'[i].turn = turn
      BY <1>1, <3>2
    <3>4. \A i \in DOMAIN response' : response'[i].turn = turn
      BY <2>3, <2>5, <3>1
    <3>5. AnswerInv'
      BY <1>3, <3>1, <3>3, <3>4 DEF AnswerInv, IsPacket
    <3>6. TypeOK'
      BY <1>1, <1>2, <1>3, <2>1, <2>3, <3>1 DEF IInv, TypeOK, taskVars
    <3> QED BY <1>1, <1>6, <1>7, <2>4, <3>5, <3>6 DEF IInv
  <2>8. CASE ~(f.part < Length[f.kind])
    <3>1. PICK kind \in Decodings(response') :
             future' = [kind |-> kind, turns |-> {response'[i].turn : i \in DOMAIN response'}]
      BY <2>1, <2>8
    <3>2. /\ kind \in Kind \cup {"invalid"}
          /\ kind # "invalid" => /\ response'[1].part = 1
                                 /\ \A i \in DOMAIN response' : response'[i].kind = kind
      BY <2>3, DecodingLemma
    <3>3. f.part = Length[f.kind]
      BY <1>5, <2>8
    <3>4. future' \in Answer /\ future' # Pending /\ future'.kind = kind
      <4>1. \A i \in DOMAIN response' : response'[i].turn \in Turn
        BY <2>3, NotificationLemma
      <4> QED BY <3>1, <3>2, <4>1 DEF Answer
    <3>5. TypeOK'
      BY <1>1, <1>2, <1>3, <2>1, <2>3, <3>4 DEF IInv, TypeOK, taskVars
    <3>6. ASSUME Usable(kind) PROVE future'.turns = {turn} /\ Arrived
      <4>1. kind # "invalid" /\ f.kind = kind /\ (Script[turn] = "all" => kind = "all")
        BY <1>4, <1>8, <2>3, <3>2, <3>6 DEF Usable
      <4>2. f.turn = turn
        <5>1. SUFFICES ASSUME f.turn # turn PROVE FALSE
          OBVIOUS
        <5>2. Stale(1)
          BY <1>2, <2>5, <2>6, <5>1
        <5>3. response = <<>>
          BY <1>2, <2>5, <2>6, <5>1
        <5>4. f.part = 1
          BY <2>3, <3>2, <4>1, <5>3
        <5>5. f.kind = "all"
          BY <1>2, <4>1, <5>2 DEF Stale
        <5>6. Length["all"] > 1 /\ Length["all"] = 1
          BY <3>3, <5>4, <5>5
        <5> QED BY <5>6
      <4>3. Len(air) = 1
        BY <1>2, <2>5, <2>6, <3>3, <4>2 DEF IsLastPart
      <4>4. DOMAIN air = {1}
        BY <4>3 DEF IInv, TypeOK
      <4>5. answered = turn
        BY <1>4, <1>5, <4>2 DEF IInv, TurnInv
      <4>6. Arrived
        BY <1>2, <2>6, <3>3, <4>1, <4>2, <4>4, <4>5 DEF Arrived, IsLastPart
      <4>7. \A i \in DOMAIN response' : response'[i].turn = turn
        BY <2>3, <2>5, <4>2
      <4>8. {response'[i].turn : i \in DOMAIN response'} = {turn}
        BY <2>3, <4>7
      <4> QED BY <3>1, <4>6, <4>8
    <3>7. AnswerInv'
      BY <1>1, <1>3, <3>4, <3>6 DEF AnswerInv, Usable
    <3> QED BY <1>1, <1>6, <1>7, <2>4, <3>5, <3>7 DEF IInv
  <2> QED BY <2>7, <2>8
<1> QED BY <1>9, <1>10

LEMMA NotifyStep == IInv /\ Notify => IInv'
<1> SUFFICES ASSUME IInv, Notify PROVE IInv'
  OBVIOUS
<1>1. air # <<>> /\ UNCHANGED <<taskVars, login, received, answered>>
  BY DEF Notify
<1>2. air' \in {air, Tail(air)} /\ repeats' \in 0..MaxRepeats
  <2>1. repeats \in 0..MaxRepeats
    BY DEF IInv, TypeOK
  <2> QED BY <2>1 DEF Notify
<1>3. CASE UNCHANGED callbackVars
  BY <1>1, <1>2, <1>3, IgnoredStep DEF callbackVars
<1>4. CASE IsPacket(Head(air)) /\ OnPin(Head(air))
  <2>1. UNCHANGED <<future, response, last, recent>>
    BY <1>4 DEF OnPin
  <2>2. pinFuture' = IF pinFuture = Pending THEN Head(air) ELSE pinFuture
    BY <1>4 DEF OnPin
  <2> QED BY <1>1, <1>2, <1>4, <2>1, <2>2, IgnoredStep
<1>5. CASE ~IsPacket(Head(air)) /\ OnMessage(Head(air))
  <2>1. pinFuture' = pinFuture
    BY <1>5 DEF OnMessage
  <2>2. CASE ~Expecting \/ IsRepeat(Head(air))
    <3>1. UNCHANGED <<future, response, last, recent>>
      BY <1>5, <2>2 DEF OnMessage
    <3> QED BY <1>1, <1>2, <2>1, <3>1, IgnoredStep
  <2>3. CASE future = Pending /\ ~IsRepeat(Head(air))
    BY <1>1, <1>2, <1>5, <2>3, MessageStep
  <2> QED BY <2>2, <2>3 DEF Expecting
<1> QED BY <1>3, <1>4, <1>5 DEF Notify

LEMMA PauseStep == IInv /\ Pause => IInv'
<1> SUFFICES ASSUME IInv, Pause PROVE IInv'
  OBVIOUS
<1> USE DEF IInv, Pause, taskVars, linkVars
<1>1. TypeOK'
  BY DEF TypeOK
<1>2. LoginInv'
  BY DEF LoginInv, LoginTruthful, Truthful, IsPacket
<1>3. RetainInv' /\ ResponseBounded' /\ TrustedAnswersOwn'
  BY DEF RetainInv, ResponseBounded, TrustedAnswersOwn
<1>4. TurnInv'
  BY DEF TurnInv, Transacting, IsPacket
<1>5. AirInv' /\ AnswerInv'
  BY DEF AirInv, AnswerInv, Arrived, Stale, Usable, Transacting, IsPacket, IsLastPart
<1> QED BY <1>1, <1>2, <1>3, <1>4, <1>5
-----------------------------------------------------------------------------
(* The controller *)

LEMMA SendsLemma ==
    ASSUME NEW S, air \in Seq(S), NEW new \in Seq(S), Sends(new)
    PROVE  /\ air' \in Seq(S) /\ Len(air) \in Nat /\ Len(new) \in Nat
           /\ Len(air') = Len(air) + Len(new)
           /\ \A i \in DOMAIN air' : \/ i \in DOMAIN air /\ air'[i] = air[i]
                                     \/ /\ i - Len(air) \in 1..Len(new)
                                        /\ air'[i] = new[i - Len(air)]
<1>1. air' = air \o new
  BY DEF Sends
<1>2. /\ air \o new \in Seq(S) /\ Len(air \o new) = Len(air) + Len(new)
      /\ \A i \in 1..Len(air) + Len(new) :
            (air \o new)[i] = IF i <= Len(air) THEN air[i] ELSE new[i - Len(air)]
  BY ConcatProperties
<1>3. Len(air) \in Nat /\ Len(new) \in Nat /\ DOMAIN air = 1..Len(air)
  OBVIOUS
<1>4. DOMAIN air' = 1..Len(air) + Len(new)
  BY <1>1, <1>2
<1> QED BY <1>1, <1>2, <1>3, <1>4

\* No packet under way speaks of a verdict before there is one.
LEMMA PacketStep ==
    ASSUME IInv, pc \in {"challenging", "answering"}, login \in {"none", "challenged"},
           NEW packet \in Packet, Sends(<<packet>>),
           login' \in {"challenged", "accepted", "rejected"}, Truthful(packet)',
           UNCHANGED <<taskVars, callbackVars, received, answered, repeats>>
    PROVE  IInv'
<1> USE DEF IInv, taskVars, callbackVars
<1>1. /\ air' \in Seq(Fragment \cup Packet)
      /\ \A i \in DOMAIN air' : (i \in DOMAIN air /\ air'[i] = air[i]) \/ air'[i] = packet
  <2>1. <<packet>> \in Seq(Fragment \cup Packet) /\ Len(<<packet>>) = 1 /\ <<packet>>[1] = packet
    OBVIOUS
  <2>2. air \in Seq(Fragment \cup Packet)
    BY DEF TypeOK
  <2>3. /\ air' \in Seq(Fragment \cup Packet) /\ Len(air) \in Nat
        /\ \A i \in DOMAIN air' : \/ i \in DOMAIN air /\ air'[i] = air[i]
                                  \/ /\ i - Len(air) \in 1..1
                                     /\ air'[i] = <<packet>>[i - Len(air)]
    BY <2>1, <2>2, SendsLemma
  <2>4. \A i \in 1..1 : <<packet>>[i] = packet
    BY <2>1
  <2> QED BY <2>3, <2>4
<1>2. TypeOK'
  BY <1>1 DEF TypeOK
<1>3. LoginInv'
  <2>1. turn = 0
    BY DEF TurnInv
  <2>2. LoginTruthful'
    BY <2>1 DEF LoginTruthful
  <2>3. \A p : Truthful(p) => p.kind # "login"
    BY DEF Truthful
  <2>4. pinFuture' \notin {None, Pending} => Truthful(pinFuture)'
    BY <2>3 DEF LoginInv, Truthful
  <2>5. \A i \in DOMAIN air' : IsPacket(air'[i]) => Truthful(air[i])'
    BY <1>1, <2>3 DEF LoginInv, Truthful
  <2> QED BY <2>2, <2>4, <2>5 DEF LoginInv, IsPacket
<1>4. RetainInv' /\ ResponseBounded' /\ TrustedAnswersOwn'
  BY DEF RetainInv, ResponseBounded, TrustedAnswersOwn
<1>5. TurnInv'
  BY <1>1, NotificationLemma DEF TurnInv, Transacting, IsPacket
<1>6. AirInv' /\ AnswerInv'
  BY DEF AirInv, AnswerInv, Transacting
<1> QED BY <1>2, <1>3, <1>4, <1>5, <1>6

LEMMA LoginSteps == IInv /\ (Challenge \/ Judge) => IInv'
<1> SUFFICES ASSUME IInv, Challenge \/ Judge PROVE IInv'
  OBVIOUS
<1>1. CASE Challenge
  <2>1. PICK kind \in {"challenge", "short"} : Sends(<<[kind |-> kind, result |-> 0]>>)
    BY <1>1 DEF Challenge
  <2>2. [kind |-> kind, result |-> 0] \in Packet
    BY DEF Packet
  <2>3. Truthful([kind |-> kind, result |-> 0])'
    BY DEF Truthful
  <2> QED BY <1>1, <2>1, <2>2, <2>3, PacketStep DEF Challenge
<1>2. CASE Judge
  <2>1. PICK result \in {0, 1} :
           /\ login' = IF result = 0 THEN "accepted" ELSE "rejected"
           /\ Sends(<<[kind |-> "login", result |-> result]>>)
    BY <1>2 DEF Judge
  <2>2. [kind |-> "login", result |-> result] \in Packet
    BY DEF Packet
  <2>3. Truthful([kind |-> "login", result |-> result])'
    BY <2>1 DEF Truthful
  <2> QED BY <1>2, <2>1, <2>2, <2>3, PacketStep DEF Judge
<1> QED BY <1>1, <1>2

LEMMA ReceiveStep == IInv /\ Receive => IInv'
<1> SUFFICES ASSUME IInv, Receive PROVE IInv'
  OBVIOUS
<1> USE DEF IInv, Receive, taskVars, callbackVars
<1>1. TypeOK'
  BY DEF TypeOK
<1>2. LoginInv'
  BY DEF LoginInv, LoginTruthful, Truthful, IsPacket
<1>3. RetainInv' /\ ResponseBounded' /\ TrustedAnswersOwn'
  BY DEF RetainInv, ResponseBounded, TrustedAnswersOwn
<1>4. TurnInv'
  <2>1. turn \in Nat /\ received \in Nat /\ answered \in Nat
    BY ScriptLemma DEF TypeOK
  <2> QED BY <2>1 DEF TurnInv, Transacting, IsPacket
<1>5. AirInv' /\ AnswerInv'
  BY DEF AirInv, AnswerInv, Arrived, Stale, Usable, Transacting, IsPacket, IsLastPart
<1> QED BY <1>1, <1>2, <1>3, <1>4, <1>5

\* An answer comes behind what is left of the one before.
LEMMA ReplyStep == IInv /\ Reply => IInv'
<1> SUFFICES ASSUME IInv, Reply PROVE IInv'
  OBVIOUS
<1>1. /\ answered < received /\ answered' = received
      /\ UNCHANGED <<taskVars, callbackVars, login, received, repeats>>
  BY DEF Reply
<1>2. /\ received \in Turn /\ received \in Nat /\ answered \in Nat /\ turn \in Nat
      /\ received <= turn
  <2>1. received <= turn
    BY DEF IInv, TurnInv
  <2>2. turn \in Turn \cup {0} /\ received \in Turn \cup {0} /\ answered \in Turn \cup {0}
    BY DEF IInv, TypeOK
  <2>3. turn \in Nat /\ received \in Nat /\ answered \in Nat
    BY <2>2, ScriptLemma
  <2>4. received # 0
    BY <1>1, <2>3
  <2> QED BY <2>1, <2>2, <2>3, <2>4
<1>3. PICK kind \in Kind :
         Sends([i \in 1..Length[kind] |-> [kind |-> kind, part |-> i, turn |-> received]])
  <2>1. Script[received] \in Kind
    BY <1>2, ScriptLemma DEF Kind
  <2> QED BY <2>1 DEF Reply, Kind
<1> DEFINE new == [i \in 1..Length[kind] |-> [kind |-> kind, part |-> i, turn |-> received]]
<1>4. Length[kind] \in Nat \ {0}
  BY NotificationLemma
<1>5. /\ new \in Seq(Fragment \cup Packet) /\ Len(new) = Length[kind]
      /\ \A i \in 1..Length[kind] : /\ new[i].turn = received /\ new[i].kind = kind
                                    /\ new[i].part = i /\ new[i] \in Fragment
  <2>1. \A i \in 1..Length[kind] :
           [kind |-> kind, part |-> i, turn |-> received] \in Fragment
    BY <1>2, <1>4 DEF Fragment
  <2>2. new \in [1..Length[kind] -> Fragment \cup Packet]
    BY <2>1
  <2>3. new \in Seq(Fragment \cup Packet)
    BY <1>4, <2>2
  <2>4. DOMAIN new = 1..Length[kind]
    OBVIOUS
  <2>5. \A i \in 1..Length[kind] : /\ new[i].turn = received /\ new[i].kind = kind
                                   /\ new[i].part = i /\ new[i] \in Fragment
    BY <2>1
  <2> HIDE DEF new
  <2>6. Len(new) = Length[kind]
    BY <1>4, <2>3, <2>4, LenProperties
  <2> QED BY <2>3, <2>5, <2>6
<1>6. /\ air' \in Seq(Fragment \cup Packet) /\ Len(air) \in Nat
      /\ Len(air') = Len(air) + Length[kind]
      /\ \A i \in DOMAIN air' :
            \/ i \in DOMAIN air /\ air'[i] = air[i]
            \/ /\ i \in Nat /\ air'[i] \in Fragment
               /\ air'[i].turn = received /\ air'[i].kind = kind
               /\ air'[i].part = i - Len(air) /\ air'[i].part <= Length[kind]
  <2>1. air \in Seq(Fragment \cup Packet)
    BY DEF IInv, TypeOK
  <2> HIDE DEF new
  <2>2. Sends(new)
    BY <1>3 DEF new
  <2>3. /\ air' \in Seq(Fragment \cup Packet) /\ Len(air) \in Nat
        /\ Len(air') = Len(air) + Length[kind]
        /\ \A i \in DOMAIN air' : \/ i \in DOMAIN air /\ air'[i] = air[i]
                                  \/ /\ i - Len(air) \in 1..Length[kind]
                                     /\ air'[i] = new[i - Len(air)]
    BY <1>5, <2>1, <2>2, SendsLemma
  <2>4. DOMAIN air' = 1..Len(air')
    BY <2>3
  <2>5. \A i \in DOMAIN air' : i \in Nat
    BY <2>3, <2>4
  <2> QED BY <1>4, <1>5, <2>3, <2>5
<1> HIDE DEF new
<1> USE DEF taskVars, callbackVars
<1>7. TypeOK'
  BY <1>1, <1>2, <1>6 DEF IInv, TypeOK
<1>8. LoginInv'
  <2>1. LoginTruthful'
    BY <1>1 DEF IInv, LoginInv, LoginTruthful
  <2>2. pinFuture' \notin {None, Pending} => Truthful(pinFuture)'
    BY <1>1 DEF IInv, LoginInv, Truthful
  <2>3. \A i \in DOMAIN air' : IsPacket(air'[i]) => Truthful(air[i])'
    BY <1>1, <1>6, NotificationLemma DEF IInv, LoginInv, Truthful
  <2> QED BY <2>1, <2>2, <2>3 DEF LoginInv, IsPacket
<1>9. RetainInv' /\ ResponseBounded' /\ TrustedAnswersOwn'
  BY <1>1 DEF IInv, RetainInv, ResponseBounded, TrustedAnswersOwn
<1>10. TurnInv'
  <2>1. \A i \in DOMAIN air' : ~IsPacket(air'[i]) =>
           air'[i].turn <= received /\ air'[i].part <= Length[air'[i].kind]
    <3>1. SUFFICES ASSUME NEW i \in DOMAIN air', ~IsPacket(air'[i])
                   PROVE  air'[i].turn <= received /\ air'[i].part <= Length[air'[i].kind]
      OBVIOUS
    <3>2. CASE i \in DOMAIN air /\ air'[i] = air[i]
      <4>1. air[i].turn <= answered /\ air[i].part <= Length[air[i].kind]
        BY <3>1, <3>2 DEF IInv, TurnInv
      <4>2. air[i] \in Fragment
        BY <3>1, <3>2, NotificationLemma DEF IInv, TypeOK
      <4>3. air[i].turn \in Nat
        BY <4>2, NotificationLemma, ScriptLemma
      <4> QED BY <1>1, <1>2, <3>2, <4>1, <4>3
    <3>3. CASE air'[i].turn = received /\ air'[i].kind = kind /\ air'[i].part <= Length[kind]
      BY <1>2, <3>3
    <3> QED BY <1>6, <3>1, <3>2, <3>3
  <2>2. /\ Transacting => turn > 0 /\ Len(trusted) = turn - 1 /\ received >= turn - 1
        /\ pc \in {"subscribing", "challenging", "answering"} => turn = 0 /\ trusted = <<>>
        /\ pc = "saving" => turn > 0 /\ HasNext(turn) /\ Len(trusted) = turn
    BY <1>1, <1>2 DEF IInv, TurnInv
  <2> QED BY <1>1, <1>2, <2>1, <2>2 DEF TurnInv, Transacting, IsPacket
\* The controller was still to answer the current request.
<1>11. ~Arrived
  BY <1>1, <1>2 DEF Arrived
<1>12. Transacting => received = turn /\ answered = turn - 1
  BY <1>1, <1>2 DEF IInv, TurnInv
<1>13. AirInv'
  <2>1. pc # "saving"
    BY <1>11 DEF IInv, AirInv
  <2>2. ASSUME Transacting, NEW i \in DOMAIN air', ~IsPacket(air'[i])
        PROVE  /\ air'[i].turn # turn => Stale(i)'
               /\ air'[i].turn = turn /\ IsLastPart(air'[i]) => i = Len(air')
    <3>1. CASE i \in DOMAIN air /\ air'[i] = air[i]
      <4>1. air[i] \in Fragment
        BY <2>2, <3>1, NotificationLemma DEF IInv, TypeOK
      <4>2. air[i].turn \in Nat
        BY <4>1, NotificationLemma, ScriptLemma
      <4>3. air[i].turn <= answered
        BY <2>2, <3>1 DEF IInv, TurnInv
      <4>4. air[i].turn # turn
        BY <1>2, <1>12, <2>2, <4>2, <4>3
      <4>5. Stale(i)
        BY <2>2, <3>1, <4>4 DEF IInv, AirInv
      <4> QED BY <1>1, <3>1, <4>4, <4>5 DEF Stale, IsLastPart
    <3>2. CASE /\ i \in Nat /\ air'[i].turn = received /\ air'[i].kind = kind
               /\ air'[i].part = i - Len(air)
      <4>1. IsLastPart(air'[i]) => i = Len(air')
        BY <1>4, <1>6, <3>2 DEF IsLastPart
      <4> QED BY <1>12, <2>2, <3>2, <4>1
    <3> QED BY <1>6, <2>2, <3>1, <3>2
  <2>3. turn' = turn /\ pc' = pc
    BY <1>1
  <2> QED BY <2>1, <2>2, <2>3 DEF AirInv, Transacting, IsPacket, IsLastPart
<1>14. AnswerInv'
  <2>1. turn' = turn /\ pc' = pc /\ future' = future /\ response' = response
    BY <1>1
  <2>2. ASSUME Transacting, \A i \in DOMAIN air : ~IsPacket(air[i]) => air[i].turn = turn
        PROVE  \A i \in DOMAIN air' : ~IsPacket(air'[i]) => air'[i].turn = turn
    BY <1>6, <1>12, <2>2
  <2>3. ~(Transacting /\ future # Pending /\ Usable(future.kind))
    BY <1>11 DEF IInv, AnswerInv
  <2> QED BY <2>1, <2>2, <2>3 DEF IInv, AnswerInv, Usable, Transacting, IsPacket
<1> QED BY <1>7, <1>8, <1>9, <1>10, <1>13, <1>14 DEF IInv
-----------------------------------------------------------------------------
LEMMA NextInv == IInv /\ [Next]_vars => IInv'
<1> SUFFICES ASSUME IInv, [Next]_vars PROVE IInv'
  OBVIOUS
<1>1. CASE UNCHANGED vars
  <2> USE <1>1 DEF IInv, vars, taskVars, callbackVars, linkVars
  <2>1. TypeOK'
    BY DEF TypeOK
  <2>2. LoginInv'
    BY DEF LoginInv, LoginTruthful, Truthful, IsPacket
  <2>3. RetainInv' /\ ResponseBounded' /\ TrustedAnswersOwn'
    BY DEF RetainInv, ResponseBounded, TrustedAnswersOwn
  <2>4. TurnInv'
    BY DEF TurnInv, Transacting, IsPacket
  <2>5. AirInv' /\ AnswerInv'
    BY DEF AirInv, AnswerInv, Arrived, Stale, Usable, Transacting, IsPacket, IsLastPart
  <2> QED BY <2>1, <2>2, <2>3, <2>4, <2>5
<1>2. CASE Progress \/ LinkFails
  BY <1>2, TaskSteps
<1>3. CASE Challenge \/ Judge
  BY <1>3, LoginSteps
<1> QED BY <1>1, <1>2, <1>3, NotifyStep, PauseStep, ReceiveStep, ReplyStep DEF Next

\* What the session knows of the link stays consistent, whatever the controller sends
\* and the link loses, repeats or delays (authenticate, transact and the callbacks).
THEOREM Invariance == Spec => []IInv
<1> QED BY InitInv, NextInv, PTL DEF Spec

\* The futures hold a packet, an answer or nothing, and the buffer only notifications
\* of the response characteristic (_pin_future, _response_future, _response).
THEOREM TypeCorrect == Spec => []TypeOK
<1>1. IInv => TypeOK
  BY DEF IInv
<1> QED BY <1>1, Invariance, PTL

\* No request is sent before the controller has accepted the PIN, and a PIN is only
\* reported wrong when the controller said so (authenticate).
THEOREM LoginsAreTrue == Spec => []LoginTruthful
<1>1. IInv => LoginTruthful
  BY DEF IInv, LoginInv
<1> QED BY <1>1, Invariance, PTL

\* What an operation goes on from was sent in answer to that very request, though
\* notifications of the one before may still be under way (transact, _on_message).
THEOREM AnswersOwn == Spec => []TrustedAnswersOwn
<1>1. IInv => TrustedAnswersOwn
  BY DEF IInv
<1> QED BY <1>1, Invariance, PTL

\* No answer, however long, is stored beyond MAX_RESPONSE_BYTES (_on_message).
THEOREM ResponsesBounded == Spec => []ResponseBounded
<1>1. IInv => ResponseBounded
  BY DEF IInv
<1> QED BY <1>1, Invariance, PTL

\* Nothing is kept of a notification nobody waits for, also after the session ended
\* by an error (the finally clauses of authenticate and transact).
THEOREM NothingIsRetained == Spec => []NothingRetained
<1>1. IInv => NothingRetained
  BY DEF IInv, RetainInv, NothingRetained, Ended
<1> QED BY <1>1, Invariance, PTL
=============================================================================
