------------------------------ MODULE Session ------------------------------
(***************************************************************************)
(* One BLE session of HunterNodeSession: the PIN exchange, then the        *)
(* transactions of one operation, each a request written in chunks and an  *)
(* answer that arrives in notifications. The notification callbacks run    *)
(* between the task's awaits and leave what they learn in a future; the    *)
(* task goes on in a later turn of the event loop.                         *)
(*                                                                         *)
(* The bytes of a notification are abstracted to the kind of answer and    *)
(* the part of it they are; the last part ends with the zero byte.         *)
(***************************************************************************)
EXTENDS Naturals, Sequences, SequencesExt

CONSTANTS Script,      \* the kinds of answer the operation asks for, in order
          Length,      \* of each kind: how many notifications its answer takes
          MaxResponse, \* MAX_RESPONSE_BYTES, in notifications
          Faults,      \* what may go wrong on the link, see FaultKind
          MaxRepeats,  \* bound: notifications that arrive twice
          None, Pending  \* a future that is not there, and one without a result

\* all: Read All. status: Status 0. state: Section_State. refused: an object with
\* another status. noise: no JSON object, trailing data, or no end in sight.
Kind == {"all", "status", "state", "refused", "noise"}

\* repeat: a notification arrives again within 100 ms, late: or after that. lost: it
\* does not arrive. link: the connection breaks, or the task is cancelled.
FaultKind == {"repeat", "late", "lost", "link", "refuse", "noise", "wrong_pin", "short"}

ASSUME SessionAssumption ==
    /\ Script \in Seq({"all", "status", "state"}) \ {<<>>}
    \* a read is all and state, an edit has a write and a second all between them
    /\ \A n \in 1..Len(Script) - 1 : Script[n] = "all" \/ Script[n + 1] = "all"
    /\ Length \in [Kind -> Nat \ {0}]
    /\ Length["all"] > 1   \* it is longer than an attribute may be
    /\ MaxResponse \in Nat \ {0}
    /\ Faults \subseteq FaultKind
    /\ MaxRepeats \in Nat

VARIABLES
    pc,        \* of the task that runs the session
    turn,      \* the transaction it is in
    pinFuture, future,      \* _pin_future, _response_future
    response,  \* _response
    last,      \* _last_fragment
    recent,    \* less than 100 ms have passed since the last fragment
    login,     \* the controller: what came of the PIN exchange
    received,  \* the controller: requests that have arrived
    answered,  \* the controller: requests it has answered
    air,       \* notifications under way
    repeats,   \* how many arrived twice
    trusted    \* history: the answers the operation went on from

taskVars == <<pc, turn, trusted>>
callbackVars == <<pinFuture, future, response, last, recent>>
linkVars == <<login, received, answered, air, repeats>>
vars == <<taskVars, callbackVars, linkVars>>

Turn == 1..Len(Script)
Ended == {"ok", "failed", "rejected"}
Where == {"subscribing", "challenging", "answering", "saving", "sending",
          "waiting"} \cup Ended

Fragment == [kind : Kind, part : Nat \ {0}, turn : Turn]
Packet == [kind : {"challenge", "login", "short"}, result : {0, 1}]
Answer == [kind : Kind \cup {"invalid"}, turns : SUBSET Turn]

ASSUME FutureAssumption ==
    /\ None # Pending
    /\ {None, Pending} \cap (Packet \cup Answer) = {}

TypeOK ==
    /\ pc \in Where
    /\ turn \in Turn \cup {0}
    /\ pinFuture \in Packet \cup {None, Pending}
    /\ future \in Answer \cup {None, Pending}
    /\ response \in Seq(Fragment)
    /\ last \in Fragment \cup {None}
    /\ recent \in BOOLEAN
    /\ login \in {"none", "challenged", "accepted", "rejected"}
    /\ received \in Turn \cup {0}
    /\ answered \in Turn \cup {0}
    /\ air \in Seq(Fragment \cup Packet)
    /\ repeats \in 0..MaxRepeats
    /\ trusted \in Seq(Answer)

Init ==
    /\ pc = "subscribing"
    /\ turn = 0
    /\ pinFuture = None
    /\ future = None
    /\ response = <<>>
    /\ last = None
    /\ recent = FALSE
    /\ login = "none"
    /\ received = 0
    /\ answered = 0
    /\ air = <<>>
    /\ repeats = 0
    /\ trusted = <<>>
-----------------------------------------------------------------------------
(* The task *)

\* Every way out of the session runs the finally clauses.
End(result) ==
    /\ pc' = result
    /\ pinFuture' = None
    /\ future' = None
    /\ response' = <<>>
    /\ UNCHANGED <<turn, last, recent, trusted>>

\* The next transaction starts in the same step its predecessor ends.
Transact(n) ==
    /\ pc' = "sending"
    /\ turn' = n
    /\ future' = Pending
    /\ response' = <<>>
    /\ last' = None
    /\ UNCHANGED recent

Subscribe ==
    /\ pc = "subscribing"
    /\ pc' = "challenging"
    /\ pinFuture' = Pending
    /\ UNCHANGED <<turn, trusted, future, response, last, recent, linkVars>>

TakeChallenge ==
    /\ pc = "challenging"
    /\ pinFuture \notin {None, Pending}
    /\ IF pinFuture = [kind |-> "challenge", result |-> 0]
       THEN /\ pc' = "answering"
            /\ pinFuture' = Pending
            /\ UNCHANGED <<turn, trusted, future, response, last, recent>>
       ELSE End("failed")
    /\ UNCHANGED linkVars

\* Mutant: the packet type of the login result is not checked.
VerdictAnyType(packet) == IF packet.result = 0 THEN "accepted" ELSE "rejected"

LoginVerdict(packet) ==
    IF packet.kind # "login" THEN "failed"
    ELSE IF packet.result = 0 THEN "accepted" ELSE "rejected"

TakeLogin ==
    /\ pc = "answering"
    /\ pinFuture \notin {None, Pending}
    /\ IF LoginVerdict(pinFuture) = "accepted"
       THEN Transact(1) /\ pinFuture' = None /\ UNCHANGED trusted
       ELSE End(LoginVerdict(pinFuture))
    /\ UNCHANGED linkVars

\* The last chunk is acknowledged; the controller has had the request since.
Written ==
    /\ pc = "sending"
    /\ received = turn
    /\ pc' = "waiting"
    /\ UNCHANGED <<turn, trusted, callbackVars, linkVars>>

\* Mutant: any JSON object will do.
UsableObject(kind) == kind # "invalid"

\* What the operation accepts as the answer of a transaction: a Read All must have
\* its sections, a write its status 0; a Section_State may lack every one of its. A
\* poll looks at both answers after the second, which ends it no differently.
Usable(kind) ==
    kind \in IF Script[turn] = "state" THEN Kind ELSE {Script[turn]}

\* Mutant: one transaction too many.
HasNextTooFar(n) == n <= Len(Script)

HasNext(n) == n < Len(Script)

WritesNext(n) == n + 1 \in Turn /\ Script[n + 1] = "status"

TakeAnswer ==
    /\ pc = "waiting"
    /\ future \notin {None, Pending}
    /\ IF ~Usable(future.kind) THEN End("failed")
       ELSE /\ trusted' = Append(trusted, future)
            /\ IF HasNext(turn) /\ ~WritesNext(turn)
               THEN Transact(turn + 1)
               ELSE /\ pc' = IF HasNext(turn) THEN "saving" ELSE "ok"
                    /\ future' = None
                    /\ response' = <<>>
                    /\ UNCHANGED <<turn, last, recent>>
            /\ UNCHANGED pinFuture
    /\ UNCHANGED linkVars

\* Between the read and the write of an edit its backup is stored.
Save ==
    /\ pc = "saving"
    /\ Transact(turn + 1)
    /\ UNCHANGED <<trusted, pinFuture, linkVars>>

\* Mutant: nothing limits the wait for an answer.
NeverTimesOut == FALSE /\ UNCHANGED vars

TimeOut ==
    /\ \/ pc \in {"challenging", "answering"} /\ pinFuture = Pending
       \/ pc = "waiting" /\ future = Pending
    /\ End("failed")
    /\ UNCHANGED linkVars

LinkFails ==
    /\ "link" \in Faults
    /\ pc \notin Ended
    /\ End("failed")
    /\ UNCHANGED linkVars
-----------------------------------------------------------------------------
(* The notification callbacks *)

OnPin(packet) ==
    /\ pinFuture' = IF pinFuture = Pending THEN packet ELSE pinFuture
    /\ UNCHANGED <<future, response, last, recent>>

\* Mutant: a notification counts against the limit only once it is stored.
FitsBefore(stored) == Len(stored) <= MaxResponse
Fits(stored) == Len(stored) + 1 <= MaxResponse

IsRepeat(fragment) ==
    /\ last # None
    /\ recent
    /\ [fragment EXCEPT !.turn = 0] = [last EXCEPT !.turn = 0]

\* What json.loads makes of a text. One that is not an answer from its first part to
\* its last, but begins and ends like one, may parse or not.
Decodings(text) ==
    LET kind == text[1].kind
        parts == [i \in DOMAIN text |-> text[i].part]
    IN  IF \/ kind = "noise"
           \/ \E i \in DOMAIN text : text[i].kind # kind
           \/ Head(parts) # 1
           \/ Last(parts) # Length[kind] THEN {"invalid"}
        ELSE IF parts = [i \in 1..Length[kind] |-> i] THEN {kind}
        ELSE {kind, "invalid"}

\* Mutant: a notification is kept whether or not a transaction waits for it.
KeepsUnsolicited == future \in {None, Pending}
Expecting == future = Pending

OnMessage(fragment) ==
    /\ IF ~Expecting \/ IsRepeat(fragment)
       THEN UNCHANGED <<future, response, last, recent>>
       ELSE IF ~Fits(response)
       THEN /\ response' = <<>>
            /\ future' = [kind |-> "invalid", turns |-> {}]
            /\ UNCHANGED <<last, recent>>
       ELSE /\ response' = Append(response, fragment)
            /\ last' = fragment
            /\ recent' = TRUE
            /\ IF fragment.part < Length[fragment.kind] THEN UNCHANGED future
               ELSE \E kind \in Decodings(response') :
                      future' = [kind |-> kind,
                                 turns |-> {response'[i].turn : i \in DOMAIN response'}]
    /\ UNCHANGED pinFuture

IsPacket(notification) == notification.kind \in {"challenge", "login", "short"}

\* The oldest notification arrives, and perhaps again; or it gets lost.
Notify ==
    /\ air # <<>>
    /\ \/ /\ IF IsPacket(Head(air)) THEN OnPin(Head(air)) ELSE OnMessage(Head(air))
          /\ \/ air' = Tail(air) /\ UNCHANGED repeats
             \/ /\ "repeat" \in Faults
                /\ repeats < MaxRepeats
                /\ repeats' = repeats + 1
                /\ UNCHANGED air
       \/ /\ "lost" \in Faults
          /\ air' = Tail(air)
          /\ UNCHANGED <<callbackVars, repeats>>
    /\ UNCHANGED <<taskVars, login, received, answered>>

\* 100 ms pass.
Pause ==
    /\ "late" \in Faults
    /\ recent
    /\ recent' = FALSE
    /\ UNCHANGED <<taskVars, pinFuture, future, response, last, linkVars>>
-----------------------------------------------------------------------------
(* The controller *)

Sends(notifications) == air' = air \o notifications

Challenge ==
    /\ pc = "challenging"
    /\ login = "none"
    /\ login' = "challenged"
    /\ \E kind \in {"challenge"} \cup (IF "short" \in Faults THEN {"short"} ELSE {}) :
          Sends(<<[kind |-> kind, result |-> 0]>>)
    /\ UNCHANGED <<taskVars, callbackVars, received, answered, repeats>>

Judge ==
    /\ pc = "answering"
    /\ login = "challenged"
    /\ \/ login' = "accepted" /\ Sends(<<[kind |-> "login", result |-> 0]>>)
       \/ /\ "wrong_pin" \in Faults
          /\ login' = "rejected"
          /\ Sends(<<[kind |-> "login", result |-> 1]>>)
    /\ UNCHANGED <<taskVars, callbackVars, received, answered, repeats>>

Receive ==
    /\ pc = "sending"
    /\ received < turn
    /\ received' = turn
    /\ UNCHANGED <<taskVars, callbackVars, login, answered, air, repeats>>

Reply ==
    /\ answered < received
    /\ answered' = received
    /\ \E kind \in {Script[received]} \cup (IF "refuse" \in Faults THEN {"refused"} ELSE {})
                                      \cup (IF "noise" \in Faults THEN {"noise"} ELSE {}) :
          Sends([i \in 1..Length[kind] |->
                    [kind |-> kind, part |-> i, turn |-> received]])
    /\ UNCHANGED <<taskVars, callbackVars, login, received, repeats>>

Progress ==
    \/ Subscribe \/ TakeChallenge \/ TakeLogin
    \/ Written \/ TakeAnswer \/ Save \/ TimeOut

Next ==
    \/ Progress \/ LinkFails
    \/ Notify \/ Pause
    \/ Challenge \/ Judge \/ Receive \/ Reply

Spec == Init /\ [][Next]_vars

\* The task runs when it can and its timers fire; the link delivers a request or
\* reports an error, for which the code has no timer of its own.
FairSpec == Spec /\ WF_vars(Progress) /\ WF_vars(Receive)
-----------------------------------------------------------------------------
(* Properties *)

\* Requests are only sent to a controller that has accepted the PIN, and the PIN is
\* only reported wrong when the controller said so (authenticate).
LoginTruthful ==
    /\ turn > 0 => login = "accepted"
    /\ pc = "rejected" => login = "rejected"

\* Whatever an operation goes on from, it was sent in answer to that very request,
\* and a configuration or a write status is one: no repeated or late notification
\* of an earlier transaction passes for the answer to a later one (transact).
TrustedAnswersOwn ==
    \A n \in DOMAIN trusted :
        /\ trusted[n].turns = {n}
        /\ Script[n] # "state" => trusted[n].kind = Script[n]

\* An answer without end does not fill the memory (MAX_RESPONSE_BYTES).
ResponseBounded == Len(response) <= MaxResponse

\* Between transactions and after the session nothing is kept of a notification
\* nobody asked for (_on_pin, _on_message, and the finally clauses).
NothingRetained ==
    /\ pc \in Ended => pinFuture = None /\ future = None
    /\ pc \notin {"sending", "waiting"} => response = <<>>
    /\ pc \notin {"challenging", "answering"} => pinFuture = None

\* Every session ends, also when the controller never answers.
SessionEnds == <>(pc \in Ended)

\* tests/test_protocol.py:184, "ignores immediately repeated response fragment": when
\* nothing happens to the link but notifications repeated within 100 ms, every answer
\* is received as it was sent.
RepeatsIgnored ==
    Faults = {"repeat"} /\ future \notin {None, Pending} => future.kind = Script[turn]
=============================================================================
