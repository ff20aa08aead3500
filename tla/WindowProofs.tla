---------------------------- MODULE WindowProofs ----------------------------
(***************************************************************************)
(* Proofs about the window and its background task, for any set of         *)
(* batteries, any limit of failures and channels of any length: first the  *)
(* task alone (Worker.tla), then the channel from the task to whatever     *)
(* drains it, then the window (Window.tla), to which all of it carries     *)
(* over because it drives the task only as Worker.tla allows.              *)
(***************************************************************************)
EXTENDS Window, TLAPS

(* The messages the task sends are updates.                                *)
LEMMA UpdateMessages ==
    /\ \A d \in Devices :
          Connecting(d) \in Update /\ Connected(d) \in Update /\ Status(d) \in Update
    /\ \A S \in SUBSET Devices : Found(S) \in Update
    /\ \A ok \in BOOLEAN : Pairing(ok) \in Update
    /\ Scanning \in Update /\ Notice \in Update /\ Disconnected \in Update
  BY DEF Update, Connecting, Connected, Status, Found, Pairing, Scanning,
         Notice, Disconnected

(* The states of a shown link are told apart by their phase.               *)
LEMMA ViewOfUpdate ==
    ASSUME NEW v \in View, NEW u \in Update
    PROVE  After(v, u) \in View
  BY DEF View, Update, After, Idle, Opening, Live

-----------------------------------------------------------------------------
(* Type correctness.                                                       *)

LEMMA TypeInit == Init => TypeOK
<1>1. Init => live \in BOOLEAN /\ needsPairing \in BOOLEAN /\ view \in View
  BY DEF Init, View
<1>2. QED
  BY <1>1 DEF Init, TypeOK

LEMMA TypeSend ==
    ASSUME TypeOK, NEW c \in Command, Send(c)
    PROVE  TypeOK'
  BY DEF Send, TypeOK, taskVars

LEMMA TypeDeliver ==
    ASSUME TypeOK, Deliver
    PROVE  TypeOK'
<1>1. Head(updates) \in Update /\ Tail(updates) \in Seq(Update)
  BY DEF Deliver, TypeOK
<1>2. After(view, Head(updates)) \in View
  BY <1>1, ViewOfUpdate DEF TypeOK
<1>3. QED
  BY <1>1, <1>2 DEF Deliver, TypeOK, taskVars

LEMMA TypeProblem ==
    ASSUME TypeOK, NEW sofar \in Nat, Problem(sofar), link # NoDevice,
           pc \in {"select", "poll"}
    PROVE  TypeOK'
<1>1. Append(updates, Notice) \in Seq(Update)
      /\ Append(Append(updates, Notice), Disconnected) \in Seq(Update)
  BY UpdateMessages DEF TypeOK
<1>2. CASE sofar + 1 >= FailuresBeforeDrop
  BY <1>1, <1>2, WorkerAssumption DEF Problem, TypeOK, GivenUp
<1>3. CASE ~(sofar + 1 >= FailuresBeforeDrop)
  BY <1>1, <1>3, WorkerAssumption DEF Problem, TypeOK, GivenUp
<1>4. QED
  BY <1>2, <1>3

LEMMA TypeRespond ==
    ASSUME TypeOK, Respond
    PROVE  TypeOK'
<1> USE WorkerAssumption, UpdateMessages DEF At
<1>1. CASE ScanDone
  <2>1. CASE \E S \in SUBSET Devices :
                found' = S /\ updates' = Append(updates, Found(S))
    BY <1>1, <2>1 DEF ScanDone, TypeOK
  <2>2. CASE found' = {} /\ updates' = Append(Append(updates, Notice), Found({}))
    BY <1>1, <2>2 DEF ScanDone, TypeOK
  <2>3. QED
    BY <1>1, <2>1, <2>2 DEF ScanDone
<1>2. CASE OpenDone
  <2>1. target \in Devices /\ updates' \in Seq(Update)
    BY <1>2 DEF OpenDone, TypeOK, Fresh
  <2>2. QED
    BY <1>2, <2>1 DEF OpenDone, TypeOK, Fresh
<1>3. CASE OpenFailed
  <2>1. updates' \in Seq(Update)
    BY <1>3 DEF OpenFailed, TypeOK, Fresh
  <2>2. QED
    BY <1>3, <2>1 DEF OpenFailed, TypeOK, Fresh
<1>4. CASE PairAnswered
  BY <1>4 DEF PairAnswered, PairDone, TypeOK
<1>5. CASE PairFailed
  BY <1>5 DEF PairFailed, PairDone, TypeOK
<1>6. CASE ControlDone
  BY <1>6 DEF ControlDone, TypeOK
<1>7. CASE PollAnswered
  <2>1. link \in Devices /\ updates' \in Seq(Update)
    BY <1>7 DEF PollAnswered, TypeOK
  <2>2. QED
    BY <1>7, <2>1 DEF PollAnswered, TypeOK
<1>8. CASE PollFailed
  BY <1>8, TypeProblem DEF PollFailed, TypeOK
<1>9. CASE PauseOver
  BY <1>9 DEF PauseOver, TypeOK
<1>10. QED
  BY <1>1, <1>2, <1>3, <1>4, <1>5, <1>6, <1>7, <1>8, <1>9 DEF Respond

LEMMA TypeListen ==
    ASSUME TypeOK, Listen
    PROVE  TypeOK'
<1> USE WorkerAssumption, UpdateMessages DEF At, Monitored
<1>1. CASE PollDue
  BY <1>1 DEF PollDue, TypeOK
<1>2. CASE StreamAnswered
  <2>1. link \in Devices /\ updates' \in Seq(Update) /\ live' \in BOOLEAN
    BY <1>2 DEF StreamAnswered, TypeOK
  <2>2. QED
    BY <1>2, <2>1 DEF StreamAnswered, TypeOK
<1>3. CASE StreamQuiet
  BY <1>3 DEF StreamQuiet, TypeOK, GivenUp
<1>4. CASE StreamFailed
  <2>1. pc = "select" /\ link # NoDevice /\ failures \in Nat
    BY <1>4 DEF StreamFailed, TypeOK, GivenUp
  <2>2. Problem(failures) \/ Problem(failures + 1)
    BY <1>4 DEF StreamFailed, GivenUp
  <2>3. QED
    BY <2>1, <2>2, TypeProblem
<1>5. QED
  BY <1>1, <1>2, <1>3, <1>4 DEF Listen

LEMMA TypeObey ==
    ASSUME TypeOK, Obey
    PROVE  TypeOK'
<1> USE DEF At, Receive
<1>1. Tail(commands) \in Seq(Command) /\ Head(commands) \in Command
  BY DEF Obey, ReceiveScan, ReceiveConnect, ReceiveDisconnect, ReceiveControl,
         ReceivePair, ReceiveForget, ReceiveQuit, TypeOK, Fresh
<1>2. CASE ReceiveScan
  <2>1. CASE link = NoDevice /\ updates' = Append(updates, Scanning) /\ pc' = "scan"
    BY <1>1, <1>2, <2>1, UpdateMessages DEF ReceiveScan, TypeOK
  <2>2. CASE link # NoDevice /\ UNCHANGED <<updates, pc>>
    BY <1>1, <1>2, <2>2 DEF ReceiveScan, TypeOK
  <2>3. QED
    BY <1>2, <2>1, <2>2 DEF ReceiveScan
<1>3. CASE ReceiveConnect
  <2>1. Head(commands).dev \in Devices
    BY <1>1, <1>3 DEF ReceiveConnect, Command, Fresh
  <2>2. live' \in BOOLEAN /\ needsPairing' \in BOOLEAN
    BY <1>3 DEF ReceiveConnect, TypeOK, Fresh
  <2>3. /\ commands' = Tail(commands) /\ link' = NoDevice
        /\ found' = found /\ view' = view /\ pc = "select"
    BY <1>3 DEF ReceiveConnect, Fresh
  <2>4. \/ /\ updates' = Append(updates, Connecting(Head(commands).dev))
           /\ pc' = "connect" /\ target' = Head(commands).dev
           /\ failures' = failures
        \/ /\ updates' = Append(Append(updates, Notice), Disconnected)
           /\ failures' = 0 /\ pc' = pc /\ target' = target
    BY <1>3 DEF ReceiveConnect, Fresh
  <2>5. updates' \in Seq(Update)
    <3>1. CASE updates' = Append(updates, Connecting(Head(commands).dev))
      BY <2>1, <3>1, UpdateMessages DEF TypeOK
    <3>2. CASE updates' = Append(Append(updates, Notice), Disconnected)
      BY <3>2, UpdateMessages DEF TypeOK
    <3>3. QED
      BY <2>4, <3>1, <3>2
  <2>6. QED
    BY <1>1, <2>1, <2>2, <2>3, <2>4, <2>5, WorkerAssumption DEF TypeOK
<1>4. CASE ReceiveDisconnect
  BY <1>1, <1>4, UpdateMessages, WorkerAssumption DEF ReceiveDisconnect, TypeOK
<1>5. CASE ReceiveControl
  BY <1>1, <1>5 DEF ReceiveControl, TypeOK
<1>6. CASE ReceivePair
  BY <1>1, <1>6 DEF ReceivePair, TypeOK
<1>7. CASE ReceiveForget
  <2>1. updates' = updates \/ updates' = Append(updates, Notice)
    BY <1>7 DEF ReceiveForget
  <2>2. needsPairing' \in BOOLEAN
    <3>1. \/ needsPairing' = needsPairing
          \/ needsPairing' = (link \in AuthDevices)
      BY <1>7 DEF ReceiveForget
    <3>2. (link \in AuthDevices) \in BOOLEAN
      OBVIOUS
    <3>3. QED
      BY <3>1, <3>2 DEF TypeOK
  <2>3. updates' \in Seq(Update)
    BY <2>1, UpdateMessages DEF TypeOK
  <2>4. /\ commands' = Tail(commands)
        /\ UNCHANGED <<pc, link, target, found, live, failures, view>>
    BY <1>7 DEF ReceiveForget
  <2>5. QED
    BY <1>1, <2>2, <2>3, <2>4 DEF TypeOK
<1>8. CASE ReceiveQuit
  BY <1>1, <1>8 DEF ReceiveQuit, TypeOK
<1>9. QED
  BY <1>2, <1>3, <1>4, <1>5, <1>6, <1>7, <1>8 DEF Obey

LEMMA TypeStep == TypeOK /\ [Next]_vars => TypeOK'
<1>1. SUFFICES ASSUME TypeOK, [Next]_vars
               PROVE  TypeOK'
  OBVIOUS
<1>2. CASE \E c \in Command : Send(c)
  BY <1>1, <1>2, TypeSend
<1>3. CASE Deliver
  BY <1>1, <1>3, TypeDeliver
<1>4. CASE Respond \/ Listen \/ Obey
  BY <1>1, <1>4, TypeRespond, TypeListen, TypeObey
<1>5. CASE UNCHANGED vars
  BY <1>1, <1>5 DEF vars, taskVars, TypeOK
<1>6. QED
  BY <1>1, <1>2, <1>3, <1>4, <1>5 DEF Next

(* Every state of the task is well formed, and it has a battery open at    *)
(* exactly the awaits that use one.                                        *)
THEOREM TypeCorrect == Spec => []TypeOK
  BY TypeInit, TypeStep, PTL DEF Spec
-----------------------------------------------------------------------------
(* The limit of failures.                                                  *)

LEMMA ProblemKeepsLimit ==
    ASSUME TypeOK, NEW sofar \in Nat, Problem(sofar)
    PROVE  SilentLinkDropped'
  BY WorkerAssumption DEF Problem, SilentLinkDropped, TypeOK, GivenUp

(* No battery stays linked after FailuresBeforeDrop failed reads in a row. *)
THEOREM SilentLinkIsDropped == Spec => []SilentLinkDropped
<1> USE WorkerAssumption DEF SilentLinkDropped
<1>1. Init => SilentLinkDropped
  BY DEF Init
<1>2. ASSUME TypeOK, SilentLinkDropped, [Next]_vars
      PROVE  SilentLinkDropped'
  <2>1. CASE (\E c \in Command : Send(c)) \/ Deliver \/ UNCHANGED vars
    BY <1>2, <2>1 DEF Send, Deliver, vars, taskVars
  <2>2. CASE Obey
    BY <1>2, <2>2 DEF Obey, ReceiveScan, ReceiveConnect, ReceiveDisconnect,
       ReceiveControl, ReceivePair, ReceiveForget, ReceiveQuit, Fresh
  <2>3. CASE PollFailed \/ StreamFailed
    <3>1. \E sofar \in Nat : Problem(sofar)
      BY <1>2, <2>3 DEF PollFailed, StreamFailed, TypeOK, GivenUp
    <3>2. QED
      BY <1>2, <3>1, ProblemKeepsLimit
  <2>4. CASE PollDue \/ StreamAnswered \/ StreamQuiet
    <3>1. \/ link' = link /\ failures' = failures
          \/ failures' = 0
          \/ ~GivenUp(failures + 1) /\ failures' = failures + 1
      BY <2>4 DEF PollDue, StreamAnswered, StreamQuiet
    <3>2. ~GivenUp(failures + 1) => failures + 1 < FailuresBeforeDrop
      BY <1>2, WorkerAssumption DEF GivenUp, TypeOK
    <3>3. QED
      BY <1>2, <3>1, <3>2
  <2>5. CASE \/ ScanDone \/ OpenDone \/ OpenFailed \/ PairAnswered
             \/ PairFailed \/ ControlDone \/ PollAnswered \/ PauseOver
    BY <1>2, <2>5 DEF ScanDone, OpenDone, OpenFailed, PairAnswered,
       PairFailed, PairDone, ControlDone, PollAnswered, PauseOver, Fresh, TypeOK
  <2>6. QED
    BY <1>2, <2>1, <2>2, <2>3, <2>4, <2>5 DEF Next, Respond, Listen
<1>3. QED
  BY <1>1, <1>2, TypeCorrect, PTL DEF Spec

-----------------------------------------------------------------------------
(* Pairing.                                                                *)

(* Reads are suspended only for a battery that asks for pairing.           *)
THEOREM SilencedForPairing == Spec => []SilencedOnlyForPairing
<1> USE DEF SilencedOnlyForPairing
<1>1. Init => SilencedOnlyForPairing
  BY DEF Init
<1>2. ASSUME TypeOK, SilencedOnlyForPairing, [Next]_vars
      PROVE  SilencedOnlyForPairing'
  <2>1. CASE (\E c \in Command : Send(c)) \/ Deliver \/ UNCHANGED vars
    BY <1>2, <2>1 DEF Send, Deliver, vars, taskVars
  <2>2. CASE Obey
    <3>1. CASE ReceiveForget
      <4>1. link' = link
        BY <3>1 DEF ReceiveForget
      <4>2. CASE link = NoDevice
        BY <1>2, <4>1, <4>2
      <4>3. CASE link # NoDevice
        <5>1. link \in AuthDevices \/ needsPairing' = (link \in AuthDevices)
          BY <3>1, <4>3 DEF ReceiveForget
        <5>2. needsPairing' => link \in AuthDevices
          BY <5>1
        <5>3. QED
          BY <4>1, <5>2
      <4>4. QED
        BY <4>2, <4>3
    <3>2. CASE ReceiveConnect \/ ReceiveDisconnect \/ ReceiveQuit
      BY <3>2 DEF ReceiveConnect, ReceiveDisconnect, ReceiveQuit, Fresh
    <3>3. CASE ReceiveScan \/ ReceiveControl \/ ReceivePair
      BY <1>2, <3>3 DEF ReceiveScan, ReceiveControl, ReceivePair
    <3>4. QED
      BY <2>2, <3>1, <3>2, <3>3 DEF Obey
  <2>3. CASE PollFailed \/ StreamFailed
    <3>1. \E sofar \in Nat : Problem(sofar)
      BY <1>2, <2>3 DEF PollFailed, StreamFailed, TypeOK, GivenUp
    <3>2. needsPairing' = needsPairing /\ link' \in {link, NoDevice}
      BY <3>1 DEF Problem, GivenUp
    <3>3. QED
      BY <1>2, <3>2
  <2>4. CASE PollDue \/ StreamAnswered \/ StreamQuiet
    BY <1>2, <2>4 DEF PollDue, StreamAnswered, StreamQuiet, GivenUp
  <2>5. CASE PairAnswered \/ PairFailed
    BY <1>2, <2>5 DEF PairAnswered, PairFailed, PairDone
  <2>6. CASE \/ ScanDone \/ OpenDone \/ OpenFailed
             \/ ControlDone \/ PollAnswered \/ PauseOver
    BY <1>2, <2>6 DEF ScanDone, OpenDone, OpenFailed, ControlDone,
       PollAnswered, PauseOver, Fresh
  <2>7. QED
    BY <1>2, <2>1, <2>2, <2>3, <2>4, <2>5, <2>6 DEF Next, Respond, Listen
<1>3. QED
  BY <1>1, <1>2, TypeCorrect, PTL DEF Spec
-----------------------------------------------------------------------------
(* What an answer is.                                                      *)

(* Only an answer of the battery, or a new connection, forgives failures.  *)
THEOREM AnswersForgive == Spec => OnlyAnswersForgive
<1>1. ASSUME TypeOK, [Next]_vars, failures' < failures
      PROVE  \/ pc = "connect"
             \/ link' = NoDevice
             \/ updates' = Append(updates, Status(link))
  <2>1. CASE (\E c \in Command : Send(c)) \/ Deliver \/ UNCHANGED vars
    <3>1. failures' = failures
      BY <2>1 DEF Send, Deliver, vars, taskVars
    <3>2. QED
      BY <1>1, <3>1 DEF TypeOK
  <2>2. CASE Obey
    <3>1. failures' = failures \/ link' = NoDevice
      BY <2>2 DEF Obey, ReceiveScan, ReceiveConnect, ReceiveDisconnect,
         ReceiveControl, ReceivePair, ReceiveForget, ReceiveQuit, Fresh
    <3>2. QED
      BY <1>1, <3>1 DEF TypeOK
  <2>3. CASE PollAnswered \/ StreamAnswered
    BY <2>3 DEF PollAnswered, StreamAnswered
  <2>4. CASE PollFailed \/ StreamFailed \/ StreamQuiet
    <3>1. failures' = failures + 1 \/ failures' = (failures + 1) + 1
      BY <2>4 DEF PollFailed, StreamFailed, StreamQuiet, Problem, GivenUp
    <3>2. QED
      BY <1>1, <3>1 DEF TypeOK
  <2>5. CASE OpenDone \/ OpenFailed
    BY <2>5 DEF OpenDone, OpenFailed, At, Fresh
  <2>6. CASE \/ ScanDone \/ PairAnswered \/ PairFailed \/ ControlDone
             \/ PauseOver \/ PollDue
    <3>1. failures' = failures
      BY <2>6 DEF ScanDone, PairAnswered, PairFailed, PairDone, ControlDone,
         PauseOver, PollDue
    <3>2. QED
      BY <1>1, <3>1 DEF TypeOK
  <2>7. QED
    BY <1>1, <2>1, <2>2, <2>3, <2>4, <2>5, <2>6 DEF Next, Respond, Listen
<1>2. QED
  BY <1>1, TypeCorrect, PTL DEF Spec, OnlyAnswersForgive

-----------------------------------------------------------------------------
(* Refinement of Session.                                                  *)

LEMMA HeldParts ==
    /\ pc = "connect" => Held.phase = "connecting" /\ Held.dev = target
    /\ pc # "connect" /\ link = NoDevice
         => Held.phase = "idle" /\ Held.dev = NoDevice
    /\ pc # "connect" /\ link # NoDevice
         => Held.phase = "live" /\ Held.dev = link
  BY DEF Held, Opening, Live, Idle

(* A request to leave waits in the channel.                                *)
Asked == \E i \in 1 .. Len(commands) : Leaves(commands[i])

(* A new command adds a request or nothing; the one taken up was a request *)
(* or changes nothing.                                                     *)
LEMMA AskedSend ==
    ASSUME TypeOK, NEW c \in Command, Send(c)
    PROVE  Asked' \/ (Asked' <=> Asked)
<1>1. /\ commands' = Append(commands, c) /\ Len(commands) \in Nat
      /\ Len(commands') = Len(commands) + 1
      /\ \A i \in 1 .. Len(commands) : commands'[i] = commands[i]
  BY DEF Send, TypeOK
<1>2. Asked => Asked'
  BY <1>1 DEF Asked, Leaves
<1>3. QED
  BY <1>2

LEMMA AskedTaken ==
    ASSUME TypeOK, commands # <<>>, commands' = Tail(commands)
    PROVE  IF Leaves(Head(commands)) THEN Asked ELSE Asked' <=> Asked
<1>1. /\ Head(commands) = commands[1] /\ Len(commands) \in Nat
      /\ Len(commands) >= 1 /\ Len(commands') = Len(commands) - 1
      /\ \A i \in 1 .. Len(commands) - 1 : commands'[i] = commands[i + 1]
  BY DEF TypeOK
<1>2. Leaves(Head(commands)) => Asked
  BY <1>1 DEF Asked
<1>3. Asked' => Asked
  BY <1>1 DEF Asked, Leaves
<1>4. ASSUME Asked, ~Leaves(Head(commands))
      PROVE  Asked'
  <2>1. PICK i \in 1 .. Len(commands) : Leaves(commands[i])
    BY <1>4 DEF Asked
  <2>2. i - 1 \in 1 .. Len(commands') /\ commands'[i - 1] = commands[i]
    BY <1>1, <1>4, <2>1
  <2>3. QED
    BY <2>1, <2>2 DEF Asked, Leaves
<1>5. QED
  BY <1>2, <1>3, <1>4

LEMMA PromiseProblem ==
    ASSUME TypeOK, NEW sofar \in Nat, Problem(sofar),
           pc \in {"select", "poll"}, link # NoDevice,
           \/ sofar = failures
           \/ sofar = failures + 1 /\ sofar >= FailuresBeforeDrop
    PROVE  Promise!Next
<1>0. Asked' = Asked
  BY DEF Problem, Asked, Leaves
<1>1. Held.phase = "live" /\ Held.dev = link /\ failures \in Nat
  BY HeldParts DEF TypeOK
<1>2. CASE sofar + 1 >= FailuresBeforeDrop
  <2>1. Held'.phase = "idle" /\ Held'.dev = NoDevice /\ failures' = sofar + 1
    BY <1>2 DEF Problem, Held, Idle, GivenUp
  <2>2. Promise!Lose
    BY <1>0, <1>1, <1>2, <2>1, WorkerAssumption DEF Promise!Lose, Promise!GoIdle, Asked
  <2>3. QED
    BY <2>2 DEF Promise!Next
<1>3. CASE ~(sofar + 1 >= FailuresBeforeDrop)
  <2>1. Held'.phase = "live" /\ Held'.dev = link /\ failures' = sofar + 1
    BY <1>3 DEF Problem, Held, Live, GivenUp
  <2>2. Promise!Miss
    BY <1>0, <1>1, <1>3, <2>1, WorkerAssumption DEF Promise!Miss, Asked
  <2>3. QED
    BY <2>2 DEF Promise!Next
<1>4. QED
  BY <1>2, <1>3

(* The task keeps the promise of Session: one battery at a time, announced *)
(* before it is live, and given up by silence at the limit and only there. *)
THEOREM KeepsPromise == Spec => SessionPromise
<1> DEFINE Same == Held' = Held /\ failures' = failures
<1>1. Init => Promise!Init
  <2>1. Init => Held = Idle /\ failures = 0 /\ ~Asked
    BY DEF Init, Held, Asked
  <2>2. QED
    BY <2>1 DEF Promise!Init, Idle, Asked
<1>2. ASSUME TypeOK, [Next]_vars
      PROVE  Promise!Next \/ UNCHANGED Promise!vars
  <2>0. Same /\ (Asked' <=> Asked) => UNCHANGED Promise!vars
    BY DEF Promise!vars, Asked
  <2>1. commands' = commands => (Asked' <=> Asked)
    BY DEF Asked, Leaves
  <2>2. CASE \E c \in Command : Send(c)
    <3>1. Same
      BY <2>2 DEF Send, taskVars, Held
    <3>2. Asked' => Promise!Ask
      BY <3>1 DEF Promise!Ask, Asked
    <3>3. QED
      BY <1>2, <2>2, <2>0, <3>1, <3>2, AskedSend DEF Promise!Next
  <2>3. CASE Deliver \/ UNCHANGED vars
    <3>1. Same /\ commands' = commands
      BY <2>3 DEF Deliver, vars, taskVars, Held
    <3>2. QED
      BY <2>0, <2>1, <3>1
  <2>4. CASE \/ ScanDone \/ PairAnswered \/ PairFailed \/ ControlDone
             \/ PauseOver \/ PollDue
    <3>1. Same /\ commands' = commands
      BY <2>4 DEF ScanDone, PairAnswered, PairFailed, PairDone, ControlDone,
         PauseOver, PollDue, Monitored, At, Held
    <3>2. QED
      BY <2>0, <2>1, <3>1
  <2>5. CASE ReceiveScan \/ ReceiveControl \/ ReceivePair \/ ReceiveForget
    <3>1. Same
      BY <2>5 DEF ReceiveScan, ReceiveControl, ReceivePair, ReceiveForget,
         Receive, At, Held
    <3>2. commands # <<>> /\ commands' = Tail(commands) /\ ~Leaves(Head(commands))
      BY <2>5 DEF ReceiveScan, ReceiveControl, ReceivePair, ReceiveForget,
         Receive, Leaves
    <3>3. QED
      BY <1>2, <2>0, <3>1, <3>2, AskedTaken
  <2>6. CASE ReceiveDisconnect \/ ReceiveQuit
    <3>1. /\ pc = "select" /\ Held' = Idle /\ failures' = failures
          /\ commands # <<>> /\ commands' = Tail(commands)
          /\ Leaves(Head(commands))
      BY <1>2, <2>6 DEF ReceiveDisconnect, ReceiveQuit, Receive, At,
         TypeOK, Held, Fresh, Leaves
    <3>2. Asked /\ Held.phase # "connecting"
      BY <1>2, <3>1, AskedTaken, HeldParts
    <3>3. Promise!TakeUp
      BY <3>2 DEF Promise!TakeUp, Asked
    <3>4. Promise!Close
      BY <3>1, <3>3 DEF Promise!Close, Promise!GoIdle, Idle
    <3>5. QED
      BY <3>4 DEF Promise!Next
  <2>7. CASE OpenFailed
    <3>1. pc = "connect" /\ Held' = Idle /\ failures' = 0 /\ commands' = commands
      BY <1>2, <2>7 DEF OpenFailed, At, TypeOK, Held, Fresh
    <3>2. Held.phase = "connecting" /\ (Asked' <=> Asked)
      BY <2>1, <3>1, HeldParts
    <3>3. Promise!Refuse
      BY <3>1, <3>2 DEF Promise!Refuse, Promise!GoIdle, Idle, Asked
    <3>4. QED
      BY <3>3 DEF Promise!Next
  <2>8. CASE ReceiveConnect
    <3>1. Head(commands).dev \in Devices
      BY <1>2, <2>8 DEF ReceiveConnect, Receive, TypeOK, Command, Fresh
    <3>2. /\ pc = "select" /\ commands # <<>> /\ commands' = Tail(commands)
          /\ Leaves(Head(commands))
      BY <2>8 DEF ReceiveConnect, Receive, At, Leaves, Fresh
    <3>3. Promise!TakeUp
      <4>1. Asked /\ Held.phase # "connecting"
        BY <1>2, <3>2, AskedTaken, HeldParts
      <4>2. QED
        BY <4>1 DEF Promise!TakeUp, Asked
    <3>4. CASE Head(commands).dev \in found
      <4>1. Held' = Opening(Head(commands).dev) /\ failures' = failures
        BY <2>8, <3>4 DEF ReceiveConnect, Held, Fresh
      <4>2. Promise!Begin(Head(commands).dev)
        BY <3>3, <4>1 DEF Promise!Begin, Opening
      <4>3. QED
        BY <3>1, <4>2 DEF Promise!Next
    <3>5. CASE Head(commands).dev \notin found
      <4>1. Held' = Idle /\ failures' = 0
        BY <2>8, <3>5 DEF ReceiveConnect, Receive, At, Held, Fresh
      <4>2. Promise!Close
        BY <3>3, <4>1 DEF Promise!Close, Promise!GoIdle, Idle
      <4>3. QED
        BY <4>2 DEF Promise!Next
    <3>6. QED
      BY <3>4, <3>5
  <2>9. CASE OpenDone
    <3>1. pc = "connect" /\ target # NoDevice /\ pc' # "connect"
          /\ link' = target /\ failures' = 0 /\ commands' = commands
      BY <1>2, <2>9 DEF OpenDone, At, TypeOK, Fresh
    <3>2. Held = Opening(target) /\ Held' = Live(target)
      BY <3>1 DEF Held
    <3>3. Promise!Open
      BY <2>1, <3>1, <3>2 DEF Promise!Open, Opening, Live, Asked
    <3>4. QED
      BY <3>3 DEF Promise!Next
  <2>10. CASE PollAnswered \/ StreamAnswered
    <3>1. Held = Live(link) /\ Held' = Held /\ failures' = 0
          /\ commands' = commands
      BY <1>2, <2>10, WorkerAssumption
         DEF PollAnswered, StreamAnswered, Monitored, At, TypeOK, Held
    <3>2. Promise!Answer
      BY <2>1, <3>1 DEF Promise!Answer, Live, Asked
    <3>3. QED
      BY <3>2 DEF Promise!Next
  <2>11. CASE StreamQuiet
    <3>1. Held = Live(link) /\ Held' = Held /\ failures' = failures + 1
          /\ failures + 1 < FailuresBeforeDrop /\ commands' = commands
      BY <1>2, <2>11, WorkerAssumption
         DEF StreamQuiet, Monitored, At, TypeOK, Held, GivenUp
    <3>2. Promise!Miss
      BY <2>1, <3>1 DEF Promise!Miss, Live, Asked
    <3>3. QED
      BY <3>2 DEF Promise!Next
  <2>12. CASE PollFailed \/ StreamFailed
    <3>1. pc \in {"select", "poll"} /\ link # NoDevice /\ failures \in Nat
      BY <1>2, <2>12, WorkerAssumption
         DEF PollFailed, StreamFailed, Monitored, At, TypeOK, GivenUp
    <3>2. \/ Problem(failures)
          \/ Problem(failures + 1) /\ failures + 1 >= FailuresBeforeDrop
      BY <2>12 DEF PollFailed, StreamFailed, GivenUp
    <3>3. QED
      BY <1>2, <3>1, <3>2, PromiseProblem
  <2>13. QED
    BY <1>2, <2>2, <2>3, <2>4, <2>5, <2>6, <2>7, <2>8, <2>9, <2>10, <2>11, <2>12
       DEF Next, Respond, Listen, Obey
<1>3. QED
  BY <1>1, <1>2, TypeCorrect, PTL DEF Spec, SessionPromise, Promise!Spec

-----------------------------------------------------------------------------
(* The channel from the task to the window: what a consumer that drains it *)
(* believes about the link.                                                *)

(* An update appended behind position i does not change what is believed   *)
(* there.                                                                  *)
LEMMA BelievesBefore ==
    ASSUME NEW q \in Seq(Update), NEW u \in Update, NEW v, NEW w,
           NEW i \in 1 .. Len(q) + 1, Believes(q, v, i, w)
    PROVE  Believes(Append(q, u), v, i, w)
<1>1. \A j \in 1 .. i - 1 : Append(q, u)[j] = q[j]
  OBVIOUS
<1>2. QED
  BY <1>1 DEF Believes

(* An update that does not move the link leaves the belief as it was.      *)
LEMMA BelievesQuiet ==
    ASSUME NEW q \in Seq(Update), NEW u \in Update, NEW v, NEW w,
           ~Moves(u), Believes(q, v, Len(q) + 1, w)
    PROVE  Believes(Append(q, u), v, Len(Append(q, u)) + 1, w)
<1>1. /\ Len(Append(q, u)) = Len(q) + 1
      /\ Append(q, u)[Len(q) + 1] = u
      /\ \A j \in 1 .. Len(q) : Append(q, u)[j] = q[j]
  OBVIOUS
<1>2. CASE (\A j \in 1 .. Len(q) : ~Moves(q[j])) /\ v = w
  <2>1. \A j \in 1 .. Len(q) + 1 : ~Moves(Append(q, u)[j])
    BY <1>1, <1>2
  <2>2. QED
    BY <1>1, <1>2, <2>1 DEF Believes
<1>3. ASSUME NEW k \in 1 .. Len(q), Moves(q[k]), After(v, q[k]) = w,
             \A j \in k + 1 .. Len(q) : ~Moves(q[j])
      PROVE  Believes(Append(q, u), v, Len(Append(q, u)) + 1, w)
  <2>1. \A j \in k + 1 .. Len(q) + 1 : ~Moves(Append(q, u)[j])
    BY <1>1, <1>3
  <2>2. Append(q, u)[k] = q[k] /\ k \in 1 .. Len(q) + 1
    BY <1>1
  <2>3. QED
    BY <1>1, <1>3, <2>1, <2>2 DEF Believes
<1>4. QED
  BY <1>2, <1>3 DEF Believes

(* Any state follows a last update that moves the link to it.              *)
LEMMA BelievesMove ==
    ASSUME NEW q \in Seq(Update), NEW u \in Update, NEW v, Moves(u)
    PROVE  Believes(Append(q, u), v, Len(Append(q, u)) + 1, After(v, u))
<1>1. Len(Append(q, u)) = Len(q) + 1 /\ Append(q, u)[Len(q) + 1] = u
  OBVIOUS
<1>2. QED
  BY <1>1 DEF Believes

(* Draining the first update moves the belief with it.                     *)
LEMMA BelievesDrained ==
    ASSUME NEW q \in Seq(Update), q # <<>>, NEW v, NEW w,
           NEW i \in 2 .. Len(q) + 1, Believes(q, v, i, w)
    PROVE  Believes(Tail(q), After(v, Head(q)), i - 1, w)
<1>1. /\ Head(q) = q[1]
      /\ \A j \in 1 .. Len(q) - 1 : Tail(q)[j] = q[j + 1]
      /\ Len(Tail(q)) = Len(q) - 1
  OBVIOUS
<1>2. CASE (\A j \in 1 .. i - 1 : ~Moves(q[j])) /\ v = w
  <2>1. After(v, Head(q)) = w
    BY <1>1, <1>2 DEF Moves, After
  <2>2. \A j \in 1 .. i - 2 : ~Moves(Tail(q)[j])
    BY <1>1, <1>2
  <2>3. QED
    BY <2>1, <2>2 DEF Believes
<1>3. ASSUME NEW k \in 1 .. i - 1, Moves(q[k]), After(v, q[k]) = w,
             \A j \in k + 1 .. i - 1 : ~Moves(q[j])
      PROVE  Believes(Tail(q), After(v, Head(q)), i - 1, w)
  <2>1. \A j \in k .. i - 2 : ~Moves(Tail(q)[j])
    BY <1>1, <1>3
  <2>2. CASE k = 1
    BY <1>1, <1>3, <2>1, <2>2 DEF Believes
  <2>3. CASE k # 1
    <3>1. k - 1 \in 1 .. i - 2 /\ Tail(q)[k - 1] = q[k]
      BY <1>1, <2>3
    <3>2. After(After(v, Head(q)), q[k]) = w
      BY <1>3 DEF Moves, After
    <3>3. \A j \in (k - 1) + 1 .. i - 2 : ~Moves(Tail(q)[j])
      BY <2>1
    <3>4. (i - 1) - 1 = i - 2 /\ Moves(Tail(q)[k - 1])
          /\ After(After(v, Head(q)), Tail(q)[k - 1]) = w
      BY <1>3, <3>1, <3>2
    <3>5. \E m \in 1 .. (i - 1) - 1 :
             /\ Moves(Tail(q)[m])
             /\ \A j \in m + 1 .. (i - 1) - 1 : ~Moves(Tail(q)[j])
             /\ After(After(v, Head(q)), Tail(q)[m]) = w
      BY <3>1, <3>3, <3>4
    <3>6. QED
      BY <3>5 DEF Believes
  <2>4. QED
    BY <2>2, <2>3
<1>4. QED
  BY <1>2, <1>3 DEF Believes
-----------------------------------------------------------------------------
(* What a consumer may rely on when it takes u while it believes w: a      *)
(* reading is of the battery on show, an answer to a pairing finds one     *)
(* connected, and a connection is announced before it is there.            *)
Meets(u, w) ==
    /\ u.kind = "connected" => w = Opening(u.dev)
    /\ u.kind = "status" => w = Live(u.dev)
    /\ u.kind = "pairing" => \E d \in Devices : w = Live(d)

(* A channel q with a consumer that believes v, and a task that holds w.   *)
Faithful(q, v, w) ==
    /\ Believes(q, v, Len(q) + 1, w)
    /\ \A i \in 1 .. Len(q) :
         \E b \in View : Believes(q, v, i, b) /\ Meets(q[i], b)

(* The task appends u and now holds now: u moves the link as the task did, *)
(* or neither moves, and u is of the link held.                            *)
LEMMA FaithfulAppend ==
    ASSUME NEW q \in Seq(Update), NEW u \in Update, NEW v, NEW w \in View, NEW now,
           Faithful(q, v, w),
           IF Moves(u) THEN After(v, u) = now ELSE now = w,
           Meets(u, w)
    PROVE  Faithful(Append(q, u), v, now)
<1>1. Believes(Append(q, u), v, Len(Append(q, u)) + 1, now)
  BY BelievesMove, BelievesQuiet DEF Faithful
<1>2. ASSUME NEW i \in 1 .. Len(Append(q, u))
      PROVE  \E b \in View : /\ Believes(Append(q, u), v, i, b)
                             /\ Meets(Append(q, u)[i], b)
  <2>1. CASE i \in 1 .. Len(q)
    <3>1. Append(q, u)[i] = q[i] /\ i \in 1 .. Len(q) + 1
      BY <2>1
    <3>2. PICK b \in View : Believes(q, v, i, b) /\ Meets(q[i], b)
      BY <2>1 DEF Faithful
    <3>3. Believes(Append(q, u), v, i, b)
      BY <3>1, <3>2, BelievesBefore
    <3>4. QED
      BY <3>1, <3>2, <3>3
  <2>2. CASE i = Len(q) + 1
    <3>1. Append(q, u)[i] = u /\ i \in 1 .. Len(q) + 1
      BY <2>2
    <3>2. Believes(Append(q, u), v, i, w)
      BY <2>2, <3>1, BelievesBefore DEF Faithful
    <3>3. QED
      BY <3>1, <3>2
  <2>3. QED
    BY <2>1, <2>2
<1>3. QED
  BY <1>1, <1>2 DEF Faithful

(* The window drains one update.                                           *)
LEMMA FaithfulTail ==
    ASSUME NEW q \in Seq(Update), q # <<>>, NEW v, NEW w, Faithful(q, v, w)
    PROVE  Faithful(Tail(q), After(v, Head(q)), w)
<1>1. /\ Len(Tail(q)) = Len(q) - 1 /\ Len(q) >= 1
      /\ \A j \in 1 .. Len(q) - 1 : Tail(q)[j] = q[j + 1]
  OBVIOUS
<1>2. Believes(Tail(q), After(v, Head(q)), Len(Tail(q)) + 1, w)
  <2>1. Len(q) + 1 \in 2 .. Len(q) + 1 /\ (Len(q) + 1) - 1 = Len(Tail(q)) + 1
    BY <1>1
  <2>2. QED
    BY <2>1, BelievesDrained DEF Faithful
<1>3. ASSUME NEW i \in 1 .. Len(Tail(q))
      PROVE  \E b \in View : /\ Believes(Tail(q), After(v, Head(q)), i, b)
                             /\ Meets(Tail(q)[i], b)
  <2>1. /\ Tail(q)[i] = q[i + 1] /\ i + 1 \in 2 .. Len(q) + 1
        /\ i + 1 \in 1 .. Len(q) /\ (i + 1) - 1 = i
    BY <1>1
  <2>2. PICK b \in View : Believes(q, v, i + 1, b) /\ Meets(q[i + 1], b)
    BY <2>1 DEF Faithful
  <2>3. Believes(Tail(q), After(v, Head(q)), i, b)
    BY <2>1, <2>2, BelievesDrained
  <2>4. QED
    BY <2>1, <2>2, <2>3
<1>4. QED
  BY <1>2, <1>3 DEF Faithful

(* The channel invariant.  ReadingsMatchView alone is not inductive: that  *)
(* a new reading matches needs the belief at the end of the channel to be  *)
(* the link the task holds, which is ViewSettles.  A task that has ended   *)
(* says nothing more, so any belief may be left behind it.                 *)
ChannelInv ==
    /\ \E w \in View : Faithful(updates, view, w)
    /\ pc # "done" => Faithful(updates, view, Held)

LEMMA ChannelInvMeaning == ChannelInv => ViewSettles /\ ReadingsMatchView
<1>1. ASSUME ChannelInv, NEW i \in 1 .. Len(updates), updates[i].kind = "status"
      PROVE  Believes(updates, view, i, Live(updates[i].dev))
  BY <1>1 DEF ChannelInv, Faithful, Meets
<1>2. QED
  BY <1>1 DEF ChannelInv, ViewSettles, ReadingsMatchView, Faithful

LEMMA HeldInView == TypeOK => Held \in View
  BY DEF TypeOK, Held, View
-----------------------------------------------------------------------------
(* What each message does to a belief, and what it needs of one.           *)
LEMMA MessageMoves ==
    /\ \A d, v : Moves(Connecting(d)) /\ After(v, Connecting(d)) = Opening(d)
    /\ \A d, v : Moves(Connected(d)) /\ After(v, Connected(d)) = Live(d)
    /\ \A v : Moves(Disconnected) /\ After(v, Disconnected) = Idle
    /\ \A d : ~Moves(Status(d)) /\ Meets(Status(d), Live(d))
    /\ \A ok : ~Moves(Pairing(ok))
    /\ \A ok : \A d \in Devices : Meets(Pairing(ok), Live(d))
    /\ \A S, w : ~Moves(Found(S)) /\ Meets(Found(S), w)
    /\ \A w : ~Moves(Scanning) /\ Meets(Scanning, w)
    /\ \A w : ~Moves(Notice) /\ Meets(Notice, w)
    /\ \A d, w : Meets(Connecting(d), w)
    /\ \A d : Meets(Connected(d), Opening(d))
    /\ \A w : Meets(Disconnected, w)
  BY DEF Moves, Meets, After, Connecting, Connected, Disconnected, Status, Found,
         Pairing, Scanning, Notice

(* A notice, then the news that the link is gone.                          *)
LEMMA FaithfulLoss ==
    ASSUME NEW q \in Seq(Update), NEW v, NEW w \in View, Faithful(q, v, w)
    PROVE  Faithful(Append(Append(q, Notice), Disconnected), v, Idle)
<1>1. Append(q, Notice) \in Seq(Update)
  BY UpdateMessages
<1>2. Faithful(Append(q, Notice), v, w)
  BY UpdateMessages, MessageMoves, FaithfulAppend
<1>3. QED
  BY <1>1, <1>2, UpdateMessages, MessageMoves, FaithfulAppend

-----------------------------------------------------------------------------
(* The steps of the task, by what they say.                                *)

(* Nothing is said and the link stays as it was.                           *)
LEMMA SilentStep ==
    ASSUME TypeOK, ChannelInv, pc # "done",
           updates' = updates, view' = view, Held' = Held
    PROVE  ChannelInv'
<1>1. Faithful(updates', view', Held')
  BY DEF ChannelInv
<1>2. Held' \in View
  BY HeldInView
<1>3. QED
  BY <1>1, <1>2 DEF ChannelInv, Faithful, Believes

(* One update is said.                                                     *)
LEMMA SpokenStep ==
    ASSUME TypeOK, TypeOK', ChannelInv, pc # "done", NEW u \in Update,
           updates' = Append(updates, u), view' = view,
           IF Moves(u) THEN After(view, u) = Held' ELSE Held' = Held,
           Meets(u, Held)
    PROVE  ChannelInv'
<1>1. Faithful(updates', view', Held')
  BY HeldInView, FaithfulAppend DEF ChannelInv, TypeOK
<1>2. Held' \in View
  BY DEF TypeOK, Held, View
<1>3. QED
  BY <1>1, <1>2 DEF ChannelInv, Faithful, Believes

(* A notice is said and the link is gone.                                  *)
LEMMA LossStep ==
    ASSUME TypeOK, ChannelInv, pc # "done", view' = view, Held' = Idle,
           updates' = Append(Append(updates, Notice), Disconnected)
    PROVE  ChannelInv'
<1>1. Faithful(updates', view', Held')
  BY HeldInView, FaithfulLoss DEF ChannelInv, TypeOK
<1>2. Held' \in View
  BY DEF View
<1>3. QED
  BY <1>1, <1>2 DEF ChannelInv, Faithful, Believes

LEMMA ChannelDeliver ==
    ASSUME TypeOK, ChannelInv, Deliver
    PROVE  ChannelInv'
<1>1. updates \in Seq(Update) /\ updates # <<>> /\ updates' = Tail(updates)
      /\ view' = After(view, Head(updates)) /\ pc' = pc /\ Held' = Held
  BY DEF Deliver, TypeOK, taskVars, Held
<1>2. PICK w \in View : Faithful(updates, view, w)
  BY DEF ChannelInv
<1>3. Faithful(updates', view', w)
  BY <1>1, <1>2, FaithfulTail
<1>4. pc # "done" => Faithful(updates', view', Held')
  BY <1>1, FaithfulTail DEF ChannelInv
<1>5. QED
  BY <1>1, <1>3, <1>4 DEF ChannelInv, Faithful, Believes

LEMMA ChannelProblem ==
    ASSUME TypeOK, TypeOK', ChannelInv, pc \in {"select", "poll"},
           link # NoDevice, NEW sofar, Problem(sofar)
    PROVE  ChannelInv'
<1>1. CASE sofar + 1 >= FailuresBeforeDrop
  <2>1. Held' = Idle
    BY <1>1 DEF Problem, Held, GivenUp
  <2>2. QED
    BY <1>1, <2>1, LossStep DEF Problem, GivenUp
<1>2. CASE ~(sofar + 1 >= FailuresBeforeDrop)
  <2>1. Held' = Held /\ updates' = Append(updates, Notice) /\ view' = view
    BY <1>2 DEF Problem, Held, GivenUp
  <2>2. QED
    BY <2>1, SpokenStep, MessageMoves, UpdateMessages
<1>3. QED
  BY <1>1, <1>2

LEMMA ChannelListen ==
    ASSUME TypeOK, TypeOK', ChannelInv, Listen
    PROVE  ChannelInv'
<1>1. pc = "select" /\ link \in Devices /\ link # NoDevice
  BY WorkerAssumption
     DEF Listen, PollDue, StreamAnswered, StreamQuiet, StreamFailed, Monitored,
     At, GivenUp
<1>2. CASE PollDue \/ StreamQuiet
  <2>1. updates' = updates /\ view' = view /\ Held' = Held
    BY <1>1, <1>2 DEF PollDue, StreamQuiet, Held, GivenUp
  <2>2. QED
    BY <1>1, <2>1, SilentStep
<1>3. CASE StreamAnswered
  <2>1. updates' = Append(updates, Status(link)) /\ view' = view /\ Held' = Held
        /\ Held = Live(link)
    BY <1>1, <1>3 DEF StreamAnswered, Held
  <2>2. QED
    BY <1>1, <2>1, SpokenStep, MessageMoves, UpdateMessages
<1>4. CASE StreamFailed
  <2>1. Problem(failures) \/ Problem(failures + 1)
    BY <1>4 DEF StreamFailed, GivenUp
  <2>2. QED
    BY <1>1, <2>1, ChannelProblem
<1>5. QED
  BY <1>2, <1>3, <1>4 DEF Listen

LEMMA ChannelRespond ==
    ASSUME TypeOK, TypeOK', ChannelInv, Respond
    PROVE  ChannelInv'
<1> USE MessageMoves, UpdateMessages DEF At
<1>1. CASE ScanDone
  <2>1. pc = "scan" /\ link = NoDevice /\ view' = view /\ Held' = Held
    BY <1>1 DEF ScanDone, Held, TypeOK
  <2>2. CASE \E S \in SUBSET Devices : updates' = Append(updates, Found(S))
    BY <2>1, <2>2, SpokenStep
  <2>3. CASE updates' = Append(Append(updates, Notice), Found({}))
    <3>1. Append(updates, Notice) \in Seq(Update) /\ Found({}) \in Update
      BY DEF TypeOK
    <3>2. Faithful(Append(updates, Notice), view, Held)
      BY <2>1, HeldInView, FaithfulAppend DEF ChannelInv, TypeOK
    <3>3. Faithful(updates', view', Held')
      BY <2>1, <2>3, <3>1, <3>2, HeldInView, FaithfulAppend
    <3>4. Held' \in View
      BY <2>1, HeldInView
    <3>5. QED
      BY <3>3, <3>4 DEF ChannelInv, Faithful, Believes
  <2>4. QED
    BY <1>1, <2>2, <2>3 DEF ScanDone
<1>2. CASE OpenDone
  <2>1. pc = "connect" /\ target \in Devices /\ view' = view
        /\ updates' = Append(updates, Connected(target))
    BY <1>2 DEF OpenDone, TypeOK, Fresh
  <2>2. Held = Opening(target) /\ Held' = Live(target)
    BY <1>2, <2>1, WorkerAssumption DEF OpenDone, Held, Fresh
  <2>3. QED
    BY <2>1, <2>2, SpokenStep
<1>3. CASE OpenFailed
  <2>1. pc = "connect" /\ view' = view /\ Held' = Idle
        /\ updates' = Append(Append(updates, Notice), Disconnected)
    BY <1>3 DEF OpenFailed, Held, TypeOK, Fresh
  <2>2. QED
    BY <2>1, LossStep
<1>4. CASE PairAnswered \/ PairFailed
  <2>1. \E u \in {Notice, Pairing(TRUE), Pairing(FALSE)} :
           updates' = Append(updates, u)
    BY <1>4 DEF PairAnswered, PairFailed
  <2>2. pc \in {"pair", "pairNew"} /\ view' = view /\ link' = link
        /\ pc' \in {"poll", "select"}
    BY <1>4 DEF PairAnswered, PairFailed, PairDone
  <2>3. Held' = Held /\ Held = Live(link) /\ link \in Devices
    BY <2>2, WorkerAssumption DEF Held, TypeOK
  <2>4. QED
    BY <2>1, <2>2, <2>3, SpokenStep
<1>5. CASE ControlDone
  <2>1. pc = "execute" /\ view' = view /\ Held' = Held
    BY <1>5 DEF ControlDone, Held
  <2>2. updates' = updates \/ updates' = Append(updates, Notice)
    BY <1>5 DEF ControlDone
  <2>3. QED
    BY <2>1, <2>2, SilentStep, SpokenStep
<1>6. CASE PollAnswered
  <2>1. pc = "poll" /\ link \in Devices /\ view' = view /\ Held' = Held
        /\ updates' = Append(updates, Status(link)) /\ Held = Live(link)
    BY <1>6, WorkerAssumption DEF PollAnswered, Held, TypeOK
  <2>2. QED
    BY <2>1, SpokenStep
<1>7. CASE PollFailed
  BY <1>7, ChannelProblem DEF PollFailed, TypeOK
<1>8. CASE PauseOver
  <2>1. pc = "pause" /\ updates' = updates /\ view' = view /\ Held' = Held
    BY <1>8 DEF PauseOver, Held
  <2>2. QED
    BY <2>1, SilentStep
<1>9. QED
  BY <1>1, <1>2, <1>3, <1>4, <1>5, <1>6, <1>7, <1>8 DEF Respond

LEMMA ChannelObey ==
    ASSUME TypeOK, TypeOK', ChannelInv, Obey
    PROVE  ChannelInv'
<1> USE MessageMoves, UpdateMessages DEF At, Receive
<1>1. pc = "select" /\ view' = view /\ Head(commands) \in Command
  BY DEF Obey, ReceiveScan, ReceiveConnect, ReceiveDisconnect, ReceiveControl,
         ReceivePair, ReceiveForget, ReceiveQuit, TypeOK, Fresh
<1>2. CASE ReceiveScan
  <2>1. Held' = Held
    BY <1>1, <1>2 DEF ReceiveScan, Held
  <2>2. updates' = updates \/ updates' = Append(updates, Scanning)
    BY <1>2 DEF ReceiveScan
  <2>3. QED
    BY <1>1, <2>1, <2>2, SilentStep, SpokenStep
<1>3. CASE ReceiveConnect
  <2>1. Head(commands).dev \in Devices
    BY <1>1, <1>3 DEF ReceiveConnect, Command, Fresh
  <2>2. CASE Head(commands).dev \in found
    <3>1. updates' = Append(updates, Connecting(Head(commands).dev))
          /\ pc' = "connect" /\ target' = Head(commands).dev
      BY <1>3, <2>2 DEF ReceiveConnect, Fresh
    <3>2. Held' = Opening(Head(commands).dev)
      BY <3>1 DEF Held
    <3>3. QED
      BY <1>1, <2>1, <3>1, <3>2, SpokenStep
  <2>3. CASE Head(commands).dev \notin found
    <3>1. updates' = Append(Append(updates, Notice), Disconnected)
          /\ pc' = pc /\ link' = NoDevice
      BY <1>3, <2>3 DEF ReceiveConnect, Fresh
    <3>2. Held' = Idle
      BY <1>1, <3>1 DEF Held
    <3>3. QED
      BY <1>1, <3>1, <3>2, LossStep
  <2>4. QED
    BY <2>2, <2>3
<1>4. CASE ReceiveDisconnect
  <2>1. updates' = Append(updates, Disconnected) /\ Held' = Idle
    BY <1>1, <1>4 DEF ReceiveDisconnect, Held
  <2>2. QED
    BY <1>1, <2>1, SpokenStep
<1>5. CASE ReceiveControl \/ ReceivePair
  <2>1. updates' = updates /\ Held' = Held
    BY <1>1, <1>5 DEF ReceiveControl, ReceivePair, Held
  <2>2. QED
    BY <1>1, <2>1, SilentStep
<1>6. CASE ReceiveForget
  <2>1. Held' = Held
    BY <1>1, <1>6 DEF ReceiveForget, Held
  <2>2. updates' = updates \/ updates' = Append(updates, Notice)
    BY <1>6 DEF ReceiveForget
  <2>3. QED
    BY <1>1, <2>1, <2>2, SilentStep, SpokenStep
<1>7. CASE ReceiveQuit
  <2>1. updates' = updates /\ view' = view /\ pc' = "done"
    BY <1>7 DEF ReceiveQuit
  <2>2. QED
    BY <2>1 DEF ChannelInv, Faithful, Believes
<1>8. QED
  BY <1>2, <1>3, <1>4, <1>5, <1>6, <1>7 DEF Obey

LEMMA ChannelAlways == Spec => []ChannelInv
<1>1. Init => ChannelInv
  <2>1. ASSUME Init
        PROVE  Faithful(updates, view, Idle) /\ Held = Idle
    BY <2>1 DEF Init, Faithful, Believes, Held
  <2>2. QED
    BY <2>1 DEF ChannelInv, View
<1>2. ASSUME TypeOK, TypeOK', ChannelInv, [Next]_vars
      PROVE  ChannelInv'
  <2>1. CASE \/ \E c \in Command : Send(c)
             \/ UNCHANGED vars
    <3>1. updates' = updates /\ view' = view /\ pc' = pc /\ Held' = Held
      BY <2>1 DEF Send, vars, taskVars, Held
    <3>2. QED
      BY <1>2, <3>1 DEF ChannelInv, Faithful, Believes
  <2>2. CASE Deliver
    BY <1>2, <2>2, ChannelDeliver
  <2>3. CASE Respond \/ Listen \/ Obey
    BY <1>2, <2>3, ChannelRespond, ChannelListen, ChannelObey
  <2>4. QED
    BY <1>2, <2>1, <2>2, <2>3 DEF Next
<1>3. QED
  BY <1>1, <1>2, TypeCorrect, PTL DEF Spec

(* Whatever waits in the channel, draining it brings the window to the     *)
(* link the task holds.                                                    *)
THEOREM ViewFollowsTask == Spec => []ViewSettles
  BY ChannelAlways, ChannelInvMeaning, PTL

(* Every reading meets the window showing the battery it came from.        *)
THEOREM ReadingsFollowView == Spec => []ReadingsMatchView
  BY ChannelAlways, ChannelInvMeaning, PTL

-----------------------------------------------------------------------------
(* The window drives the task only as Worker.tla allows.                   *)

LEMMA CommandMessages ==
    /\ \A d \in Devices : [op |-> "connect", dev |-> d] \in Command
    /\ \A op \in {"scan", "disconnect", "control", "pair", "forget", "quit"} :
          [op |-> op] \in Command
  BY DEF Command

(* A click, the first request of a new window and the last of a closing    *)
(* one each send one command.                                              *)
LEMMA RequestSends ==
    ASSUME TypeOK, Start \/ User
    PROVE  \E c \in Command : Send(c)
<1> USE CommandMessages
<1>1. CASE Start \/ Close
  BY <1>1 DEF Start, Close, Request
<1>2. CASE ClickScan \/ ClickDisconnect \/ ClickControl \/ ClickPair \/ ClickForget
  BY <1>2 DEF ClickScan, ClickDisconnect, ClickControl, ClickPair, ClickForget, Click,
     Request
<1>3. CASE \E d \in Devices : ClickConnect(d)
  BY <1>3 DEF ClickConnect, Connect, Click, Request
<1>4. QED
  BY <1>1, <1>2, <1>3 DEF User

LEMMA DrainDelivers == Drain => Deliver /\ window = "open" /\ window' = window
  BY DEF Drain, DrainScanning, DrainFound, DrainConnected, DrainStatus,
         DrainPairing, DrainDisconnected, DrainOther, Drained

LEMMA AppStep ==
    ASSUME TypeOK, [AppNext]_allVars
    PROVE  [Next]_vars
<1>1. CASE Start \/ User
  BY <1>1, RequestSends DEF Next
<1>2. CASE Drain \/ Discard
  BY <1>2, DrainDelivers DEF Discard, Next
<1>3. CASE Task
  BY <1>3 DEF Task, TaskStep, Next
<1>4. CASE Join \/ Leave \/ UNCHANGED allVars
  BY <1>4 DEF Join, Leave, allVars
<1>5. QED
  BY <1>1, <1>2, <1>3, <1>4 DEF AppNext

(* What is proved of the task alone holds behind the window.               *)
LEMMA AppKeepsTask == AppSpec => Spec
<1>1. AppInit => Init
  BY DEF AppInit
<1>2. Init => TypeOK
  BY TypeInit
<1>3. TypeOK /\ [Next]_vars => TypeOK'
  BY TypeStep
<1>4. TypeOK /\ [AppNext]_allVars => [Next]_vars
  BY AppStep
<1>5. QED
  BY <1>1, <1>2, <1>3, <1>4, PTL DEF AppSpec, Spec

(* What the task holds and what waits in the channel, behind the window.   *)
LEMMA BehindWindow ==
    AppSpec => [](TypeOK /\ ChannelInv /\ SilencedOnlyForPairing)
  BY AppKeepsTask, TypeCorrect, ChannelAlways, SilencedForPairing, PTL

-----------------------------------------------------------------------------
(* Types of the window.                                                    *)

LEMMA HeadOfUpdates ==
    ASSUME TypeOK, updates # <<>>
    PROVE  /\ Head(updates) \in Update
           /\ Head(updates) = updates[1]
           /\ Len(updates) \in Nat /\ Len(updates) >= 1
           /\ Len(Tail(updates)) = Len(updates) - 1
           /\ \A j \in 1 .. Len(updates) - 1 : Tail(updates)[j] = updates[j + 1]
  BY DEF TypeOK

(* What each kind of update carries.                                       *)
LEMMA UpdateParts ==
    ASSUME NEW u \in Update
    PROVE  /\ u.kind \in {"connecting", "connected", "status"} => u.dev \in Devices
           /\ u.kind = "found" => u.rows \in SUBSET Devices
           /\ u.kind = "pairing" => u.authed \in BOOLEAN /\ u = Pairing(u.authed)
  BY DEF Update, Pairing

(* The window stays well formed.                                           *)
THEOREM AppTypeCorrect == AppSpec => []AppTypeOK
<1>1. AppInit => AppTypeOK
  BY TypeInit DEF AppInit, AppTypeOK
<1>2. ASSUME AppTypeOK, TypeOK', [AppNext]_allVars
      PROVE  AppTypeOK'
  <2>1. CASE Start \/ User
    BY <1>2, <2>1 DEF Start, User, Click, Request, Connect, ClickScan,
       ClickConnect, ClickDisconnect,
       ClickControl, ClickPair, ClickForget, Close, AppTypeOK
  <2>2. CASE Drain
    <3>1. updates # <<>> /\ TypeOK /\ window' = window
      BY <1>2, <2>2, DrainDelivers DEF Deliver, AppTypeOK
    <3>2. Head(updates) \in Update
      BY <3>1, HeadOfUpdates
    <3>3. CASE DrainFound
      <4>1. Head(updates).rows \in SUBSET Devices
        BY <3>2, <3>3, UpdateParts DEF DrainFound, Drained
      <4>2. selected' \in Devices \cup {NoDevice}
        BY <1>2, <3>3, <4>1 DEF DrainFound, AppTypeOK
      <4>3. QED
        BY <1>2, <3>1, <3>3, <4>1, <4>2 DEF DrainFound, AppTypeOK
    <3>4. CASE DrainConnected \/ DrainStatus
      BY <1>2, <3>1, <3>2, <3>4, UpdateParts
         DEF DrainConnected, DrainStatus, Drained, AppTypeOK
    <3>5. CASE DrainScanning \/ DrainPairing \/ DrainDisconnected \/ DrainOther
      BY <1>2, <3>1, <3>5
         DEF DrainScanning, DrainPairing, DrainDisconnected, DrainOther, AppTypeOK
    <3>6. QED
      BY <2>2, <3>3, <3>4, <3>5 DEF Drain
  <2>3. CASE Task \/ Discard \/ UNCHANGED allVars
    BY <1>2, <2>3 DEF Task, TaskStep, Discard, allVars, appVars, AppTypeOK
  <2>4. CASE Join \/ Leave
    BY <1>2, <2>4 DEF Join, Leave, AppTypeOK
  <2>5. QED
    BY <1>2, <2>1, <2>2, <2>3, <2>4 DEF AppNext
<1>3. QED
  BY <1>1, <1>2, BehindWindow, PTL DEF AppSpec

-----------------------------------------------------------------------------
(* The cards.                                                              *)

(* Before its first frame the window shows nothing and has asked nothing.  *)
NewInv == window = "new" => AppInit

LEMMA TaskKeepsView ==
    ASSUME Task
    PROVE  view' = view /\ UNCHANGED appVars
<1>1. ASSUME NEW n, Problem(n)
      PROVE  view' = view
  BY <1>1 DEF Problem
<1>2. Respond => view' = view
  BY <1>1 DEF Respond, ScanDone, OpenDone, OpenFailed, PairAnswered, PairFailed,
     PairDone, ControlDone, PollAnswered, PollFailed, PauseOver
<1>3. Listen => view' = view
  BY <1>1 DEF Listen, PollDue, StreamAnswered, StreamQuiet, StreamFailed
<1>4. Obey => view' = view
  BY DEF Obey, ReceiveScan, ReceiveConnect, ReceiveDisconnect, ReceiveControl,
     ReceivePair, ReceiveForget, ReceiveQuit, Receive
<1>5. QED
  BY <1>2, <1>3, <1>4 DEF Task, TaskStep

(* A window that has not asked for anything has an idle task.              *)
LEMMA NewTaskIdle ==
    ASSUME AppInit, Task
    PROVE  FALSE
<1> USE DEF AppInit, Init, At
<1>1. ~Respond
  BY DEF Respond, ScanDone, OpenDone, OpenFailed, PairAnswered, PairFailed,
     PairDone, ControlDone, PollAnswered, PollFailed, PauseOver
<1>2. ~Listen
  BY WorkerAssumption
     DEF Listen, PollDue, StreamAnswered, StreamQuiet, StreamFailed, Monitored
<1>3. ~Obey
  BY DEF Obey, ReceiveScan, ReceiveConnect, ReceiveDisconnect, ReceiveControl,
     ReceivePair, ReceiveForget, ReceiveQuit, Receive
<1>4. QED
  BY <1>1, <1>2, <1>3 DEF Task, TaskStep

LEMMA NewAlways == AppSpec => []NewInv
<1>1. AppInit => NewInv
  BY DEF NewInv
<1>2. ASSUME NewInv, [AppNext]_allVars
      PROVE  NewInv'
  <2>1. CASE Task
    BY <1>2, <2>1, NewTaskIdle, TaskKeepsView DEF NewInv, appVars
  <2>2. CASE UNCHANGED allVars
    BY <1>2, <2>2 DEF NewInv, allVars, vars, taskVars, appVars, history, AppInit,
       Init
  <2>3. CASE Start \/ Join \/ Leave
    BY <2>3 DEF Start, Join, Leave, NewInv
  <2>4. CASE Drain
    BY <2>4, DrainDelivers DEF NewInv
  <2>5. CASE User
    BY <2>5 DEF User, Click, Request, Connect, ClickScan,
       ClickConnect, ClickDisconnect,
       ClickControl, ClickPair, ClickForget, Close, NewInv
  <2>6. CASE Discard
    BY <2>6 DEF Discard, appVars, NewInv
  <2>7. QED
    BY <1>2, <2>1, <2>2, <2>3, <2>4, <2>5, <2>6 DEF AppNext
<1>3. QED
  BY <1>1, <1>2, PTL DEF AppSpec

(* The first update of a window finds it believing what it may rely on.    *)
LEMMA HeadMeets ==
    ASSUME TypeOK, ChannelInv, updates # <<>>
    PROVE  Meets(Head(updates), view)
<1>1. Head(updates) = updates[1] /\ 1 \in 1 .. Len(updates)
  BY HeadOfUpdates
<1>2. PICK b \in View : Believes(updates, view, 1, b) /\ Meets(updates[1], b)
  BY <1>1 DEF ChannelInv, Faithful
<1>3. view = b
  BY <1>2 DEF Believes
<1>4. QED
  BY <1>1, <1>2, <1>3

(* An update drained while the cards agree leaves them so: a reading is of *)
(* the battery on show, whose identity is on show; an answer to a pairing  *)
(* finds a battery connected; the news that the link moved takes what was  *)
(* on show away.                                                           *)
LEMMA CardsDrain ==
    ASSUME AppTypeOK, ChannelInv, CardsAgree, Drain
    PROVE  CardsAgree'
<1>1. /\ window = "open" /\ updates # <<>> /\ Meets(Head(updates), view)
      /\ view' = After(view, Head(updates))
  BY DrainDelivers, HeadMeets DEF Deliver, AppTypeOK
<1>2. /\ status # NoDevice => status = info
      /\ view.phase = "live" => info = view.dev
      /\ view = Idle => info = NoDevice /\ pairing = "unknown"
  BY <1>1 DEF CardsAgree
<1>3. CASE DrainScanning \/ DrainFound \/ (Drained("notice") /\ DrainOther)
  <2>1. view' = view /\ info' = info /\ status' = status /\ pairing' = pairing
    BY <1>1, <1>3 DEF DrainScanning, DrainFound, DrainOther, Drained, After
  <2>2. QED
    BY <1>2, <2>1 DEF CardsAgree
<1>4. CASE Drained("connecting") /\ DrainOther
  <2>1. view' = Opening(Head(updates).dev) /\ info' = info /\ status' = status
    BY <1>1, <1>4 DEF DrainOther, Drained, After
  <2>2. QED
    BY <1>2, <2>1 DEF CardsAgree, Opening, Idle
<1>5. CASE DrainConnected
  <2>1. view' = Live(Head(updates).dev) /\ info' = Head(updates).dev
        /\ status' = NoDevice
    BY <1>1, <1>5 DEF DrainConnected, Drained, After
  <2>2. QED
    BY <2>1 DEF CardsAgree, Live, Idle
<1>6. CASE DrainStatus
  <2>1. /\ view' = view /\ view = Live(Head(updates).dev)
        /\ status' = Head(updates).dev /\ info' = info /\ pairing' = pairing
    BY <1>1, <1>6 DEF DrainStatus, Drained, After, Meets
  <2>2. QED
    BY <1>2, <2>1 DEF CardsAgree, Live, Idle
<1>7. CASE DrainPairing
  <2>1. view' = view /\ info' = info /\ status' = status
    BY <1>1, <1>7 DEF DrainPairing, Drained, After
  <2>2. view # Idle
    BY <1>1, <1>7 DEF DrainPairing, Drained, Meets, Live, Idle
  <2>3. QED
    BY <1>2, <2>1, <2>2 DEF CardsAgree
<1>8. CASE DrainDisconnected
  <2>1. view' = Idle /\ info' = NoDevice /\ status' = NoDevice
        /\ pairing' = "unknown"
    BY <1>1, <1>8 DEF DrainDisconnected, Drained, After
  <2>2. QED
    BY <2>1 DEF CardsAgree, Idle
<1>9. DrainOther => Drained("connecting") \/ Drained("notice")
  BY DEF DrainOther
<1>10. QED
  BY <1>3, <1>4, <1>5, <1>6, <1>7, <1>8, <1>9 DEF Drain

(* What is on show is of one battery, and nothing is on show without one.  *)
THEOREM CardsAlwaysAgree == AppSpec => []CardsAgree
<1>1. AppInit => CardsAgree
  BY DEF AppInit, CardsAgree
<1>2. ASSUME AppTypeOK, ChannelInv, NewInv, CardsAgree, [AppNext]_allVars
      PROVE  CardsAgree'
  <2>1. CASE Start
    BY <1>2, <2>1 DEF Start, Request, Send, NewInv, AppInit, Init, CardsAgree, Idle
  <2>2. CASE Drain
    BY <1>2, <2>2, CardsDrain
  <2>3. CASE User
    <3>1. /\ view' = view /\ status' = status /\ info' = info
          /\ pairing' \in {pairing, "unknown"} /\ window = "open"
      BY <2>3 DEF User, Click, Request, Connect, ClickScan,
       ClickConnect, ClickDisconnect,
         ClickControl, ClickPair, ClickForget, Close, Send
    <3>2. QED
      BY <1>2, <3>1 DEF CardsAgree
  <2>4. CASE Task \/ UNCHANGED allVars
    <3>1. view' = view /\ UNCHANGED appVars
      BY <2>4, TaskKeepsView DEF allVars, vars
    <3>2. QED
      BY <1>2, <3>1 DEF CardsAgree, appVars
  <2>5. CASE Discard \/ Join \/ Leave
    BY <2>5 DEF Discard, Join, Leave, appVars, CardsAgree
  <2>6. QED
    BY <1>2, <2>1, <2>2, <2>3, <2>4, <2>5 DEF AppNext
<1>3. QED
  BY <1>1, <1>2, AppTypeCorrect, BehindWindow, NewAlways, PTL DEF AppSpec

-----------------------------------------------------------------------------
(* The scan button.                                                        *)

(* A list of devices waits behind position i of the channel.               *)
FoundAfter(q, i) == \E j \in i + 1 .. Len(q) : q[j].kind = "found"

ScanAsked ==
    pc = "select" /\ link = NoDevice /\ commands # <<>> /\ Head(commands).op = "scan"

(* The invariant behind ScanUnderWay: every announcement of a scan that    *)
(* waits in the channel is followed by its list, or the scan still runs.   *)
ScanInv ==
    /\ window = "open" /\ scanning =>
          pc = "scan" \/ FoundAfter(updates, 0) \/ ScanAsked
    /\ \A i \in 1 .. Len(updates) :
          updates[i].kind = "scanning" => pc = "scan" \/ FoundAfter(updates, i)

(* r is q with updates behind it none of which announces a scan.           *)
Grown(q, r) ==
    /\ Len(q) \in Nat /\ Len(r) \in Nat /\ Len(q) <= Len(r)
    /\ \A i \in 1 .. Len(q) : r[i] = q[i]
    /\ \A i \in Len(q) + 1 .. Len(r) : r[i].kind # "scanning"

LEMMA GrownCases ==
    ASSUME NEW q \in Seq(Update)
    PROVE  /\ Grown(q, q)
           /\ \A u \in Update : u.kind # "scanning" => Grown(q, Append(q, u))
           /\ Grown(q, Append(Append(q, Notice), Disconnected))
<1>1. Grown(q, q)
  BY DEF Grown
<1>2. ASSUME NEW u \in Update, u.kind # "scanning"
      PROVE  Grown(q, Append(q, u))
  <2>1. /\ Len(Append(q, u)) = Len(q) + 1
        /\ \A i \in 1 .. Len(q) : Append(q, u)[i] = q[i]
        /\ Append(q, u)[Len(q) + 1] = u
    OBVIOUS
  <2>2. QED
    BY <1>2, <2>1 DEF Grown
<1>3. Grown(q, Append(Append(q, Notice), Disconnected))
  <2> DEFINE r == Append(Append(q, Notice), Disconnected)
  <2>1. /\ Len(r) = Len(q) + 2
        /\ \A i \in 1 .. Len(q) : r[i] = q[i]
        /\ r[Len(q) + 1] = Notice /\ r[Len(q) + 2] = Disconnected
    BY UpdateMessages
  <2>2. Notice.kind # "scanning" /\ Disconnected.kind # "scanning"
    BY DEF Notice, Disconnected
  <2> HIDE DEF r
  <2>3. Len(q) \in Nat
    OBVIOUS
  <2>4. \A i \in Len(q) + 1 .. Len(r) : i = Len(q) + 1 \/ i = Len(q) + 2
    BY <2>1, <2>3
  <2>5. Grown(q, r)
    BY <2>1, <2>2, <2>3, <2>4 DEF Grown
  <2>6. QED
    BY <2>5 DEF r
<1>4. QED
  BY <1>1, <1>2, <1>3

LEMMA KindsNotScanning ==
    /\ \A d : /\ Connecting(d).kind # "scanning" /\ Connected(d).kind # "scanning"
              /\ Status(d).kind # "scanning"
    /\ \A ok : Pairing(ok).kind # "scanning"
    /\ Notice.kind # "scanning" /\ Disconnected.kind # "scanning"
  BY DEF Connecting, Connected, Status, Pairing, Notice, Disconnected

(* A step of the task starts a scan, ends one, or has nothing to do with   *)
(* scans: then none runs and none is the next thing asked for.             *)
LEMMA ScanStep ==
    ASSUME TypeOK, Task
    PROVE  \/ pc' = "scan"
           \/ \E q \in Seq(Update), S \in SUBSET Devices :
                 updates' = Append(q, Found(S))
           \/ pc # "scan" /\ ~ScanAsked /\ Grown(updates, updates')
<1> USE GrownCases, KindsNotScanning, UpdateMessages DEF At, ScanAsked
<1>0. updates \in Seq(Update) /\ link \in Devices \cup {NoDevice}
  BY DEF TypeOK
<1>1. ASSUME NEW n, Problem(n)
      PROVE  Grown(updates, updates')
  BY <1>0, <1>1 DEF Problem
<1>2. CASE ScanDone
  <2>1. CASE \E S \in SUBSET Devices : updates' = Append(updates, Found(S))
    BY <1>0, <1>2, <2>1
  <2>2. CASE updates' = Append(Append(updates, Notice), Found({}))
    <3>1. Append(updates, Notice) \in Seq(Update) /\ {} \in SUBSET Devices
      BY <1>0
    <3>2. QED
      BY <2>2, <3>1
  <2>3. QED
    BY <1>2, <2>1, <2>2 DEF ScanDone
<1>3. CASE OpenDone \/ PollAnswered
  BY <1>0, <1>3 DEF OpenDone, PollAnswered, TypeOK, Fresh
<1>4. CASE OpenFailed \/ ControlDone \/ PauseOver
  BY <1>0, <1>4 DEF OpenFailed, ControlDone, PauseOver, Fresh
<1>5. CASE PairAnswered \/ PairFailed
  BY <1>0, <1>5 DEF PairAnswered, PairFailed
<1>6. CASE PollFailed
  BY <1>1, <1>6 DEF PollFailed
<1>7. CASE Listen
  <2>1. pc = "select" /\ link \in Devices /\ link # NoDevice
    BY <1>7, WorkerAssumption
       DEF Listen, PollDue, StreamAnswered, StreamQuiet, StreamFailed, Monitored
  <2>2. Grown(updates, updates')
    BY <1>0, <1>1, <1>7, <2>1
       DEF Listen, PollDue, StreamAnswered, StreamQuiet, StreamFailed
  <2>3. QED
    BY <2>1, <2>2
<1>8. CASE ReceiveScan
  BY <1>0, <1>8 DEF ReceiveScan, Receive
<1>9. CASE ReceiveConnect
  <2>1. Head(commands).op = "connect" /\ pc = "select" /\ Head(commands) \in Command
    BY <1>9 DEF ReceiveConnect, Receive, Fresh, TypeOK
  <2>2. Head(commands).dev \in Devices
    BY <2>1 DEF Command
  <2>3. QED
    BY <1>0, <1>9, <2>1, <2>2 DEF ReceiveConnect, Fresh
<1>10. CASE \/ ReceiveDisconnect \/ ReceiveControl \/ ReceivePair
            \/ ReceiveForget \/ ReceiveQuit
  <2>1. Head(commands).op # "scan" /\ pc = "select"
    BY <1>10 DEF ReceiveDisconnect, ReceiveControl, ReceivePair, ReceiveForget,
       ReceiveQuit, Receive
  <2>2. Grown(updates, updates')
    BY <1>0, <1>10 DEF ReceiveDisconnect, ReceiveControl, ReceivePair, ReceiveForget,
       ReceiveQuit
  <2>3. QED
    BY <2>1, <2>2
<1>11. QED
  BY <1>2, <1>3, <1>4, <1>5, <1>6, <1>7, <1>8, <1>9, <1>10
     DEF Task, TaskStep, Respond, Obey

LEMMA ScanTask ==
    ASSUME TypeOK, ScanInv, Task
    PROVE  ScanInv'
<1>0. window' = window /\ scanning' = scanning /\ updates \in Seq(Update)
  BY TaskKeepsView DEF appVars, TypeOK
<1>1. CASE pc' = "scan"
  BY <1>1 DEF ScanInv
<1>2. ASSUME NEW q \in Seq(Update), NEW S, updates' = Append(q, Found(S))
      PROVE  ScanInv'
  <2>1. /\ Len(updates') = Len(q) + 1 /\ Len(q) \in Nat
        /\ updates'[Len(q) + 1].kind = "found"
    BY <1>2 DEF Found
  <2>2. ASSUME NEW i \in Nat, i <= Len(q)
        PROVE  FoundAfter(updates', i)
    BY <2>1, <2>2 DEF FoundAfter
  <2>3. ASSUME NEW i \in 1 .. Len(updates'), updates'[i].kind = "scanning"
        PROVE  FoundAfter(updates', i)
    BY <2>1, <2>2, <2>3
  <2>4. QED
    BY <2>1, <2>2, <2>3 DEF ScanInv
<1>3. CASE pc # "scan" /\ ~ScanAsked /\ Grown(updates, updates')
  <2>1. ASSUME NEW i \in Nat, FoundAfter(updates, i)
        PROVE  FoundAfter(updates', i)
    BY <1>3, <2>1 DEF FoundAfter, Grown
  <2>2. window' = "open" /\ scanning' => FoundAfter(updates', 0)
    BY <1>0, <1>3, <2>1 DEF ScanInv
  <2>3. ASSUME NEW i \in 1 .. Len(updates'), updates'[i].kind = "scanning"
        PROVE  FoundAfter(updates', i)
    <3>1. i \in 1 .. Len(updates) /\ updates'[i] = updates[i]
      BY <1>3, <2>3 DEF Grown
    <3>2. QED
      BY <1>3, <2>1, <2>3, <3>1 DEF ScanInv
  <2>4. QED
    BY <2>2, <2>3 DEF ScanInv
<1>4. QED
  BY <1>1, <1>2, <1>3, ScanStep

(* Draining the announcement of a scan leaves its list behind it; draining *)
(* a list ends the scan the window shows.                                  *)
LEMMA ScanDeliver ==
    ASSUME TypeOK, ScanInv, Deliver, window' = window,
           \/ Head(updates).kind = "scanning" \/ window # "open"
           \/ scanning' = FALSE
           \/ scanning' = scanning /\ Head(updates).kind # "found"
    PROVE  ScanInv'
<1>1. /\ updates # <<>> /\ updates' = Tail(updates)
      /\ pc' = pc /\ link' = link /\ commands' = commands
      /\ Len(updates) \in Nat /\ Len(updates) >= 1 /\ Head(updates) = updates[1]
      /\ Len(Tail(updates)) = Len(updates) - 1
      /\ \A j \in 1 .. Len(updates) - 1 : Tail(updates)[j] = updates[j + 1]
  BY HeadOfUpdates DEF Deliver, taskVars
<1>2. ASSUME NEW i \in 1 .. Len(updates), FoundAfter(updates, i)
      PROVE  FoundAfter(updates', i - 1)
  <2>1. PICK j \in i + 1 .. Len(updates) : updates[j].kind = "found"
    BY <1>2 DEF FoundAfter
  <2>2. /\ j - 1 \in (i - 1) + 1 .. Len(updates) - 1
        /\ Tail(updates)[j - 1] = updates[j]
    BY <1>1, <2>1
  <2>3. QED
    BY <1>1, <2>1, <2>2 DEF FoundAfter
<1>3. ASSUME NEW i \in 1 .. Len(updates'), updates'[i].kind = "scanning"
      PROVE  pc = "scan" \/ FoundAfter(updates', i)
  <2>1. /\ i + 1 \in 1 .. Len(updates) /\ updates'[i] = updates[i + 1]
        /\ (i + 1) - 1 = i
    BY <1>1
  <2>2. QED
    BY <1>2, <1>3, <2>1 DEF ScanInv
<1>4. ASSUME window' = "open", scanning'
      PROVE  pc = "scan" \/ FoundAfter(updates', 0) \/ ScanAsked'
  <2>1. 1 \in 1 .. Len(updates) /\ 1 - 1 = 0
    BY <1>1
  <2>2. CASE Head(updates).kind = "scanning"
    BY <1>1, <1>2, <2>1, <2>2 DEF ScanInv
  <2>3. CASE scanning' = scanning /\ Head(updates).kind # "found"
    <3>1. pc = "scan" \/ FoundAfter(updates, 0) \/ ScanAsked
      BY <1>4, <2>3 DEF ScanInv
    <3>2. FoundAfter(updates, 0) => FoundAfter(updates, 1)
      BY <1>1, <2>3 DEF FoundAfter
    <3>3. ScanAsked => ScanAsked'
      BY <1>1 DEF ScanAsked
    <3>4. QED
      BY <1>2, <2>1, <3>1, <3>2, <3>3
  <2>4. QED
    BY <1>4, <2>2, <2>3
<1>5. QED
  BY <1>1, <1>3, <1>4 DEF ScanInv

(* A command behind the ones that wait changes nothing about them.         *)
LEMMA ScanSend ==
    ASSUME TypeOK, ScanInv, NEW c \in Command, Send(c),
           window' = "open" /\ scanning' => window = "open" /\ scanning
    PROVE  ScanInv'
<1>1. /\ updates' = updates /\ pc' = pc /\ link' = link
      /\ commands' = Append(commands, c) /\ commands \in Seq(Command)
  BY DEF Send, taskVars, TypeOK
<1>2. commands # <<>> => Head(commands') = Head(commands) /\ commands' # <<>>
  BY <1>1
<1>3. ScanAsked => ScanAsked'
  BY <1>1, <1>2 DEF ScanAsked
<1>4. QED
  BY <1>1, <1>3 DEF ScanInv, FoundAfter

(* The scan button comes back: while the window says it is scanning, a     *)
(* scan is asked for, running, or its list is under way.                   *)
THEOREM ScanAlwaysUnderWay == AppSpec => []ScanUnderWay
<1>1. AppInit => ScanInv
  BY DEF AppInit, Init, ScanInv
<1>2. ASSUME TypeOK, NewInv, ScanInv, [AppNext]_allVars
      PROVE  ScanInv'
  <2>1. CASE Start
    <3>1. /\ commands = <<>> /\ updates = <<>> /\ pc = "select" /\ link = NoDevice
      BY <1>2, <2>1 DEF Start, NewInv, AppInit, Init
    <3>2. /\ updates' = <<>> /\ pc' = "select" /\ link' = NoDevice
          /\ commands' = <<[op |-> "scan"]>>
      BY <2>1, <3>1 DEF Start, Request, Send, taskVars
    <3>3. ScanAsked'
      BY <3>2 DEF ScanAsked
    <3>4. QED
      BY <3>2, <3>3 DEF ScanInv
  <2>2. CASE User
    <3>1. PICK c \in Command : Send(c)
      BY <1>2, <2>2, RequestSends
    <3>2. scanning' = scanning /\ window = "open"
      BY <2>2 DEF User, Click, Request, Connect, ClickScan,
       ClickConnect, ClickDisconnect,
         ClickControl, ClickPair, ClickForget, Close
    <3>3. QED
      BY <1>2, <3>1, <3>2, ScanSend
  <2>3. CASE Drain
    <3>1. \/ Head(updates).kind = "scanning"
          \/ scanning' = FALSE
          \/ scanning' = scanning /\ Head(updates).kind # "found"
      BY <2>3 DEF Drain, DrainScanning, DrainFound, DrainConnected, DrainStatus,
         DrainPairing, DrainDisconnected, DrainOther, Drained
    <3>2. QED
      BY <1>2, <2>3, <3>1, DrainDelivers, ScanDeliver
  <2>4. CASE Discard
    BY <1>2, <2>4, ScanDeliver DEF Discard, appVars
  <2>5. CASE Task
    BY <1>2, <2>5, ScanTask
  <2>6. CASE Join \/ Leave
    BY <1>2, <2>6 DEF Join, Leave, vars, taskVars, ScanInv, FoundAfter
  <2>7. CASE UNCHANGED allVars
    BY <1>2, <2>7 DEF allVars, vars, taskVars, appVars, ScanInv, FoundAfter, ScanAsked
  <2>8. QED
    BY <1>2, <2>1, <2>2, <2>3, <2>4, <2>5, <2>6, <2>7 DEF AppNext
<1>3. ScanInv => ScanUnderWay
  BY DEF ScanInv, ScanUnderWay, FoundAfter, ScanAsked
<1>4. QED
  BY <1>1, <1>2, <1>3, BehindWindow, NewAlways, PTL DEF AppSpec

-----------------------------------------------------------------------------
(* A pairing that is pending.                                              *)

(* The updates that change the pairing on show, and what one leaves there. *)
Shows(u) == u.kind \in {"connected", "disconnected", "pairing"}

Shown(p, u) ==
    CASE u.kind = "pairing"                       -> IF u.authed THEN "authed" ELSE "pending"
      [] u.kind \in {"connected", "disconnected"} -> "unknown"
      [] OTHER                                    -> p

(* A window that shows p and drains q ends showing a pending pairing.      *)
Pends(q, p) ==
    \/ p = "pending" /\ \A j \in 1 .. Len(q) : ~Shows(q[j])
    \/ \E k \in 1 .. Len(q) :
         q[k] = Pairing(FALSE) /\ \A j \in k + 1 .. Len(q) : ~Shows(q[j])

(* The invariant behind PendingSuspends: it speaks of the pairing that the *)
(* waiting updates lead to, not of the one on show.                        *)
PendInv ==
    window = "open" /\ Pends(updates, pairing) /\ link # NoDevice => needsPairing

LEMMA PendsAppend ==
    ASSUME NEW q \in Seq(Update), NEW u \in Update, NEW p, Pends(Append(q, u), p)
    PROVE  IF Shows(u) THEN u = Pairing(FALSE) ELSE Pends(q, p)
<1>1. /\ Len(Append(q, u)) = Len(q) + 1
      /\ Append(q, u)[Len(q) + 1] = u
      /\ \A j \in 1 .. Len(q) : Append(q, u)[j] = q[j]
  OBVIOUS
<1>2. Shows(Pairing(FALSE))
  BY DEF Shows, Pairing
<1>3. CASE p = "pending" /\ \A j \in 1 .. Len(Append(q, u)) : ~Shows(Append(q, u)[j])
  <2>1. ~Shows(u) /\ \A j \in 1 .. Len(q) : ~Shows(q[j])
    BY <1>1, <1>3
  <2>2. QED
    BY <1>3, <2>1 DEF Pends
<1>4. ASSUME NEW k \in 1 .. Len(Append(q, u)), Append(q, u)[k] = Pairing(FALSE),
             \A j \in k + 1 .. Len(Append(q, u)) : ~Shows(Append(q, u)[j])
      PROVE  IF Shows(u) THEN u = Pairing(FALSE) ELSE Pends(q, p)
  <2>1. CASE k = Len(q) + 1
    BY <1>1, <1>2, <1>4, <2>1
  <2>2. CASE k # Len(q) + 1
    <3>0. Len(q) \in Nat
      OBVIOUS
    <3>1. k \in 1 .. Len(q)
      BY <1>1, <2>2, <3>0
    <3>2. q[k] = Pairing(FALSE)
      BY <1>1, <1>4, <3>1
    <3>3. Len(q) + 1 \in k + 1 .. Len(Append(q, u))
      BY <1>1, <3>0, <3>1
    <3>4. ~Shows(u) /\ \A j \in k + 1 .. Len(q) : ~Shows(q[j])
      BY <1>1, <1>4, <3>0, <3>1, <3>3
    <3>5. QED
      BY <3>1, <3>2, <3>4 DEF Pends
  <2>3. QED
    BY <2>1, <2>2
<1>5. QED
  BY <1>3, <1>4 DEF Pends

LEMMA PendsTail ==
    ASSUME NEW q \in Seq(Update), q # <<>>, NEW p,
           Pends(Tail(q), Shown(p, Head(q)))
    PROVE  Pends(q, p)
<1>1. /\ Head(q) = q[1] /\ Head(q) \in Update /\ Len(q) \in Nat /\ Len(q) >= 1
      /\ \A j \in 1 .. Len(q) - 1 : Tail(q)[j] = q[j + 1]
      /\ Len(Tail(q)) = Len(q) - 1
  OBVIOUS
<1>2. \A j \in 2 .. Len(q) : j - 1 \in 1 .. Len(q) - 1 /\ Tail(q)[j - 1] = q[j]
  BY <1>1
<1>3. CASE /\ Shown(p, Head(q)) = "pending"
           /\ \A j \in 1 .. Len(Tail(q)) : ~Shows(Tail(q)[j])
  <2>1. \A j \in 2 .. Len(q) : ~Shows(q[j])
    BY <1>1, <1>2, <1>3
  <2>2. CASE Head(q).kind = "pairing"
    <3>1. q[1] = Pairing(FALSE)
      BY <1>1, <1>3, <2>2, UpdateParts DEF Shown
    <3>2. 1 \in 1 .. Len(q) /\ 1 + 1 = 2
      BY <1>1
    <3>3. QED
      BY <2>1, <3>1, <3>2 DEF Pends
  <2>3. CASE Head(q).kind # "pairing"
    <3>1. p = "pending" /\ ~Shows(q[1])
      BY <1>1, <1>3, <2>3 DEF Shown, Shows
    <3>2. \A j \in 1 .. Len(q) : j = 1 \/ j \in 2 .. Len(q)
      BY <1>1
    <3>3. QED
      BY <2>1, <3>1, <3>2 DEF Pends
  <2>4. QED
    BY <2>2, <2>3
<1>4. ASSUME NEW k \in 1 .. Len(Tail(q)), Tail(q)[k] = Pairing(FALSE),
             \A j \in k + 1 .. Len(Tail(q)) : ~Shows(Tail(q)[j])
      PROVE  Pends(q, p)
  <2>0. k \in 1 .. Len(q) - 1 /\ k + 1 \in 1 .. Len(q)
    BY <1>1
  <2>1. k + 1 \in 1 .. Len(q) /\ q[k + 1] = Pairing(FALSE)
    BY <1>1, <1>4, <2>0
  <2>2. \A j \in (k + 1) + 1 .. Len(q) :
           j \in 2 .. Len(q) /\ j - 1 \in k + 1 .. Len(Tail(q))
    BY <1>1
  <2>3. \A j \in (k + 1) + 1 .. Len(q) : ~Shows(q[j])
    BY <1>2, <1>4, <2>2
  <2>4. QED
    BY <2>1, <2>3 DEF Pends
<1>5. QED
  BY <1>3, <1>4 DEF Pends

(* A step of the task leaves no battery, or changes the pairing the window *)
(* will show as it changes the suspension, or lifts no suspension at all.  *)
LEMMA PendStep ==
    ASSUME TypeOK, SilencedOnlyForPairing, Task
    PROVE  \/ link' = NoDevice
           \/ \E u \in Update :
                 /\ updates' = Append(updates, u) /\ Shows(u)
                 /\ u = Pairing(FALSE) => needsPairing'
           \/ /\ link' = link /\ (link # NoDevice /\ needsPairing => needsPairing')
              /\ \/ updates' = updates
                 \/ \E u \in Update : updates' = Append(updates, u) /\ ~Shows(u)
<1> USE UpdateMessages
<1>0. /\ link \in Devices \cup {NoDevice}
      /\ \A d : Shows(Connected(d)) /\ Connected(d) # Pairing(FALSE) /\ ~Shows(Status(d))
      /\ \A ok : Shows(Pairing(ok)) /\ (Pairing(ok) = Pairing(FALSE) => ok = FALSE)
      /\ ~Shows(Notice) /\ ~Shows(Scanning)
  BY DEF TypeOK, Shows, Connected, Pairing, Status, Notice, Scanning
<1>1. ASSUME NEW n, Problem(n)
      PROVE  \/ link' = NoDevice
             \/ /\ link' = link /\ needsPairing' = needsPairing
                /\ updates' = Append(updates, Notice)
  BY <1>1 DEF Problem
<1>2. CASE ScanDone \/ OpenFailed
  <2>1. link = NoDevice
    BY <1>2 DEF ScanDone, OpenFailed, At, TypeOK, Fresh
  <2>2. link' = link
    BY <1>2 DEF ScanDone, OpenFailed, Fresh
  <2>3. QED
    BY <2>1, <2>2
<1>3. CASE OpenDone
  <2>1. target \in Devices /\ updates' = Append(updates, Connected(target))
    BY <1>3 DEF OpenDone, At, TypeOK, Fresh
  <2>2. QED
    BY <1>0, <2>1
<1>4. CASE PairAnswered
  <2>1. PICK ok \in BOOLEAN :
           updates' = Append(updates, Pairing(ok)) /\ needsPairing' = ~ok
    BY <1>4 DEF PairAnswered, PairDone
  <2>2. Pairing(ok) = Pairing(FALSE) => needsPairing'
    BY <1>0, <2>1
  <2>3. QED
    BY <1>0, <2>1, <2>2
<1>5. CASE PairFailed
  <2>1. updates' = Append(updates, Notice) /\ link' = link /\ needsPairing' = ~FALSE
    BY <1>5 DEF PairFailed, PairDone
  <2>2. QED
    BY <1>0, <2>1
<1>6. CASE ControlDone \/ PauseOver \/ PollDue \/ StreamQuiet
  <2>1. link' = link /\ needsPairing' = needsPairing
        /\ (updates' = updates \/ updates' = Append(updates, Notice))
    BY <1>6 DEF ControlDone, PauseOver, PollDue, StreamQuiet
  <2>2. QED
    BY <1>0, <2>1
<1>7. CASE PollAnswered \/ StreamAnswered
  <2>1. link' = link /\ needsPairing' = needsPairing
        /\ updates' = Append(updates, Status(link)) /\ link \in Devices
    BY <1>7, <1>0, WorkerAssumption
       DEF PollAnswered, StreamAnswered, Monitored, At, TypeOK
  <2>2. QED
    BY <1>0, <2>1
<1>8. CASE PollFailed \/ StreamFailed
  <2>1. \E n : Problem(n)
    BY <1>8 DEF PollFailed, StreamFailed
  <2>2. QED
    BY <1>0, <1>1, <2>1
<1>9. CASE ReceiveConnect \/ ReceiveDisconnect \/ ReceiveQuit
  BY <1>9 DEF ReceiveConnect, ReceiveDisconnect, ReceiveQuit
<1>10. CASE ReceiveScan \/ ReceiveControl \/ ReceivePair
  <2>1. link' = link /\ needsPairing' = needsPairing
        /\ (updates' = updates \/ updates' = Append(updates, Scanning))
    BY <1>10 DEF ReceiveScan, ReceiveControl, ReceivePair
  <2>2. QED
    BY <1>0, <2>1
<1>11. CASE ReceiveForget
  <2>1. link' = link /\ (updates' = updates \/ updates' = Append(updates, Notice))
    BY <1>11 DEF ReceiveForget
  <2>2. ASSUME link # NoDevice, needsPairing
        PROVE  needsPairing'
    <3>1. link \in AuthDevices
      BY <2>2 DEF SilencedOnlyForPairing
    <3>2. needsPairing' = (link \in AuthDevices) \/ needsPairing' = needsPairing
      BY <1>11 DEF ReceiveForget
    <3>3. QED
      BY <2>2, <3>1, <3>2
  <2>3. QED
    BY <1>0, <2>1, <2>2
<1>12. QED
  BY <1>2, <1>3, <1>4, <1>5, <1>6, <1>7, <1>8, <1>9, <1>10, <1>11
     DEF Task, TaskStep, Respond, Listen, Obey

(* A battery the card shows as waiting for its pairing is not read.        *)
THEOREM PendingAlwaysSuspends == AppSpec => []PendingSuspends
<1>1. AppInit => PendInv
  BY DEF AppInit, PendInv
<1>2. ASSUME TypeOK, SilencedOnlyForPairing, NewInv, PendInv, [AppNext]_allVars
      PROVE  PendInv'
  <2>0. updates \in Seq(Update)
    BY <1>2 DEF TypeOK
  <2>1. CASE Start
    <3>1. pairing' = "unknown" /\ updates' = <<>>
      BY <1>2, <2>1 DEF Start, Request, Send, NewInv, AppInit, Init
    <3>2. ~Pends(updates', pairing')
      BY <3>1 DEF Pends
    <3>3. QED
      BY <3>2 DEF PendInv
  <2>2. CASE User
    <3>1. /\ window = "open" /\ pairing' \in {pairing, "unknown"}
          /\ updates' = updates /\ link' = link /\ needsPairing' = needsPairing
      BY <2>2 DEF User, Click, Request, Connect, ClickScan,
       ClickConnect, ClickDisconnect,
         ClickControl, ClickPair, ClickForget, Close, Send, taskVars
    <3>2. Pends(updates', pairing') => Pends(updates, pairing)
      BY <3>1 DEF Pends
    <3>3. QED
      BY <1>2, <3>1, <3>2 DEF PendInv
  <2>3. CASE Drain
    <3>1. /\ updates # <<>> /\ updates' = Tail(updates) /\ window = "open"
          /\ link' = link /\ needsPairing' = needsPairing
      BY <2>3, DrainDelivers DEF Deliver, taskVars
    <3>2. pairing' = Shown(pairing, Head(updates))
      BY <2>3 DEF Drain, DrainScanning, DrainFound, DrainConnected, DrainStatus,
         DrainPairing, DrainDisconnected, DrainOther, Drained, Shown
    <3>3. Pends(updates', pairing') => Pends(updates, pairing)
      BY <2>0, <3>1, <3>2, PendsTail
    <3>4. QED
      BY <1>2, <3>1, <3>3 DEF PendInv
  <2>4. CASE Task
    <3>1. window' = window /\ pairing' = pairing
      BY <2>4, TaskKeepsView DEF appVars
    <3>2. ASSUME NEW u \in Update, updates' = Append(updates, u), Shows(u),
                 u = Pairing(FALSE) => needsPairing'
          PROVE  PendInv'
      BY <2>0, <3>2, PendsAppend DEF PendInv
    <3>3. ASSUME link' = link, link # NoDevice /\ needsPairing => needsPairing',
                 Pends(updates', pairing') => Pends(updates, pairing)
          PROVE  PendInv'
      BY <1>2, <3>1, <3>3 DEF PendInv
    <3>4. ASSUME \/ updates' = updates
                 \/ \E u \in Update : updates' = Append(updates, u) /\ ~Shows(u)
          PROVE  Pends(updates', pairing') => Pends(updates, pairing)
      BY <2>0, <3>1, <3>4, PendsAppend
    <3>5. link' = NoDevice => PendInv'
      BY DEF PendInv
    <3>6. QED
      BY <1>2, <2>4, <3>2, <3>3, <3>4, <3>5, PendStep
  <2>5. CASE Discard \/ Join \/ Leave
    BY <2>5 DEF Discard, Join, Leave, appVars, PendInv
  <2>6. CASE UNCHANGED allVars
    BY <1>2, <2>6 DEF allVars, vars, taskVars, appVars, PendInv
  <2>7. QED
    BY <1>2, <2>1, <2>2, <2>3, <2>4, <2>5, <2>6 DEF AppNext
<1>3. PendInv => PendingSuspends
  BY DEF PendInv, PendingSuspends, Pends
<1>4. QED
  BY <1>1, <1>2, <1>3, BehindWindow, NewAlways, PTL DEF AppSpec

-----------------------------------------------------------------------------
(* The battery a click was meant for.                                      *)

Connects(q) == \E i \in 1 .. Len(q) : q[i].op = "connect"
Says(q, kind) == \E i \in 1 .. Len(q) : q[i].kind = kind

(* A command that acts on the battery open, and names none.                *)
Nameless(c) == c.op \in {"control", "pair", "forget"}

(* In the channel of commands: no such command waits behind a connect, or  *)
(* while a battery is opened, so the link it was meant for can only have   *)
(* been lost or dropped meanwhile.                                         *)
Waiting ==
    /\ \A i, j \in 1 .. Len(commands) :
          commands[i].op = "connect" =>
              /\ commands[j].op = "connect" => i = j
              /\ Nameless(commands[j]) => j < i
    /\ \A i \in 1 .. Len(commands) :
          Nameless(commands[i]) => pc # "connect" /\ link \in {meant[i], NoDevice}

(* In an open window: a connect waits, or is announced, only under a       *)
(* window without a link, which shows nothing until it is connected.       *)
Announced ==
    /\ Connects(commands) =>
          /\ view = Idle /\ pc # "connect" /\ link = NoDevice
          /\ ~Says(updates, "connecting") /\ ~Says(updates, "connected")
    /\ \A k \in 1 .. Len(updates) :
          updates[k].kind = "connecting" =>
              /\ view = Idle
              /\ \A j \in 1 .. k - 1 :
                    updates[j].kind \notin {"connecting", "connected"}
    /\ view.phase = "connecting" => info = NoDevice

(* The invariant behind RequestsMeant, which alone says nothing of what    *)
(* waits behind the first command.                                         *)
MeantInv ==
    /\ meant \in Seq(Devices \cup {NoDevice})
    /\ Len(meant) = Len(commands)
    /\ ~doubled => Waiting /\ (window = "open" => Announced)

(* Without a connection on its way, no connection is reported, and what is *)
(* held is what is on show, or nothing.                                    *)
LEMMA NothingOnItsWay ==
    ASSUME TypeOK, ChannelInv, view.phase # "connecting",
           ~Says(updates, "connecting")
    PROVE  /\ ~Says(updates, "connected")
           /\ pc = "done" \/ Held = view \/ Held = Idle
<1>1. ASSUME NEW k \in 1 .. Len(updates), updates[k].kind = "connected"
      PROVE  FALSE
  <2>1. Believes(updates, view, k, Opening(updates[k].dev))
    BY <1>1 DEF ChannelInv, Faithful, Meets
  <2>2. view # Opening(updates[k].dev)
    BY DEF Opening
  <2>3. PICK j \in 1 .. k - 1 :
           Moves(updates[j]) /\ After(view, updates[j]) = Opening(updates[k].dev)
    BY <2>1, <2>2 DEF Believes
  <2>4. j \in 1 .. Len(updates) /\ updates[j].kind = "connecting"
    BY <2>3 DEF Moves, After, Opening, Live, Idle, TypeOK
  <2>5. QED
    BY <2>4 DEF Says
<1>2. ASSUME pc # "done", Held # view
      PROVE  Held = Idle
  <2>1. PICK k \in 1 .. Len(updates) :
           Moves(updates[k]) /\ After(view, updates[k]) = Held
    BY <1>2 DEF ChannelInv, Faithful, Believes, TypeOK
  <2>2. updates[k].kind = "disconnected"
    BY <1>1, <2>1 DEF Moves, Says
  <2>3. QED
    BY <2>1, <2>2 DEF After
<1>3. QED
  BY <1>1, <1>2 DEF Says

(* A window with a battery on show: the task holds that one, or none.      *)
LEMMA ShownIsHeld ==
    ASSUME TypeOK, ChannelInv, CardsAgree, window = "open", Announced,
           info # NoDevice
    PROVE  ~Connects(commands) /\ pc # "connect" /\ link \in {info, NoDevice}
<1>1. view # Idle /\ view.phase # "connecting"
  BY DEF CardsAgree, Announced
<1>2. view.phase = "live" /\ info = view.dev
  BY <1>1 DEF TypeOK, View, Opening, Live, CardsAgree
<1>3. ~Connects(commands) /\ ~Says(updates, "connecting")
  BY <1>1 DEF Announced, Says
<1>4. pc = "done" \/ Held = view \/ Held = Idle
  BY <1>1, <1>3, NothingOnItsWay
<1>5. pc # "connect"
  <2>1. pc = "connect" => Held.phase = "connecting"
    BY HeldParts
  <2>2. QED
    BY <1>2, <1>4, <2>1 DEF Idle
<1>6. link \in {info, NoDevice}
  <2>1. pc = "done" => link = NoDevice
    BY DEF TypeOK
  <2>2. link # NoDevice => Held.phase = "live" /\ Held.dev = link
    BY <1>5, HeldParts
  <2>3. QED
    BY <1>2, <1>4, <2>1, <2>2 DEF Idle
<1>7. QED
  BY <1>3, <1>5, <1>6

-----------------------------------------------------------------------------
(* r is q with updates behind it that open no connection.                  *)
Unopened(q, r) ==
    /\ Len(q) \in Nat /\ Len(r) \in Nat /\ Len(q) <= Len(r)
    /\ \A i \in 1 .. Len(q) : r[i] = q[i]
    /\ \A i \in Len(q) + 1 .. Len(r) : r[i].kind \notin {"connecting", "connected"}

LEMMA UnopenedCases ==
    ASSUME NEW q \in Seq(Update)
    PROVE  /\ Unopened(q, q)
           /\ \A u \in Update : u.kind \notin {"connecting", "connected"}
                => Unopened(q, Append(q, u))
           /\ \A u \in Update : u.kind \notin {"connecting", "connected"}
                => Unopened(q, Append(Append(q, Notice), u))
<1>1. Unopened(q, q)
  BY DEF Unopened
<1>2. ASSUME NEW u \in Update, u.kind \notin {"connecting", "connected"}
      PROVE  Unopened(q, Append(q, u))
  <2>1. /\ Len(Append(q, u)) = Len(q) + 1
        /\ \A i \in 1 .. Len(q) : Append(q, u)[i] = q[i]
        /\ Append(q, u)[Len(q) + 1] = u
    OBVIOUS
  <2>2. QED
    BY <1>2, <2>1 DEF Unopened
<1>3. ASSUME NEW u \in Update, u.kind \notin {"connecting", "connected"}
      PROVE  Unopened(q, Append(Append(q, Notice), u))
  <2> DEFINE r == Append(Append(q, Notice), u)
  <2>1. /\ Len(r) = Len(q) + 2
        /\ \A i \in 1 .. Len(q) : r[i] = q[i]
        /\ r[Len(q) + 1] = Notice /\ r[Len(q) + 2] = u
    BY UpdateMessages
  <2>2. Notice.kind = "notice"
    BY DEF Notice
  <2>3. \A i \in Len(q) + 1 .. Len(q) + 2 : i = Len(q) + 1 \/ i = Len(q) + 2
    OBVIOUS
  <2> HIDE DEF r
  <2>4. Unopened(q, r)
    BY <1>3, <2>1, <2>2, <2>3 DEF Unopened
  <2>5. QED
    BY <2>4 DEF r
<1>4. QED
  BY <1>1, <1>2, <1>3

(* What a step of the task does to its link and to the two channels.       *)
Kept == link' \in {link, NoDevice} /\ (pc' = "connect" => pc = "connect")

LEMMA TaskEffect ==
    ASSUME TypeOK, Task
    PROVE  \/ commands' = commands /\ Kept /\ Unopened(updates, updates')
           \/ /\ commands' = commands /\ pc = "connect" /\ pc' # "connect"
              /\ target \in Devices /\ updates' = Append(updates, Connected(target))
           \/ /\ commands # <<>> /\ commands' = Tail(commands)
              /\ Head(commands).op # "connect" /\ pc = "select" /\ pc' # "connect"
              /\ Kept /\ Unopened(updates, updates')
           \/ /\ commands # <<>> /\ commands' = Tail(commands)
              /\ Head(commands).op = "connect" /\ link' = NoDevice
              /\ \/ Unopened(updates, updates')
                 \/ \E d \in Devices : updates' = Append(updates, Connecting(d))
<1> USE UpdateMessages
<1>0. /\ updates \in Seq(Update)
      /\ \A d : Status(d).kind = "status"
      /\ \A ok : Pairing(ok).kind = "pairing"
      /\ \A S : Found(S).kind = "found"
      /\ Notice.kind = "notice" /\ Scanning.kind = "scanning"
      /\ Disconnected.kind = "disconnected"
  BY DEF TypeOK, Status, Pairing, Found, Notice, Scanning, Disconnected
<1>1. /\ Unopened(updates, updates)
      /\ Unopened(updates, Append(updates, Notice))
      /\ Unopened(updates, Append(updates, Scanning))
      /\ Unopened(updates, Append(updates, Disconnected))
      /\ \A d \in Devices : Unopened(updates, Append(updates, Status(d)))
      /\ \A ok \in BOOLEAN : Unopened(updates, Append(updates, Pairing(ok)))
      /\ \A S \in SUBSET Devices : Unopened(updates, Append(updates, Found(S)))
      /\ Unopened(updates, Append(Append(updates, Notice), Disconnected))
      /\ Unopened(updates, Append(Append(updates, Notice), Found({})))
  BY <1>0, UnopenedCases
<1>2. ASSUME NEW n, Problem(n)
      PROVE  commands' = commands /\ Kept /\ Unopened(updates, updates')
  BY <1>1, <1>2 DEF Problem, Kept
<1>3. CASE ScanDone
  <2>1. commands' = commands /\ link' = link /\ pc' = "select"
    BY <1>3 DEF ScanDone
  <2>2. Unopened(updates, updates')
    BY <1>1, <1>3 DEF ScanDone
  <2>3. QED
    BY <2>1, <2>2 DEF Kept
<1>4. CASE OpenFailed
  BY <1>1, <1>4 DEF OpenFailed, Kept, Fresh
<1>5. CASE OpenDone
  <2>1. pc = "connect" /\ target \in Devices /\ commands' = commands
        /\ updates' = Append(updates, Connected(target))
    BY <1>5 DEF OpenDone, At, TypeOK, Fresh
  <2>2. pc' # "connect"
    BY <1>5 DEF OpenDone, Fresh
  <2>3. QED
    BY <2>1, <2>2
<1>6. CASE PairAnswered \/ PairFailed
  <2>1. commands' = commands /\ link' = link /\ pc' \in {"poll", "select"}
    BY <1>6 DEF PairAnswered, PairFailed, PairDone
  <2>2. Unopened(updates, updates')
    BY <1>1, <1>6 DEF PairAnswered, PairFailed
  <2>3. QED
    BY <2>1, <2>2 DEF Kept
<1>7. CASE ControlDone \/ PauseOver \/ PollDue \/ StreamQuiet
  <2>1. commands' = commands /\ link' = link
        /\ (pc' = pc \/ pc' \in {"poll", "select"})
        /\ (updates' = updates \/ updates' = Append(updates, Notice))
    BY <1>7 DEF ControlDone, PauseOver, PollDue, StreamQuiet
  <2>2. QED
    BY <1>1, <2>1 DEF Kept
<1>8. CASE PollAnswered \/ StreamAnswered
  <2>1. commands' = commands /\ link' = link /\ (pc' = pc \/ pc' = "select")
        /\ updates' = Append(updates, Status(link)) /\ link \in Devices
    BY <1>8, WorkerAssumption
       DEF PollAnswered, StreamAnswered, Monitored, At, TypeOK
  <2>2. QED
    BY <1>1, <2>1 DEF Kept
<1>9. CASE PollFailed \/ StreamFailed
  <2>1. \E n : Problem(n)
    BY <1>9 DEF PollFailed, StreamFailed
  <2>2. QED
    BY <1>2, <2>1
<1>10. CASE ReceiveConnect
  <2>1. /\ commands # <<>> /\ commands' = Tail(commands)
        /\ Head(commands).op = "connect" /\ link' = NoDevice
    BY <1>10 DEF ReceiveConnect, Receive, Fresh
  <2>2. Head(commands).dev \in Devices
    BY <2>1 DEF TypeOK, Command
  <2>3. \/ updates' = Append(updates, Connecting(Head(commands).dev))
        \/ updates' = Append(Append(updates, Notice), Disconnected)
    BY <1>10 DEF ReceiveConnect, Fresh
  <2>4. QED
    BY <1>1, <2>1, <2>2, <2>3
<1>11. CASE \/ ReceiveScan \/ ReceiveDisconnect \/ ReceivePair
            \/ ReceiveForget \/ ReceiveControl \/ ReceiveQuit
  <2>1. /\ commands # <<>> /\ commands' = Tail(commands) /\ pc = "select"
        /\ Head(commands).op # "connect"
    BY <1>11 DEF ReceiveScan, ReceiveDisconnect, ReceivePair, ReceiveForget,
       ReceiveControl, ReceiveQuit, Receive, At
  <2>2. link' \in {link, NoDevice} /\ pc' # "connect"
    BY <1>11, <2>1 DEF ReceiveScan, ReceiveDisconnect, ReceivePair, ReceiveForget,
       ReceiveControl, ReceiveQuit
  <2>3. updates' \in {updates, Append(updates, Notice), Append(updates, Scanning),
                      Append(updates, Disconnected)}
    BY <1>11 DEF ReceiveScan, ReceiveDisconnect, ReceivePair, ReceiveForget,
       ReceiveControl, ReceiveQuit
  <2>4. QED
    BY <1>1, <2>1, <2>2, <2>3 DEF Kept
<1>12. QED
  BY <1>3, <1>4, <1>5, <1>6, <1>7, <1>8, <1>9, <1>10, <1>11
     DEF Task, TaskStep, Respond, Listen, Obey

(* The task takes the first command, or none.                              *)
LEMMA MeantTask ==
    ASSUME TypeOK, TypeOK', MeantInv, Task
    PROVE  MeantInv'
<1>0. /\ view' = view /\ window' = window /\ info' = info /\ doubled' = doubled
      /\ meant' = IF commands' = commands THEN meant ELSE Tail(meant)
  BY TaskKeepsView DEF Task, TaskStep, appVars
<1>1. ASSUME commands # <<>>, commands' = Tail(commands)
      PROVE  /\ commands' # commands /\ meant' = Tail(meant)
             /\ Head(commands) = commands[1] /\ 1 \in 1 .. Len(commands)
             /\ Len(commands') = Len(commands) - 1 /\ Len(commands) \in Nat
             /\ meant' \in Seq(Devices \cup {NoDevice})
             /\ Len(meant') = Len(commands')
             /\ \A i \in 1 .. Len(commands') :
                   /\ i + 1 \in 1 .. Len(commands)
                   /\ commands'[i] = commands[i + 1] /\ meant'[i] = meant[i + 1]
  <2>1. Len(Tail(commands)) = Len(commands) - 1 /\ Len(commands) \in Nat
    BY <1>1 DEF TypeOK
  <2>2. Len(commands') = Len(commands) - 1
    BY <1>1, <2>1
  <2>3. commands' # commands
    BY <2>1, <2>2
  <2>4. commands' # commands /\ meant' = Tail(meant)
    BY <1>0, <2>3
  <2>5. meant \in Seq(Devices \cup {NoDevice}) /\ Len(meant) = Len(commands)
    BY DEF MeantInv
  <2>6. Len(commands) # 0
    BY <1>1 DEF TypeOK
  <2>7. meant # <<>> /\ Len(Tail(meant)) = Len(meant) - 1
    BY <2>5, <2>6
  <2>8. QED
    BY <1>1, <2>1, <2>4, <2>7 DEF MeantInv, TypeOK
<1>2. meant' \in Seq(Devices \cup {NoDevice}) /\ Len(meant') = Len(commands')
  BY <1>0, <1>1, TaskEffect DEF MeantInv
<1>3. SUFFICES ASSUME ~doubled
               PROVE  Waiting' /\ (window = "open" => Announced')
  BY <1>0, <1>2 DEF MeantInv
<1>4. Waiting /\ (window = "open" => Announced)
  BY <1>3 DEF MeantInv
<1>5. ASSUME Unopened(updates, updates'), window = "open",
             Connects(commands') => Connects(commands),
             Connects(commands') => link' \in {link, NoDevice} /\ pc' # "connect"
      PROVE  Announced'
  <2>1. ASSUME NEW kind \in {"connecting", "connected"}, Says(updates', kind)
        PROVE  Says(updates, kind)
    <3>1. PICK i \in 1 .. Len(updates') : updates'[i].kind = kind
      BY <2>1 DEF Says
    <3>2. i \in 1 .. Len(updates) /\ updates[i].kind = kind
      BY <1>5, <3>1 DEF Unopened
    <3>3. QED
      BY <3>2 DEF Says
  <2>2. ASSUME NEW k \in 1 .. Len(updates'), updates'[k].kind = "connecting"
        PROVE  k \in 1 .. Len(updates) /\ updates[k].kind = "connecting"
               /\ \A j \in 1 .. k - 1 : updates'[j] = updates[j]
    BY <1>5, <2>2 DEF Unopened
  <2>3. QED
    BY <1>0, <1>4, <1>5, <2>1, <2>2 DEF Announced
<1>6. CASE commands' = commands /\ Kept /\ Unopened(updates, updates')
  <2>1. Waiting'
    BY <1>0, <1>4, <1>6 DEF Waiting, Kept
  <2>2. window = "open" /\ Connects(commands) => pc # "connect"
    BY <1>4 DEF Announced
  <2>3. window = "open" => Announced'
    BY <1>5, <1>6, <2>2 DEF Kept
  <2>4. QED
    BY <2>1, <2>3
<1>7. CASE /\ commands' = commands /\ pc = "connect" /\ pc' # "connect"
           /\ target \in Devices /\ updates' = Append(updates, Connected(target))
  <2>1. Waiting'
    BY <1>0, <1>4, <1>7 DEF Waiting
  <2>2. ASSUME window = "open"
        PROVE  Announced'
    <3>1. ~Connects(commands)
      BY <1>4, <1>7, <2>2 DEF Announced
    <3>2. /\ Len(updates') = Len(updates) + 1 /\ Len(updates) \in Nat
          /\ \A i \in 1 .. Len(updates) : updates'[i] = updates[i]
          /\ updates'[Len(updates) + 1] = Connected(target)
      BY <1>7, UpdateMessages DEF TypeOK
    <3>3. Connected(target).kind # "connecting"
      BY DEF Connected
    <3>4. QED
      BY <1>0, <1>4, <1>7, <2>2, <3>1, <3>2, <3>3 DEF Announced, Connects
  <2>3. QED
    BY <2>1, <2>2
<1>8. CASE /\ commands # <<>> /\ commands' = Tail(commands)
           /\ Head(commands).op # "connect" /\ pc = "select" /\ pc' # "connect"
           /\ Kept /\ Unopened(updates, updates')
  <2>1. Waiting'
    <3>1. ASSUME NEW i \in 1 .. Len(commands'), Nameless(commands'[i])
          PROVE  pc' # "connect" /\ link' \in {meant'[i], NoDevice}
      <4>1. /\ i + 1 \in 1 .. Len(commands) /\ Nameless(commands[i + 1])
            /\ meant'[i] = meant[i + 1]
        BY <1>1, <1>8, <3>1
      <4>2. QED
        BY <1>4, <1>8, <4>1 DEF Waiting, Kept
    <3>2. ASSUME NEW i \in 1 .. Len(commands'), NEW j \in 1 .. Len(commands'),
                 commands'[i].op = "connect"
          PROVE  /\ commands'[j].op = "connect" => i = j
                 /\ Nameless(commands'[j]) => j < i
      <4>1. /\ i + 1 \in 1 .. Len(commands) /\ j + 1 \in 1 .. Len(commands)
            /\ commands'[i] = commands[i + 1] /\ commands'[j] = commands[j + 1]
        BY <1>1, <1>8
      <4>2. /\ commands[j + 1].op = "connect" => i + 1 = j + 1
            /\ Nameless(commands[j + 1]) => j + 1 < i + 1
        BY <1>4, <3>2, <4>1 DEF Waiting
      <4>3. QED
        BY <4>1, <4>2
    <3>3. QED
      BY <3>1, <3>2 DEF Waiting
  <2>2. Connects(commands') => Connects(commands)
    BY <1>1, <1>8 DEF Connects
  <2>3. QED
    BY <1>5, <1>8, <2>1, <2>2 DEF Kept
<1>9. CASE /\ commands # <<>> /\ commands' = Tail(commands)
           /\ Head(commands).op = "connect" /\ link' = NoDevice
           /\ \/ Unopened(updates, updates')
              \/ \E d \in Devices : updates' = Append(updates, Connecting(d))
  <2>1. \A i \in 1 .. Len(commands') :
           commands'[i].op # "connect" /\ ~Nameless(commands'[i])
    <3>1. ASSUME NEW i \in 1 .. Len(commands')
          PROVE  commands'[i].op # "connect" /\ ~Nameless(commands'[i])
      <4>1. /\ 1 \in 1 .. Len(commands) /\ i + 1 \in 1 .. Len(commands)
            /\ commands[1].op = "connect" /\ commands'[i] = commands[i + 1]
        BY <1>1, <1>9
      <4>2. 1 # i + 1 /\ ~(i + 1 < 1)
        OBVIOUS
      <4>3. QED
        BY <1>4, <4>1, <4>2 DEF Waiting
    <3>2. QED
      BY <3>1
  <2>2. Waiting'
    BY <2>1 DEF Waiting
  <2>3. ~Connects(commands')
    BY <2>1 DEF Connects
  <2>4. ASSUME window = "open", NEW d \in Devices,
               updates' = Append(updates, Connecting(d))
        PROVE  Announced'
    <3>1. Connects(commands)
      BY <1>1, <1>9 DEF Connects
    <3>2. /\ view = Idle
          /\ \A j \in 1 .. Len(updates) :
                updates[j].kind \notin {"connecting", "connected"}
      BY <1>4, <2>4, <3>1 DEF Announced, Says
    <3>3. /\ Len(updates') = Len(updates) + 1 /\ Len(updates) \in Nat
          /\ \A i \in 1 .. Len(updates) : updates'[i] = updates[i]
      BY <2>4, UpdateMessages DEF TypeOK
    <3>4. QED
      BY <1>0, <2>3, <3>2, <3>3 DEF Announced, Idle
  <2>5. QED
    BY <1>5, <1>9, <2>2, <2>3, <2>4
<1>10. QED
  BY <1>6, <1>7, <1>8, <1>9, TaskEffect

(* One update is drained, and shown, by an open window.                    *)
LEMMA MeantDrain ==
    ASSUME TypeOK, MeantInv, CardsAgree, Drain
    PROVE  MeantInv'
<1>1. /\ window = "open" /\ window' = window /\ doubled' = doubled
      /\ meant' = meant /\ commands' = commands /\ pc' = pc /\ link' = link
      /\ updates # <<>> /\ updates' = Tail(updates)
      /\ view' = After(view, Head(updates))
  BY DrainDelivers DEF Deliver, taskVars, Drain, DrainScanning, DrainFound,
     DrainConnected, DrainStatus, DrainPairing, DrainDisconnected, DrainOther,
     Drained, history
<1>2. SUFFICES ASSUME ~doubled
               PROVE  Announced'
  BY <1>1 DEF MeantInv, Waiting
<1>3. Announced
  BY <1>1, <1>2 DEF MeantInv
<1>4. /\ Head(updates) = updates[1] /\ 1 \in 1 .. Len(updates)
      /\ Len(updates') = Len(updates) - 1
      /\ \A j \in 1 .. Len(updates') :
            j + 1 \in 1 .. Len(updates) /\ updates'[j] = updates[j + 1]
  BY <1>1, HeadOfUpdates
<1>5. ASSUME view = Idle, updates[1].kind \notin {"connecting", "connected"}
      PROVE  view' = Idle
  BY <1>1, <1>4, <1>5 DEF After
<1>6. ASSUME Connects(commands)
      PROVE  /\ view' = Idle
             /\ ~Says(updates', "connecting") /\ ~Says(updates', "connected")
  BY <1>3, <1>4, <1>5, <1>6 DEF Announced, Says
<1>7. ASSUME NEW k \in 1 .. Len(updates'), updates'[k].kind = "connecting"
      PROVE  /\ view' = Idle
             /\ \A j \in 1 .. k - 1 :
                   updates'[j].kind \notin {"connecting", "connected"}
  <2>1. /\ k + 1 \in 1 .. Len(updates) /\ updates[k + 1].kind = "connecting"
        /\ 1 \in 1 .. (k + 1) - 1
        /\ \A j \in 1 .. k - 1 :
              /\ j \in 1 .. Len(updates') /\ j + 1 \in 1 .. (k + 1) - 1
    BY <1>4, <1>7
  <2>2. view = Idle /\ updates[1].kind \notin {"connecting", "connected"}
    BY <1>3, <2>1 DEF Announced
  <2>3. QED
    BY <1>3, <1>4, <1>5, <2>1, <2>2 DEF Announced
<1>8. ASSUME view'.phase = "connecting"
      PROVE  info' = NoDevice
  <2>1. CASE Head(updates).kind = "connecting"
    <3>1. view = Idle
      BY <1>3, <1>4, <2>1 DEF Announced
    <3>2. info' = info
      BY <2>1 DEF Drain, DrainScanning, DrainFound, DrainConnected, DrainStatus,
         DrainPairing, DrainDisconnected, DrainOther, Drained
    <3>3. QED
      BY <1>1, <3>1, <3>2 DEF CardsAgree
  <2>2. CASE Head(updates).kind # "connecting"
    <3>1. view' = view /\ ~Moves(Head(updates))
      BY <1>1, <1>8, <2>2 DEF After, Moves, Live, Idle
    <3>2. info' = info
      BY <3>1 DEF Moves, Drain, DrainScanning, DrainFound, DrainConnected,
         DrainStatus, DrainPairing, DrainDisconnected, DrainOther, Drained
    <3>3. QED
      BY <1>3, <1>8, <3>1, <3>2 DEF Announced
  <2>3. QED
    BY <2>1, <2>2
<1>9. QED
  BY <1>1, <1>3, <1>6, <1>7, <1>8 DEF Announced

(* A request goes behind those that wait.                                  *)
LEMMA MeantSend ==
    ASSUME TypeOK, AppTypeOK, MeantInv, NEW c \in Command, Request(c)
    PROVE  /\ meant' \in Seq(Devices \cup {NoDevice})
           /\ Len(meant') = Len(commands')
           /\ ~doubled /\ (Nameless(c) => /\ ~Connects(commands)
                                          /\ pc # "connect"
                                          /\ link \in {info, NoDevice})
                       /\ (c.op = "connect" => ~Connects(commands))
                => Waiting'
<1>1. /\ commands' = Append(commands, c) /\ meant' = Append(meant, info)
      /\ pc' = pc /\ link' = link /\ info \in Devices \cup {NoDevice}
  BY DEF Request, Send, taskVars, AppTypeOK
<1>2. /\ Len(commands') = Len(commands) + 1 /\ Len(commands) \in Nat
      /\ \A i \in 1 .. Len(commands) :
            commands'[i] = commands[i] /\ meant'[i] = meant[i]
      /\ commands'[Len(commands) + 1] = c /\ meant'[Len(commands) + 1] = info
      /\ meant' \in Seq(Devices \cup {NoDevice}) /\ Len(meant') = Len(commands')
  BY <1>1 DEF TypeOK, MeantInv
<1>3. ASSUME ~doubled, c.op = "connect" => ~Connects(commands),
             Nameless(c) => /\ ~Connects(commands) /\ pc # "connect"
                            /\ link \in {info, NoDevice}
      PROVE  Waiting'
  <2>0. Waiting
    BY <1>3 DEF MeantInv
  <2>1. \A i \in 1 .. Len(commands') : i \in 1 .. Len(commands) \/ i = Len(commands) + 1
    BY <1>2
  <2>2. ASSUME NEW i \in 1 .. Len(commands'), Nameless(commands'[i])
        PROVE  pc' # "connect" /\ link' \in {meant'[i], NoDevice}
    BY <1>1, <1>2, <1>3, <2>0, <2>1, <2>2 DEF Waiting
  <2>3. ASSUME NEW i \in 1 .. Len(commands'), NEW j \in 1 .. Len(commands'),
               commands'[i].op = "connect"
        PROVE  /\ commands'[j].op = "connect" => i = j
               /\ Nameless(commands'[j]) => j < i
    <3>1. CASE i \in 1 .. Len(commands)
      <4>1. Connects(commands)
        BY <1>2, <2>3, <3>1 DEF Connects
      <4>2. commands'[j].op = "connect" \/ Nameless(commands'[j])
              => j \in 1 .. Len(commands)
        BY <1>2, <1>3, <2>1, <4>1
      <4>3. QED
        BY <1>2, <2>0, <2>3, <3>1, <4>2 DEF Waiting
    <3>2. CASE i = Len(commands) + 1
      <4>1. c.op = "connect" /\ ~Nameless(c) /\ ~Connects(commands)
        BY <1>2, <1>3, <2>3, <3>2 DEF Nameless
      <4>2. j \in 1 .. Len(commands) => commands'[j].op # "connect" /\ j < i
        BY <1>2, <3>2, <4>1 DEF Connects
      <4>3. QED
        BY <1>2, <2>1, <3>2, <4>1, <4>2
    <3>3. QED
      BY <2>1, <3>1, <3>2
  <2>4. QED
    BY <2>2, <2>3 DEF Waiting
<1>4. QED
  BY <1>2, <1>3

LEMMA MeantUser ==
    ASSUME TypeOK, ChannelInv, AppTypeOK, CardsAgree, MeantInv, User
    PROVE  MeantInv'
<1> USE CommandMessages
<1>0. /\ window = "open" /\ view' = view /\ updates' = updates /\ pc' = pc
      /\ link' = link /\ info' = info
      /\ \E c \in Command : Request(c)
  BY DEF User, Click, Request, Send, taskVars, Connect, ClickScan,
     ClickConnect, ClickDisconnect, ClickControl, ClickPair, ClickForget, Close
<1>1. ASSUME doubled'
      PROVE  MeantInv'
  BY <1>0, <1>1, MeantSend DEF MeantInv
<1>2. ASSUME NEW c \in Command, Request(c), ~doubled,
             c.op = "connect" => ~Connects(commands)
      PROVE  ~Connects(commands) /\ c.op # "connect" => ~Connects(commands')
  <2>1. /\ commands' = Append(commands, c) /\ Len(commands) \in Nat
        /\ Len(commands') = Len(commands) + 1 /\ commands'[Len(commands) + 1] = c
        /\ \A i \in 1 .. Len(commands) : commands'[i] = commands[i]
    BY <1>2 DEF Request, Send, TypeOK
  <2>2. QED
    BY <2>1 DEF Connects
<1>3. ASSUME NEW c \in Command, Request(c), ~doubled, doubled' = doubled,
             c.op \in {"scan", "disconnect", "quit"}
      PROVE  MeantInv'
  <2>1. Waiting' /\ meant' \in Seq(Devices \cup {NoDevice})
        /\ Len(meant') = Len(commands')
    BY <1>3, MeantSend DEF Nameless
  <2>2. Announced
    BY <1>0, <1>3 DEF MeantInv
  <2>3. Announced'
    BY <1>0, <1>2, <1>3, <2>2 DEF Announced, Says
  <2>4. QED
    BY <2>1, <2>3 DEF MeantInv
<1>4. ASSUME NEW c \in Command, Request(c), ~doubled, doubled' = doubled,
             Nameless(c), info # NoDevice
      PROVE  MeantInv'
  <2>1. Announced
    BY <1>0, <1>4 DEF MeantInv
  <2>2. ~Connects(commands) /\ pc # "connect" /\ link \in {info, NoDevice}
    BY <1>0, <1>4, <2>1, ShownIsHeld
  <2>3. Waiting' /\ meant' \in Seq(Devices \cup {NoDevice})
        /\ Len(meant') = Len(commands')
    BY <1>4, <2>2, MeantSend DEF Nameless
  <2>4. Announced'
    BY <1>0, <1>2, <1>4, <2>1, <2>2 DEF Announced, Says, Nameless
  <2>5. QED
    BY <2>3, <2>4 DEF MeantInv
<1>5. CASE ClickScan \/ ClickDisconnect \/ Close
  <2>1. \E c \in Command : Request(c) /\ c.op \in {"scan", "disconnect", "quit"}
    BY <1>5 DEF ClickScan, ClickDisconnect, Close, Click
  <2>2. doubled' = doubled
    BY <1>5 DEF ClickScan, ClickDisconnect, Close
  <2>3. QED
    BY <1>1, <1>3, <2>1, <2>2
<1>6. CASE ClickControl \/ ClickPair \/ ClickForget
  <2>1. \E c \in Command : Request(c) /\ Nameless(c)
    BY <1>6 DEF ClickControl, ClickPair, ClickForget, Click, Nameless
  <2>2. doubled' = doubled
    BY <1>6 DEF ClickControl, ClickPair, ClickForget
  <2>3. info # NoDevice
    BY <1>0, <1>6, WorkerAssumption
       DEF ClickControl, ClickPair, ClickForget, CardsAgree
  <2>4. QED
    BY <1>1, <1>4, <2>1, <2>2, <2>3
<1>7. ASSUME NEW d \in Devices, ClickConnect(d), ~doubled'
      PROVE  MeantInv'
  <2>1. /\ view = Idle /\ ~doubled /\ ~Connects(commands)
        /\ ~Says(updates, "connecting")
        /\ Request([op |-> "connect", dev |-> d])
    BY <1>7 DEF ClickConnect, Connect, ConnectWaits, Connects, Says, Click
  <2>2. Waiting' /\ meant' \in Seq(Devices \cup {NoDevice})
        /\ Len(meant') = Len(commands')
    BY <2>1, MeantSend DEF Nameless
  <2>3. view.phase # "connecting"
    BY <2>1 DEF Idle
  <2>4. ~Says(updates, "connected") /\ (pc = "done" \/ Held = Idle)
    BY <2>1, <2>3, NothingOnItsWay
  <2>5. pc # "connect" /\ link = NoDevice
    <3>1. pc = "connect" => Held.phase = "connecting"
      BY HeldParts
    <3>2. pc # "connect" /\ link # NoDevice => Held.phase = "live"
      BY HeldParts
    <3>3. pc = "done" => link = NoDevice
      BY DEF TypeOK
    <3>4. QED
      BY <2>4, <3>1, <3>2, <3>3 DEF Idle
  <2>6. Announced'
    BY <1>0, <2>1, <2>3, <2>4, <2>5 DEF Announced, Says
  <2>7. QED
    BY <2>2, <2>6 DEF MeantInv
<1>8. QED
  BY <1>1, <1>5, <1>6, <1>7 DEF User

(* A control, a pairing or a forgetting acts on the battery it was clicked *)
(* for or on none, for any batteries and channels of any length, as long   *)
(* as no connect was clicked before the one before it was shown.           *)
THEOREM RequestsAlwaysMeant == AppSpec => []RequestsMeant
<1>1. AppInit => MeantInv
  BY DEF AppInit, Init, MeantInv, Waiting
<1>2. ASSUME TypeOK, TypeOK', ChannelInv, AppTypeOK, NewInv, CardsAgree, MeantInv,
             [AppNext]_allVars
      PROVE  MeantInv'
  <2>1. CASE Start
    <3>1. /\ commands = <<>> /\ updates = <<>> /\ view = Idle /\ meant = <<>>
          /\ info = NoDevice
      BY <1>2, <2>1 DEF Start, NewInv, AppInit, Init
    <3>2. /\ commands' = <<[op |-> "scan"]>> /\ updates' = <<>> /\ view' = Idle
          /\ meant' = <<NoDevice>>
      BY <2>1, <3>1 DEF Start, Request, Send
    <3>3. /\ Len(commands') = 1 /\ commands'[1].op = "scan"
          /\ meant' \in Seq(Devices \cup {NoDevice}) /\ Len(meant') = 1
          /\ Len(updates') = 0
      BY <3>2
    <3>4. \A i \in 1 .. Len(commands') :
             commands'[i].op # "connect" /\ ~Nameless(commands'[i])
      BY <3>3 DEF Nameless
    <3>5. Waiting' /\ Announced'
      BY <3>2, <3>3, <3>4 DEF Waiting, Announced, Connects, Idle
    <3>6. QED
      BY <3>3, <3>5 DEF MeantInv
  <2>2. CASE Drain
    BY <1>2, <2>2, MeantDrain
  <2>3. CASE User
    BY <1>2, <2>3, MeantUser
  <2>4. CASE Task
    BY <1>2, <2>4, MeantTask
  <2>5. CASE Discard \/ Join \/ Leave
    <3>1. /\ window' # "open" /\ commands' = commands /\ meant' = meant
          /\ pc' = pc /\ link' = link /\ doubled' = doubled
      BY <2>5 DEF Discard, Join, Leave, Deliver, appVars, history, vars, taskVars
    <3>2. QED
      BY <1>2, <3>1 DEF MeantInv, Waiting
  <2>6. CASE UNCHANGED allVars
    BY <1>2, <2>6 DEF allVars, vars, taskVars, appVars, history, MeantInv, Waiting,
       Announced, Connects, Says
  <2>7. QED
    BY <1>2, <2>1, <2>2, <2>3, <2>4, <2>5, <2>6 DEF AppNext
<1>3. MeantInv /\ TypeOK => RequestsMeant
  <2>1. ASSUME TypeOK, commands # <<>>
        PROVE  Head(commands) = commands[1] /\ 1 \in 1 .. Len(commands)
    BY <2>1 DEF TypeOK
  <2>2. ASSUME MeantInv, Len(meant) \in Nat, 1 \in 1 .. Len(meant)
        PROVE  Head(meant) = meant[1]
    BY <2>2 DEF MeantInv
  <2>3. QED
    BY <2>1, <2>2 DEF MeantInv, Waiting, Nameless, RequestsMeant
<1>4. QED
  BY <1>1, <1>2, <1>3, AppTypeCorrect, BehindWindow, NewAlways, CardsAlwaysAgree,
     PTL DEF AppSpec

=============================================================================
