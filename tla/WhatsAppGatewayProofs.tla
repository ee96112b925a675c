------------------------ MODULE WhatsAppGatewayProofs ------------------------
(***************************************************************************)
(* Proofs about WhatsAppGateway for any messages, deliveries, requests of  *)
(* the web application and number of crashes.                              *)
(***************************************************************************)
EXTENDS WhatsAppGateway, TLAPS

(* A file is being saved or analysed only for a media message.             *)
MediaWork ==
  \A h \in Deliveries :
    delivery[h].pc \in {"inserting", "analyzing", "analyzed"} => delivery[h].msg \in Media

TypeInv == TypeOK /\ MediaWork

LEMMA IdleTypes ==
  /\ IdleDelivery \in DeliveryState /\ IdleDelivery.pc = "idle"
  /\ IdleDelivery.msg = NoMessage /\ IdleDelivery.pending = NoMessage
  /\ IdleWeb \in WebState /\ IdleWeb.op = "none" /\ IdleWeb.draft = NoMessage
  BY DEF IdleDelivery, IdleWeb, DeliveryState, WebState

LEMMA TypeInit == Init => TypeInv
  BY IdleTypes, GatewayBounds, GatewayMessages
     DEF Init, TypeInv, TypeOK, MediaWork, OnLoop, Blocking, Media

(* The delivery that leaves the loop, or is on it already, may go on.      *)
LEMMA StepType ==
  ASSUME TypeInv, NEW h \in Deliveries, NEW s \in DeliveryState,
         delivery' = [delivery EXCEPT ![h] = s],
         OnLoop(h) \/ LoopFree,
         s.pc \in {"inserting", "analyzing", "analyzed"} => s.msg \in Media
  PROVE  /\ delivery' \in [Deliveries -> DeliveryState]
         /\ \A f, g \in Deliveries : OnLoop(f)' /\ OnLoop(g)' => f = g
         /\ MediaWork'
<1>1. delivery' \in [Deliveries -> DeliveryState]
  BY DEF TypeInv, TypeOK
<1>2. ASSUME NEW f \in Deliveries, NEW g \in Deliveries, OnLoop(f)', OnLoop(g)'
      PROVE  f = g
  BY <1>2 DEF TypeInv, TypeOK, OnLoop, LoopFree
<1>3. MediaWork'
  BY DEF TypeInv, TypeOK, MediaWork
<1> QED
  BY <1>1, <1>2, <1>3

LEMMA FinishType ==
  ASSUME TypeInv, NEW h \in Deliveries, OnLoop(h) \/ LoopFree, Finish(h)
  PROVE  /\ delivery' \in [Deliveries -> DeliveryState]
         /\ \A f, g \in Deliveries : OnLoop(f)' /\ OnLoop(g)' => f = g
         /\ MediaWork'
         /\ event' \in [Messages -> {"none", "accepted"} \cup Finalized]
<1>1. delivery' = [delivery EXCEPT ![h] = IdleDelivery]
  BY DEF Finish
<1>2. event' \in [Messages -> {"none", "accepted"} \cup Finalized]
  BY DEF Finish, TypeInv, TypeOK, Finalized
<1> QED
  BY <1>1, <1>2, IdleTypes, StepType

LEMMA GoOnType ==
  ASSUME TypeInv, NEW h \in Deliveries, OnLoop(h) \/ LoopFree,
         NEW pc \in {"idle", "analyzing"} \cup Blocking, GoOn(h, pc),
         pc \in {"inserting", "analyzing", "analyzed"} => delivery[h].msg \in Media
  PROVE  /\ delivery' \in [Deliveries -> DeliveryState]
         /\ \A f, g \in Deliveries : OnLoop(f)' /\ OnLoop(g)' => f = g
         /\ MediaWork'
<1> DEFINE s == [delivery[h] EXCEPT !.pc = pc]
<1>1. delivery[h] \in DeliveryState
  BY DEF TypeInv, TypeOK
<1>2. s \in DeliveryState /\ s.pc = pc /\ s.msg = delivery[h].msg
  BY <1>1 DEF DeliveryState
<1>3. delivery' = [delivery EXCEPT ![h] = s]
  BY DEF GoOn
<1> HIDE DEF s
<1> QED
  BY <1>2, <1>3, StepType

(* A step of the gateway itself keeps the types.                           *)
LEMMA ProcessType ==
  ASSUME TypeInv, NEW h \in Deliveries, Process(h)
  PROVE  TypeInv'
<1> USE DEF TypeInv
<1> DEFINE Deliver ==
      /\ delivery' \in [Deliveries -> DeliveryState]
      /\ \A f, g \in Deliveries : OnLoop(f)' /\ OnLoop(g)' => f = g
      /\ MediaWork'
<1>0. delivery[h] \in DeliveryState
  BY DEF TypeOK
<1>1. CASE \/ MediaRefused(h) \/ AnalysisFails(h) \/ Answer(h)
           \/ Orchestrate(h) \/ ConfirmRefused(h)
  <2>1. Finish(h) /\ UNCHANGED <<pointer, stored, draft, facts, web, crashes, history>>
    BY <1>1 DEF MediaRefused, AnalysisFails, Answer, Orchestrate, ConfirmRefused
  <2>2. OnLoop(h) \/ LoopFree
    BY <1>1 DEF MediaRefused, OnMedia, AnalysisFails, Answer, Orchestrate, ConfirmRefused,
                OnLoop, Blocking
  <2> QED
    BY <2>1, <2>2, FinishType DEF TypeOK, history
<1>2. CASE MediaFetched(h) \/ MediaInsert(h)
  <2>1. PICK pc \in {"inserting", "analyzing"} :
          /\ GoOn(h, pc)
          /\ UNCHANGED <<pointer, event, stored, draft, facts, web, crashes, history>>
    BY <1>2 DEF MediaFetched, MediaInsert
  <2>2. OnLoop(h) /\ delivery[h].msg \in Media
    BY <1>2 DEF MediaFetched, MediaInsert, OnMedia, OnLoop, Blocking, MediaWork
  <2>3. Deliver
    BY <2>1, <2>2, GoOnType DEF Blocking
  <2> QED
    BY <2>1, <2>3 DEF TypeOK, history
<1>3. ASSUME NEW outcome \in {"preview", "needs_input"}, NEW complete \in BOOLEAN,
             Analyzed(h, outcome, complete)
      PROVE  TypeInv'
  <2>1. delivery[h].msg \in Media /\ LoopFree
    BY <1>3 DEF Analyzed, MediaWork
  <2>2. PICK pc \in {"analyzed", "answering"} : GoOn(h, pc)
    BY <1>3 DEF Analyzed
  <2>3. Deliver
    BY <2>1, <2>2, GoOnType DEF Blocking
  <2>4. stored' \subseteq {File[m] : m \in Media}
    BY <1>3, <2>1 DEF Analyzed, TypeOK
  <2>5. draft' \in [Media -> {"absent", "preview", "needs_input", "confirmed", "cancelled"}]
    BY <1>3 DEF Analyzed, TypeOK
  <2>6. effects' \in [Messages -> Nat]
    <3>1. Effect(delivery[h].msg)
      BY <1>3 DEF Analyzed
    <3> QED
      BY <2>1, <3>1 DEF Effect, TypeOK, Media
  <2> QED
    BY <1>3, <2>3, <2>4, <2>5, <2>6 DEF Analyzed, TypeOK
<1>4. CASE ClaimSlot(h)
  <2>1. OnLoop(h) /\ delivery[h].msg \in Media /\ GoOn(h, "answering")
    BY <1>4 DEF ClaimSlot, OnLoop, Blocking, MediaWork
  <2>2. Deliver
    BY <2>1, GoOnType DEF Blocking
  <2> QED
    BY <1>4, <2>1, <2>2 DEF ClaimSlot, TypeOK, history
<1>5. CASE ResolveRead(h)
  <2>1. OnLoop(h) /\ delivery[h].pc = "accepted"
    BY <1>5 DEF ResolveRead, OnReply, OnLoop, Blocking
  <2>2. CASE Resolvable(delivery[h].pending)
    <3> DEFINE s == [delivery[h] EXCEPT !.pc = "resolving",
                                        !.rival = Confirming(delivery[h].pending)]
    <3>1. Confirming(delivery[h].pending) \in BOOLEAN
      BY DEF Confirming
    <3>2. s \in DeliveryState /\ s.pc = "resolving"
      BY <1>0, <3>1, Zenon DEF DeliveryState, Blocking
    <3>3. delivery' = [delivery EXCEPT ![h] = s] /\ UNCHANGED pointer
      BY <1>5, <2>2 DEF ResolveRead
    <3> HIDE DEF s
    <3>4. Deliver
      BY <2>1, <3>2, <3>3, StepType
    <3> QED
      BY <1>5, <3>3, <3>4 DEF ResolveRead, TypeOK, history
  <2>3. CASE ~Resolvable(delivery[h].pending)
    <3>1. GoOn(h, "answering") /\ pointer' = NoMessage
      BY <1>5, <2>3 DEF ResolveRead
    <3>2. Deliver
      BY <2>1, <3>1, GoOnType DEF Blocking
    <3> QED
      BY <1>5, <3>1, <3>2 DEF ResolveRead, TypeOK, history
  <2> QED
    BY <2>2, <2>3
<1>6. CASE CancelPending(h) \/ ConfirmPending(h)
  <2>1. OnLoop(h) /\ GoOn(h, "answering") /\ pointer' = NoMessage
    BY <1>6 DEF CancelPending, ConfirmPending, OnLoop, Blocking
  <2>2. Deliver
    BY <2>1, GoOnType DEF Blocking
  <2>3. draft' \in [Media -> {"absent", "preview", "needs_input", "confirmed", "cancelled"}]
    BY <1>6 DEF CancelPending, ConfirmPending, CreateFacts, TypeOK
  <2>4. facts' \in [Media -> Nat] /\ raced' \in [Media -> Nat]
    BY <1>6 DEF CancelPending, ConfirmPending, CreateFacts, TypeOK
  <2>5. effects' \in [Messages -> Nat]
    BY <1>6 DEF CancelPending, ConfirmPending, Effect, TypeOK
  <2> QED
    BY <1>6, <2>1, <2>2, <2>3, <2>4, <2>5 DEF CancelPending, ConfirmPending, TypeOK
<1> QED
  BY <1>1, <1>2, <1>3, <1>4, <1>5, <1>6 DEF Process

LEMMA TypeStep == TypeInv /\ [Next]_vars => TypeInv'
<1> SUFFICES ASSUME TypeInv, [Next]_vars PROVE TypeInv'
  OBVIOUS
<1> USE DEF TypeInv
<1>1. ASSUME NEW h \in Deliveries, Process(h) PROVE TypeInv'
  BY <1>1, ProcessType
<1>2. ASSUME NEW h \in Deliveries, NEW m \in Messages, Accept(h, m) PROVE TypeInv'
  <2>1. CASE UNCHANGED delivery
    BY <1>2, <2>1 DEF Accept, TypeOK, MediaWork, OnLoop, Finalized, history
  <2>2. CASE delivery' # delivery
    <3> DEFINE s == [IdleDelivery EXCEPT !.pc = "accepted", !.msg = m, !.pending = pointer]
    <3>1. s \in DeliveryState /\ s.pc = "accepted"
      BY DEF IdleDelivery, DeliveryState, Blocking, TypeOK
    <3>2. delivery' = [delivery EXCEPT ![h] = s] /\ LoopFree
      BY <1>2, <2>2 DEF Accept
    <3> HIDE DEF s
    <3>3. /\ delivery' \in [Deliveries -> DeliveryState]
          /\ \A f, g \in Deliveries : OnLoop(f)' /\ OnLoop(g)' => f = g
          /\ MediaWork'
      BY <3>1, <3>2, StepType
    <3>4. event' \in [Messages -> {"none", "accepted"} \cup Finalized]
      BY <1>2 DEF Accept, TypeOK, Finalized
    <3> QED
      BY <1>2, <3>3, <3>4 DEF Accept, TypeOK, history
  <2> QED
    BY <2>1, <2>2
<1>3. CASE Crash
  <2>1. /\ delivery' \in [Deliveries -> DeliveryState] /\ MediaWork'
        /\ \A h \in Deliveries : ~OnLoop(h)'
    BY <1>3, IdleTypes DEF Crash, MediaWork, OnLoop, Blocking
  <2>2. lost' \subseteq Messages
    BY <1>3 DEF Crash, TypeOK, DeliveryState
  <2>3. crashes' \in 0 .. MaxCrashes
    BY <1>3, GatewayBounds DEF Crash, TypeOK
  <2> QED
    BY <1>3, <2>1, <2>2, <2>3 DEF Crash, TypeOK
<1>4. ASSUME NEW v \in WebRequests, WebCommit(v) PROVE TypeInv'
  <2>1. web' \in [WebRequests -> WebState]
    BY <1>4, IdleTypes DEF WebCommit, TypeOK
  <2>2. draft' \in [Media -> {"absent", "preview", "needs_input", "confirmed", "cancelled"}]
    BY <1>4 DEF WebCommit, CreateFacts, TypeOK
  <2>3. facts' \in [Media -> Nat] /\ raced' \in [Media -> Nat]
    BY <1>4 DEF WebCommit, CreateFacts, TypeOK
  <2> QED
    BY <1>4, <2>1, <2>2, <2>3 DEF WebCommit, TypeOK, MediaWork, OnLoop
<1>5. ASSUME NEW v \in WebRequests, NEW op \in {"confirm", "cancel"}, NEW m \in Media,
             WebRead(v, op, m)
      PROVE  TypeInv'
  <2> DEFINE s == [op |-> op, draft |-> m, rival |-> op = "confirm" /\ Confirming(m)]
  <2>1. (op = "confirm" /\ Confirming(m)) \in BOOLEAN
    BY DEF Confirming
  <2>2. s \in WebState
    BY <2>1, Zenon DEF WebState
  <2>3. web' = [web EXCEPT ![v] = s]
    BY <1>5 DEF WebRead
  <2> HIDE DEF s
  <2>4. web' \in [WebRequests -> WebState]
    BY <2>2, <2>3 DEF TypeOK
  <2> QED
    BY <1>5, <2>4 DEF WebRead, TypeOK, MediaWork, OnLoop, history
<1>6. CASE UNCHANGED vars
  BY <1>6 DEF vars, TypeOK, MediaWork, OnLoop
<1> QED
  BY <1>1, <1>2, <1>3, <1>4, <1>5, <1>6 DEF Next, Duplicate

(* Every reachable state is well typed, and at most one delivery is on the *)
(* event loop (receive_webhook).                                           *)
THEOREM GatewayTypeCorrect == Spec => []TypeOK
<1>1. TypeInv => TypeOK
  BY DEF TypeInv
<1> QED
  BY <1>1, TypeInit, TypeStep, PTL DEF Spec

-----------------------------------------------------------------------------
(* EachMessageOnce: a message without an event, or at work before its one  *)
(* effect, has left no trace; only one delivery works on a message.        *)
Untouched(m) == effects[m] = 0 /\ (m \in Media => draft[m] = "absent")

Taken ==
  \A h \in Deliveries :
    delivery[h].pc # "idle" =>
      delivery[h].msg \in Messages /\ event[delivery[h].msg] # "none"

Alone ==
  \A g, h \in Deliveries :
    /\ delivery[g].pc # "idle" /\ delivery[h].pc # "idle"
    /\ delivery[g].msg = delivery[h].msg
    => g = h

NewUntouched == \A m \in Messages : event[m] = "none" => Untouched(m)

BeforeEffect == {"accepted", "inserting", "analyzing", "resolving"}

WorkUntouched ==
  \A h \in Deliveries :
    delivery[h].pc \in BeforeEffect => Untouched(delivery[h].msg)

(* Whoever is about to resolve a draft has read one that exists.           *)
Named ==
  /\ \A h \in Deliveries :
       delivery[h].pc = "resolving" =>
         /\ delivery[h].pending \in Media /\ draft[delivery[h].pending] # "absent"
         /\ delivery[h].msg \notin Media
  /\ \A v \in WebRequests :
       web[v] # IdleWeb => web[v].draft \in Media /\ draft[web[v].draft] # "absent"

OnceInv ==
  /\ TypeInv /\ Taken /\ Alone /\ NewUntouched /\ WorkUntouched /\ Named /\ EachMessageOnce

(* RepeatedOnlyByRace: of the confirmations in progress on a draft at most *)
(* one met no other, and it has not been counted.                          *)
FirstReply(h, m) ==
  /\ delivery[h].pc = "resolving" /\ delivery[h].pending = m
  /\ Kind[delivery[h].msg] = "confirm" /\ ~delivery[h].rival

FirstWeb(v, m) == web[v].op = "confirm" /\ web[v].draft = m /\ ~web[v].rival

OpenDraft == {"absent", "preview", "needs_input"}

OpenUnconfirmed == \A m \in Media : draft[m] \in OpenDraft => facts[m] = 0

OneFirst ==
  \A m \in Media :
    /\ \A h \in Deliveries, v \in WebRequests : ~(FirstReply(h, m) /\ FirstWeb(v, m))
    /\ \A v, w \in WebRequests : FirstWeb(v, m) /\ FirstWeb(w, m) => v = w

FirstUncounted ==
  \A m \in Media :
    /\ \A h \in Deliveries : FirstReply(h, m) => facts[m] <= raced[m]
    /\ \A v \in WebRequests : FirstWeb(v, m) => facts[m] <= raced[m]

RaceInv == OnceInv /\ OpenUnconfirmed /\ OneFirst /\ FirstUncounted /\ RepeatedOnlyByRace

LEMMA OnceInit == Init => OnceInv
<1> SUFFICES ASSUME Init PROVE OnceInv
  OBVIOUS
<1>1. TypeInv
  BY TypeInit
<1>2. \A h \in Deliveries : delivery[h].pc = "idle"
  BY IdleTypes DEF Init
<1>3. \A v \in WebRequests : web[v] = IdleWeb
  BY DEF Init
<1>4. NewUntouched /\ EachMessageOnce
  BY DEF Init, NewUntouched, Untouched, EachMessageOnce
<1> QED
  BY <1>1, <1>2, <1>3, <1>4 DEF OnceInv, Taken, Alone, WorkUntouched, BeforeEffect, Named

(* A delivery that ends leaves everything else as it is.                   *)
LEMMA FinishOnce ==
  ASSUME OnceInv, NEW h \in Deliveries, Finish(h), UNCHANGED <<draft, web, effects>>
  PROVE  Taken' /\ Alone' /\ NewUntouched' /\ WorkUntouched' /\ Named' /\ EachMessageOnce'
<1> USE DEF OnceInv, TypeInv, TypeOK
<1>1. /\ delivery' = [delivery EXCEPT ![h] = IdleDelivery]
      /\ \A g \in Deliveries : delivery'[g].pc # "idle" => g # h /\ delivery'[g] = delivery[g]
  BY IdleTypes DEF Finish
<1>2. \A m \in Messages : event'[m] # event[m] => event'[m] = "done" /\ m = delivery[h].msg
  BY DEF Finish
<1>3. Taken'
  BY <1>1, <1>2 DEF Taken
<1>4. Alone'
  BY <1>1 DEF Alone
<1>5. NewUntouched'
  BY <1>2 DEF NewUntouched, Untouched
<1>6. WorkUntouched'
  BY <1>1 DEF WorkUntouched, Untouched, BeforeEffect
<1>7. Named'
  BY <1>1 DEF Named
<1>8. EachMessageOnce'
  BY DEF EachMessageOnce
<1> QED
  BY <1>3, <1>4, <1>5, <1>6, <1>7, <1>8

(* A delivery goes on with its message, without an effect.                 *)
LEMMA MoveOnce ==
  ASSUME OnceInv, NEW h \in Deliveries, NEW s \in DeliveryState,
         delivery[h].pc # "idle", s.pc # "idle", s.msg = delivery[h].msg,
         delivery' = [delivery EXCEPT ![h] = s],
         s.pc \in BeforeEffect => delivery[h].pc \in BeforeEffect,
         s.pc = "resolving" =>
           s.pending \in Media /\ draft[s.pending] # "absent" /\ s.msg \notin Media,
         UNCHANGED <<event, draft, web, effects>>
  PROVE  Taken' /\ Alone' /\ NewUntouched' /\ WorkUntouched' /\ Named' /\ EachMessageOnce'
<1> USE DEF OnceInv, TypeInv, TypeOK
<1>1. /\ delivery'[h] = s
      /\ \A g \in Deliveries : g # h => delivery'[g] = delivery[g]
      /\ \A g \in Deliveries : delivery'[g].msg = delivery[g].msg
      /\ \A g \in Deliveries : delivery'[g].pc # "idle" => delivery[g].pc # "idle"
  OBVIOUS
<1>2. Taken'
  BY <1>1 DEF Taken
<1>3. Alone'
  BY <1>1 DEF Alone
<1>4. NewUntouched' /\ EachMessageOnce'
  BY DEF NewUntouched, Untouched, EachMessageOnce
<1>5. WorkUntouched'
  BY <1>1 DEF WorkUntouched, Untouched, BeforeEffect
<1>6. Named'
  BY <1>1 DEF Named
<1> QED
  BY <1>2, <1>3, <1>4, <1>5, <1>6

LEMMA GoOnOnce ==
  ASSUME OnceInv, NEW h \in Deliveries, delivery[h].pc # "idle",
         NEW pc \in {"analyzing"} \cup Blocking, GoOn(h, pc),
         pc # "resolving", pc \in BeforeEffect => delivery[h].pc \in BeforeEffect,
         UNCHANGED <<event, draft, web, effects>>
  PROVE  Taken' /\ Alone' /\ NewUntouched' /\ WorkUntouched' /\ Named' /\ EachMessageOnce'
<1> DEFINE s == [delivery[h] EXCEPT !.pc = pc]
<1>1. delivery[h] \in DeliveryState
  BY DEF OnceInv, TypeInv, TypeOK
<1>2. s \in DeliveryState /\ s.pc = pc /\ s.msg = delivery[h].msg
  BY <1>1 DEF DeliveryState
<1>3. delivery' = [delivery EXCEPT ![h] = s]
  BY DEF GoOn
<1>4. s.pc # "idle" /\ s.pc # "resolving"
  BY <1>2 DEF Blocking
<1>5. s.pc \in BeforeEffect => delivery[h].pc \in BeforeEffect
  BY <1>2
<1> HIDE DEF s
<1> QED
  BY <1>2, <1>3, <1>4, <1>5, MoveOnce

(* The one effect of a message: its delivery is past it afterwards, and    *)
(* only a draft of its own may be new.                                     *)
LEMMA EffectOnce ==
  ASSUME OnceInv, NEW h \in Deliveries, delivery[h].pc \in BeforeEffect,
         NEW pc \in {"analyzed", "answering"}, GoOn(h, pc), Effect(delivery[h].msg),
         UNCHANGED <<event, web>>,
         draft' \in [Media -> {"absent", "preview", "needs_input", "confirmed", "cancelled"}],
         \A m \in Media : draft'[m] # draft[m] =>
            draft'[m] # "absent" /\ (draft[m] # "absent" \/ m = delivery[h].msg)
  PROVE  Taken' /\ Alone' /\ NewUntouched' /\ WorkUntouched' /\ Named' /\ EachMessageOnce'
<1> USE DEF OnceInv, TypeInv, TypeOK
<1> DEFINE m0 == delivery[h].msg
<1>1. /\ delivery'[h].pc = pc /\ delivery'[h].msg = m0
      /\ \A g \in Deliveries : g # h => delivery'[g] = delivery[g]
      /\ \A g \in Deliveries : delivery'[g].msg = delivery[g].msg
      /\ \A g \in Deliveries : delivery'[g].pc # "idle" => delivery[g].pc # "idle"
  BY DEF GoOn, DeliveryState, BeforeEffect
<1>2. m0 \in Messages /\ event[m0] # "none" /\ Untouched(m0)
  BY DEF Taken, WorkUntouched, BeforeEffect
<1>3. effects'[m0] = 1 /\ \A m \in Messages : m # m0 => effects'[m] = effects[m]
  BY <1>2 DEF Effect, Untouched
<1>4. \A m \in Messages : m # m0 /\ Untouched(m) => Untouched(m)'
  BY <1>3 DEF Untouched
<1>5. Taken'
  BY <1>1 DEF Taken
<1>6. Alone'
  BY <1>1 DEF Alone
<1>7. NewUntouched'
  BY <1>2, <1>4 DEF NewUntouched
<1>8. WorkUntouched'
  <2>1. ASSUME NEW g \in Deliveries, delivery'[g].pc \in BeforeEffect
        PROVE  /\ delivery'[g].msg \in Messages
               /\ effects'[delivery'[g].msg] = 0
               /\ delivery'[g].msg \in Media => draft'[delivery'[g].msg] = "absent"
    <3>1. g # h /\ delivery'[g] = delivery[g]
      BY <1>1, <2>1 DEF BeforeEffect
    <3>2. delivery[g].msg \in Messages /\ delivery[g].msg # m0
      BY <2>1, <3>1 DEF Taken, Alone, BeforeEffect
    <3>3. Untouched(delivery[g].msg)
      BY <2>1, <3>1 DEF WorkUntouched
    <3> QED
      BY <3>1, <3>2, <3>3, <1>3 DEF Untouched
  <2> QED
    BY <2>1 DEF WorkUntouched, Untouched, BeforeEffect
<1>9. Named'
  BY <1>1 DEF Named
<1>10. EachMessageOnce'
  BY <1>3 DEF EachMessageOnce
<1> QED
  BY <1>5, <1>6, <1>7, <1>8, <1>9, <1>10

(* A step of the gateway itself.                                           *)
LEMMA ProcessOnce ==
  ASSUME OnceInv, NEW h \in Deliveries, Process(h)
  PROVE  Taken' /\ Alone' /\ NewUntouched' /\ WorkUntouched' /\ Named' /\ EachMessageOnce'
<1> DEFINE Once ==
      Taken' /\ Alone' /\ NewUntouched' /\ WorkUntouched' /\ Named' /\ EachMessageOnce'
<1>0. /\ TypeInv /\ TypeInv' /\ delivery[h] \in DeliveryState
  BY ProcessType DEF OnceInv, TypeInv, TypeOK
<1>1. CASE \/ MediaRefused(h) \/ AnalysisFails(h) \/ Answer(h)
           \/ Orchestrate(h) \/ ConfirmRefused(h)
  BY <1>1, FinishOnce
     DEF MediaRefused, AnalysisFails, Answer, Orchestrate, ConfirmRefused, history
<1>2. CASE MediaFetched(h) \/ MediaInsert(h)
  <2>1. PICK pc \in {"inserting", "analyzing"} :
          GoOn(h, pc) /\ UNCHANGED <<event, draft, web, effects>>
    BY <1>2 DEF MediaFetched, MediaInsert, history
  <2>2. delivery[h].pc \in BeforeEffect
    BY <1>2 DEF MediaFetched, MediaInsert, OnMedia, BeforeEffect
  <2> QED
    BY <2>1, <2>2, GoOnOnce DEF Blocking, BeforeEffect
<1>3. ASSUME NEW outcome \in {"preview", "needs_input"}, NEW complete \in BOOLEAN,
             Analyzed(h, outcome, complete)
      PROVE  Once
  <2>1. PICK pc \in {"analyzed", "answering"} : GoOn(h, pc)
    BY <1>3 DEF Analyzed
  <2>2. /\ delivery[h].pc \in BeforeEffect /\ Effect(delivery[h].msg)
        /\ UNCHANGED <<event, web>> /\ draft' = [draft EXCEPT ![delivery[h].msg] = outcome]
    BY <1>3 DEF Analyzed, BeforeEffect
  <2>3. \A m \in Media : draft'[m] # draft[m] =>
          draft'[m] # "absent" /\ (draft[m] # "absent" \/ m = delivery[h].msg)
    BY <2>2, <1>0 DEF TypeInv, TypeOK
  <2> QED
    BY <1>0, <2>1, <2>2, <2>3, EffectOnce DEF TypeInv, TypeOK
<1>4. CASE ClaimSlot(h)
  <2>1. /\ delivery[h].pc = "analyzed" /\ GoOn(h, "answering")
        /\ UNCHANGED <<event, draft, web, effects>>
    BY <1>4 DEF ClaimSlot, history
  <2> QED
    BY <2>1, GoOnOnce DEF Blocking, BeforeEffect
<1>5. CASE ResolveRead(h)
  <2>1. /\ delivery[h].pc = "accepted" /\ UNCHANGED <<event, draft, web, effects>>
        /\ Kind[delivery[h].msg] \in {"confirm", "cancel"} /\ delivery[h].pending # NoMessage
    BY <1>5 DEF ResolveRead, OnReply, history
  <2>2. CASE Resolvable(delivery[h].pending)
    <3> DEFINE s == [delivery[h] EXCEPT !.pc = "resolving",
                                        !.rival = Confirming(delivery[h].pending)]
    <3>1. Confirming(delivery[h].pending) \in BOOLEAN
      BY DEF Confirming
    <3>2. /\ s \in DeliveryState /\ s.pc = "resolving" /\ s.msg = delivery[h].msg
          /\ s.pending = delivery[h].pending
      BY <1>0, <3>1, Zenon DEF DeliveryState, Blocking
    <3>3. delivery' = [delivery EXCEPT ![h] = s]
      BY <1>5, <2>2 DEF ResolveRead
    <3>4. /\ delivery[h].pending \in Media /\ draft[delivery[h].pending] # "absent"
          /\ delivery[h].msg \notin Media
      BY <1>0, <2>1, <2>2 DEF Resolvable, Media, DeliveryState
    <3> HIDE DEF s
    <3> QED
      BY <2>1, <3>2, <3>3, <3>4, MoveOnce DEF BeforeEffect
  <2>3. CASE ~Resolvable(delivery[h].pending)
    <3>1. GoOn(h, "answering")
      BY <1>5, <2>3 DEF ResolveRead
    <3> QED
      BY <2>1, <3>1, GoOnOnce DEF Blocking, BeforeEffect
  <2> QED
    BY <2>2, <2>3
<1>6. CASE CancelPending(h) \/ ConfirmPending(h)
  <2> DEFINE m0 == delivery[h].pending
  <2>1. /\ delivery[h].pc = "resolving" /\ GoOn(h, "answering") /\ Effect(delivery[h].msg)
        /\ UNCHANGED <<event, web>>
    BY <1>6 DEF CancelPending, ConfirmPending
  <2>2. PICK end \in {"confirmed", "cancelled"} : draft' = [draft EXCEPT ![m0] = end]
    BY <1>6 DEF CancelPending, ConfirmPending, CreateFacts
  <2>3. m0 \in Media /\ draft[m0] # "absent"
    BY <2>1 DEF OnceInv, Named
  <2>4. \A m \in Media : draft'[m] # draft[m] =>
          draft'[m] # "absent" /\ (draft[m] # "absent" \/ m = delivery[h].msg)
    BY <2>2, <2>3, <1>0 DEF TypeInv, TypeOK
  <2> QED
    BY <1>0, <2>1, <2>4, EffectOnce DEF TypeInv, TypeOK, BeforeEffect
<1> QED
  BY <1>1, <1>2, <1>3, <1>4, <1>5, <1>6 DEF Process

(* A message is accepted, or refused and recorded.                         *)
LEMMA AcceptOnce ==
  ASSUME OnceInv, NEW h \in Deliveries, NEW m \in Messages, Accept(h, m)
  PROVE  Taken' /\ Alone' /\ NewUntouched' /\ WorkUntouched' /\ Named' /\ EachMessageOnce'
<1> USE DEF OnceInv, TypeInv, TypeOK
<1>1. /\ delivery[h].pc = "idle" /\ event[m] = "none"
      /\ UNCHANGED <<draft, web, effects>>
      /\ event'[m] # "none" /\ \A n \in Messages : n # m => event'[n] = event[n]
  BY DEF Accept, Fresh, history
<1>2. \A g \in Deliveries : delivery[g].pc # "idle" => delivery[g].msg # m
  BY <1>1 DEF Taken
<1>3. Untouched(m)
  BY <1>1 DEF NewUntouched
<1>4. /\ \A g \in Deliveries : g # h => delivery'[g] = delivery[g]
      /\ delivery'[h].pc # "idle" => delivery'[h].pc = "accepted" /\ delivery'[h].msg = m
  BY <1>1 DEF Accept, IdleDelivery
<1>5. Taken'
  BY <1>1, <1>4 DEF Taken
<1>6. Alone'
  BY <1>2, <1>4 DEF Alone
<1>7. NewUntouched' /\ EachMessageOnce'
  BY <1>1 DEF NewUntouched, Untouched, EachMessageOnce
<1>8. WorkUntouched'
  BY <1>1, <1>3, <1>4 DEF WorkUntouched, Untouched, BeforeEffect
<1>9. Named'
  BY <1>1, <1>4 DEF Named
<1> QED
  BY <1>5, <1>6, <1>7, <1>8, <1>9

LEMMA OnceStep == OnceInv /\ [Next]_vars => OnceInv'
<1> SUFFICES ASSUME OnceInv, [Next]_vars PROVE OnceInv'
  OBVIOUS
<1>0. TypeInv /\ TypeInv'
  BY TypeStep DEF OnceInv
<1>1. ASSUME NEW h \in Deliveries, Process(h) PROVE OnceInv'
  BY <1>0, <1>1, ProcessOnce DEF OnceInv
<1>2. ASSUME NEW h \in Deliveries, NEW m \in Messages, Accept(h, m) PROVE OnceInv'
  BY <1>0, <1>2, AcceptOnce DEF OnceInv
<1>3. CASE Crash
  <2>1. /\ UNCHANGED <<event, draft, web, effects>>
        /\ \A h \in Deliveries : delivery'[h].pc = "idle"
    BY <1>3, IdleTypes DEF Crash
  <2> QED
    BY <1>0, <2>1 DEF OnceInv, Taken, Alone, NewUntouched, WorkUntouched, Untouched, Named,
                      EachMessageOnce, BeforeEffect
<1>4. ASSUME NEW v \in WebRequests, WebCommit(v) PROVE OnceInv'
  <2>1. /\ UNCHANGED <<event, delivery, effects>> /\ web' = [web EXCEPT ![v] = IdleWeb]
        /\ web[v] # IdleWeb
    BY <1>4 DEF WebCommit
  <2>2. \A m \in Media : draft'[m] # draft[m] => draft'[m] # "absent" /\ draft[m] # "absent"
    BY <1>0, <1>4, <2>1 DEF WebCommit, CreateFacts, OnceInv, Named, TypeInv, TypeOK
  <2>3. \A w \in WebRequests : web'[w] # IdleWeb => web'[w] = web[w]
    BY <1>0, <2>1 DEF TypeInv, TypeOK
  <2>4. NewUntouched' /\ WorkUntouched' /\ Named'
    BY <2>1, <2>2, <2>3 DEF OnceInv, NewUntouched, WorkUntouched, Untouched, Named, BeforeEffect
  <2> QED
    BY <1>0, <2>1, <2>4 DEF OnceInv, Taken, Alone, EachMessageOnce
<1>5. ASSUME NEW v \in WebRequests, NEW op \in {"confirm", "cancel"}, NEW m \in Media,
             WebRead(v, op, m)
      PROVE  OnceInv'
  <2>1. /\ UNCHANGED <<event, draft, delivery, effects>>
        /\ draft[m] # "absent" /\ web'[v].draft = m
        /\ \A w \in WebRequests : w # v => web'[w] = web[w]
    BY <1>0, <1>5 DEF WebRead, TypeInv, TypeOK, history
  <2>2. Named'
    BY <2>1 DEF OnceInv, Named
  <2> QED
    BY <1>0, <2>1, <2>2 DEF OnceInv, Taken, Alone, NewUntouched, WorkUntouched, Untouched,
                            EachMessageOnce, BeforeEffect
<1>6. CASE UNCHANGED vars
  BY <1>0, <1>6 DEF vars, OnceInv, Taken, Alone, NewUntouched, WorkUntouched, Untouched, Named,
                    EachMessageOnce, BeforeEffect
<1> QED
  BY <1>1, <1>2, <1>3, <1>4, <1>5, <1>6 DEF Next, Duplicate

(* A message makes at most one draft or one decision, however often it is  *)
(* delivered and wherever the gateway dies (_process_one_message).         *)
THEOREM GatewayEachMessageOnce == Spec => []EachMessageOnce
<1>1. OnceInv => EachMessageOnce
  BY DEF OnceInv
<1> QED
  BY <1>1, OnceInit, OnceStep, PTL DEF Spec

-----------------------------------------------------------------------------
RaceParts == OpenUnconfirmed /\ OneFirst /\ FirstUncounted /\ RepeatedOnlyByRace

(* No confirmation begins and none creates rows.                           *)
LEMMA QuietRace ==
  ASSUME RaceInv, UNCHANGED <<facts, raced>>,
         \A m \in Media : draft'[m] \in OpenDraft => draft[m] \in OpenDraft,
         \A m \in Media :
           /\ \A h \in Deliveries : FirstReply(h, m)' => FirstReply(h, m)
           /\ \A v \in WebRequests : FirstWeb(v, m)' => FirstWeb(v, m)
  PROVE  RaceParts'
<1> USE DEF RaceInv
<1>1. OpenUnconfirmed'
  BY DEF OpenUnconfirmed, OpenDraft
<1>2. OneFirst'
  BY DEF OneFirst
<1>3. FirstUncounted'
  BY DEF FirstUncounted
<1>4. RepeatedOnlyByRace'
  BY DEF RepeatedOnlyByRace
<1> QED
  BY <1>1, <1>2, <1>3, <1>4 DEF RaceParts

(* A confirmation of n begins: if it is a first one it is the only one.    *)
LEMMA BeginRace ==
  ASSUME RaceInv, NEW n \in Media, draft[n] \in OpenDraft, UNCHANGED <<draft, facts, raced>>,
         \A m \in Media :
           /\ \A h \in Deliveries : FirstReply(h, m)' =>
                FirstReply(h, m) \/ (m = n /\ \A v \in WebRequests : ~FirstWeb(v, n)')
           /\ \A v \in WebRequests : FirstWeb(v, m)' =>
                \/ FirstWeb(v, m)
                \/ /\ m = n /\ \A h \in Deliveries : ~FirstReply(h, n)'
                   /\ \A w \in WebRequests : FirstWeb(w, n)' => w = v
  PROVE  RaceParts'
<1> USE DEF RaceInv
<1>0. facts[n] = 0 /\ facts \in [Media -> Nat] /\ raced \in [Media -> Nat]
  BY DEF OpenUnconfirmed, OnceInv, TypeInv, TypeOK
<1>1. OpenUnconfirmed' /\ RepeatedOnlyByRace'
  BY DEF OpenUnconfirmed, OpenDraft, RepeatedOnlyByRace
<1>2. OneFirst'
  BY DEF OneFirst
<1>3. FirstUncounted'
  BY <1>0 DEF FirstUncounted
<1> QED
  BY <1>1, <1>2, <1>3 DEF RaceParts

(* A confirmation of n creates its rows: a first one has met no other that *)
(* is a first one too, and is over.                                        *)
LEMMA CreateRace ==
  ASSUME RaceInv, NEW n \in Media, NEW rival \in BOOLEAN, CreateFacts(n, rival),
         \A m \in Media :
           /\ \A h \in Deliveries : FirstReply(h, m)' => FirstReply(h, m)
           /\ \A v \in WebRequests : FirstWeb(v, m)' => FirstWeb(v, m),
         ~rival =>
           /\ facts[n] <= raced[n]
           /\ \A h \in Deliveries : ~FirstReply(h, n)'
           /\ \A v \in WebRequests : ~FirstWeb(v, n)'
  PROVE  RaceParts'
<1> USE DEF RaceInv
<1>0. /\ facts \in [Media -> Nat] /\ raced \in [Media -> Nat]
      /\ draft \in [Media -> {"absent", "preview", "needs_input", "confirmed", "cancelled"}]
  BY DEF OnceInv, TypeInv, TypeOK
<1>1. /\ draft'[n] = "confirmed" /\ facts'[n] = facts[n] + 1
      /\ raced'[n] = IF rival THEN raced[n] + 1 ELSE raced[n]
      /\ \A m \in Media : m # n =>
            draft'[m] = draft[m] /\ facts'[m] = facts[m] /\ raced'[m] = raced[m]
  BY <1>0 DEF CreateFacts
<1>2. OpenUnconfirmed'
  BY <1>1 DEF OpenUnconfirmed, OpenDraft
<1>3. OneFirst'
  BY DEF OneFirst
<1>4. FirstUncounted'
  <2>1. rival => (facts[n] <= raced[n] => facts'[n] <= raced'[n])
    BY <1>0, <1>1
  <2> QED
    BY <1>1, <2>1 DEF FirstUncounted
<1>5. RepeatedOnlyByRace'
  BY <1>0, <1>1 DEF RepeatedOnlyByRace
<1> QED
  BY <1>2, <1>3, <1>4, <1>5 DEF RaceParts

(* A delivery that is not resolving afterwards.                            *)
LEMMA OffRace ==
  ASSUME RaceInv, UNCHANGED <<web, facts, raced>>,
         \A m \in Media : draft'[m] \in OpenDraft => draft[m] \in OpenDraft,
         \A g \in Deliveries : delivery'[g].pc = "resolving" => delivery'[g] = delivery[g]
  PROVE  RaceParts'
<1>1. \A m \in Media :
        /\ \A h \in Deliveries : FirstReply(h, m)' => FirstReply(h, m)
        /\ \A v \in WebRequests : FirstWeb(v, m)' => FirstWeb(v, m)
  BY DEF FirstReply, FirstWeb
<1> QED
  BY <1>1, QuietRace

LEMMA ProcessRace ==
  ASSUME RaceInv, NEW h \in Deliveries, Process(h)
  PROVE  RaceParts'
<1>0. /\ OnceInv /\ TypeOK /\ delivery[h] \in DeliveryState
      /\ delivery \in [Deliveries -> DeliveryState]
  BY DEF RaceInv, OnceInv, TypeInv, TypeOK
<1>1. CASE \/ MediaRefused(h) \/ AnalysisFails(h) \/ Answer(h)
           \/ Orchestrate(h) \/ ConfirmRefused(h)
  <2>1. Finish(h) /\ UNCHANGED <<draft, web, facts, raced>>
    BY <1>1 DEF MediaRefused, AnalysisFails, Answer, Orchestrate, ConfirmRefused, history
  <2>2. \A g \in Deliveries : delivery'[g].pc = "resolving" => delivery'[g] = delivery[g]
    BY <1>0, <2>1, IdleTypes DEF Finish
  <2> QED
    BY <2>1, <2>2, OffRace
<1>2. CASE MediaFetched(h) \/ MediaInsert(h) \/ ClaimSlot(h)
  <2>1. /\ \E pc \in {"inserting", "analyzing", "answering"} : GoOn(h, pc)
        /\ UNCHANGED <<draft, web, facts, raced>>
    BY <1>2 DEF MediaFetched, MediaInsert, ClaimSlot, history
  <2>2. \A g \in Deliveries : delivery'[g].pc = "resolving" => delivery'[g] = delivery[g]
    BY <1>0, <2>1 DEF GoOn, DeliveryState
  <2> QED
    BY <2>1, <2>2, OffRace
<1>3. ASSUME NEW outcome \in {"preview", "needs_input"}, NEW complete \in BOOLEAN,
             Analyzed(h, outcome, complete)
      PROVE  RaceParts'
  <2>1. /\ \E pc \in {"analyzed", "answering"} : GoOn(h, pc)
        /\ UNCHANGED <<web, facts, raced>>
        /\ draft' = [draft EXCEPT ![delivery[h].msg] = outcome]
        /\ delivery[h].pc = "analyzing"
    BY <1>3 DEF Analyzed
  <2>2. \A g \in Deliveries : delivery'[g].pc = "resolving" => delivery'[g] = delivery[g]
    BY <1>0, <2>1 DEF GoOn, DeliveryState
  <2>3. delivery[h].msg \in Media /\ draft[delivery[h].msg] = "absent"
    BY <2>1, <1>0 DEF OnceInv, TypeInv, MediaWork, WorkUntouched, Untouched, BeforeEffect
  <2>4. \A m \in Media : draft'[m] \in OpenDraft => draft[m] \in OpenDraft
    BY <1>0, <2>1, <2>3 DEF TypeOK, OpenDraft
  <2> QED
    BY <2>1, <2>2, <2>4, OffRace
<1>4. CASE ResolveRead(h)
  <2>a. delivery[h].pc = "accepted" /\ UNCHANGED <<draft, web, facts, raced>>
    BY <1>4 DEF ResolveRead, OnReply, history
  <2>b. PICK n \in Media : n = delivery[h].pending
    BY <1>0, <1>4 DEF ResolveRead, OnReply, DeliveryState
  <2>0. delivery[h].pending = n /\ UNCHANGED <<draft, web, facts, raced>>
    BY <2>a, <2>b
  <2>1. CASE Resolvable(n)
    <3>1. delivery' = [delivery EXCEPT ![h].pc = "resolving", ![h].rival = Confirming(n)]
      BY <1>4, <2>0, <2>1 DEF ResolveRead
    <3>2. /\ delivery'[h].pending = n /\ delivery'[h].msg = delivery[h].msg
          /\ delivery'[h].rival = Confirming(n)
          /\ \A g \in Deliveries : g # h => delivery'[g] = delivery[g]
      BY <1>0, <2>0, <3>1 DEF DeliveryState
    <3>3. \A m \in Media, v \in WebRequests : FirstWeb(v, m)' => FirstWeb(v, m)
      BY <2>0 DEF FirstWeb
    <3>4. ~Confirming(n) => \A v \in WebRequests : ~FirstWeb(v, n)'
      BY <2>0 DEF Confirming, FirstWeb
    <3>5. \A m \in Media, g \in Deliveries : FirstReply(g, m)' =>
            FirstReply(g, m) \/ (m = n /\ \A v \in WebRequests : ~FirstWeb(v, n)')
      BY <3>2, <3>4 DEF FirstReply
    <3>6. draft[n] \in OpenDraft
      BY <2>1 DEF Resolvable, OpenDraft
    <3> QED
      BY <2>0, <3>3, <3>5, <3>6, BeginRace
  <2>2. CASE ~Resolvable(n)
    <3>1. GoOn(h, "answering")
      BY <1>4, <2>0, <2>2 DEF ResolveRead
    <3>2. \A g \in Deliveries : delivery'[g].pc = "resolving" => delivery'[g] = delivery[g]
      BY <1>0, <3>1 DEF GoOn, DeliveryState
    <3> QED
      BY <2>0, <3>2, OffRace
  <2> QED
    BY <2>1, <2>2
<1>5. CASE CancelPending(h)
  <2>1. /\ GoOn(h, "answering") /\ UNCHANGED <<web, facts, raced>>
        /\ draft' = [draft EXCEPT ![delivery[h].pending] = "cancelled"]
    BY <1>5 DEF CancelPending
  <2>2. \A g \in Deliveries : delivery'[g].pc = "resolving" => delivery'[g] = delivery[g]
    BY <1>0, <2>1 DEF GoOn, DeliveryState
  <2>3. \A m \in Media : draft'[m] \in OpenDraft => draft[m] \in OpenDraft
    BY <1>0, <2>1 DEF TypeOK, OpenDraft
  <2> QED
    BY <2>1, <2>2, <2>3, OffRace
<1>6. CASE ConfirmPending(h)
  <2>a. /\ delivery[h].pc = "resolving" /\ Kind[delivery[h].msg] = "confirm"
        /\ CreateFacts(delivery[h].pending, delivery[h].rival)
        /\ GoOn(h, "answering") /\ UNCHANGED web
    BY <1>6 DEF ConfirmPending
  <2>2. PICK n \in Media, rival \in BOOLEAN :
          n = delivery[h].pending /\ rival = delivery[h].rival
    BY <1>0, <2>a DEF OnceInv, Named, DeliveryState
  <2>1. /\ delivery[h].pc = "resolving" /\ Kind[delivery[h].msg] = "confirm"
        /\ CreateFacts(n, rival) /\ GoOn(h, "answering") /\ UNCHANGED web
    BY <2>a, <2>2
  <2>3. /\ delivery'[h].pc = "answering"
        /\ \A g \in Deliveries : g # h => delivery'[g] = delivery[g]
    BY <1>0, <2>1 DEF GoOn, DeliveryState
  <2>4. \A m \in Media :
          /\ \A g \in Deliveries : FirstReply(g, m)' => FirstReply(g, m)
          /\ \A v \in WebRequests : FirstWeb(v, m)' => FirstWeb(v, m)
    BY <2>1, <2>3 DEF FirstReply, FirstWeb
  <2>5. \A g \in Deliveries : ~FirstReply(g, n)'
    BY <1>0, <2>1, <2>3 DEF TypeOK, OnLoop, Blocking, FirstReply
  <2>6. ASSUME ~rival
        PROVE  facts[n] <= raced[n] /\ \A v \in WebRequests : ~FirstWeb(v, n)'
    <3>1. FirstReply(h, n)
      BY <2>1, <2>2, <2>6 DEF FirstReply
    <3> QED
      BY <2>2, <2>4, <3>1 DEF RaceInv, FirstUncounted, OneFirst
  <2> QED
    BY <2>1, <2>2, <2>4, <2>5, <2>6, CreateRace
<1> QED
  BY <1>1, <1>2, <1>3, <1>4, <1>5, <1>6 DEF Process

(* The web application's confirmation ends; a first one was the only one.  *)
LEMMA WebCommitRace ==
  ASSUME RaceInv, NEW v \in WebRequests, WebCommit(v)
  PROVE  RaceParts'
<1>0. OnceInv /\ TypeOK
  BY DEF RaceInv, OnceInv, TypeInv
<1>1. PICK n \in Media, rival \in BOOLEAN : n = web[v].draft /\ rival = web[v].rival
  BY <1>0 DEF WebCommit, OnceInv, Named, TypeOK, WebState
<1>2. /\ web'[v] = IdleWeb /\ UNCHANGED delivery
      /\ \A w \in WebRequests : w # v => web'[w] = web[w]
  BY <1>0 DEF WebCommit, TypeOK
<1>3. \A m \in Media :
        /\ \A h \in Deliveries : FirstReply(h, m)' => FirstReply(h, m)
        /\ \A w \in WebRequests : FirstWeb(w, m)' => w # v /\ FirstWeb(w, m)
  BY <1>2, IdleTypes DEF FirstReply, FirstWeb
<1>4. CASE web[v].op = "confirm" /\ CreateFacts(n, rival)
  <2>1. ASSUME ~rival
        PROVE  /\ facts[n] <= raced[n]
               /\ \A h \in Deliveries : ~FirstReply(h, n)'
               /\ \A w \in WebRequests : ~FirstWeb(w, n)'
    <3>1. FirstWeb(v, n)
      BY <1>1, <1>4, <2>1 DEF FirstWeb
    <3> QED
      BY <1>3, <3>1 DEF RaceInv, FirstUncounted, OneFirst
  <2> QED
    BY <1>3, <1>4, <2>1, CreateRace
<1>5. CASE UNCHANGED <<facts, raced>> /\ (UNCHANGED draft \/ draft' = [draft EXCEPT ![n] = "cancelled"])
  <2>1. \A m \in Media : draft'[m] \in OpenDraft => draft[m] \in OpenDraft
    BY <1>0, <1>5 DEF TypeOK, OpenDraft
  <2> QED
    BY <1>3, <1>5, <2>1, QuietRace
<1> QED
  BY <1>1, <1>4, <1>5 DEF WebCommit

LEMMA WebReadRace ==
  ASSUME RaceInv, NEW v \in WebRequests, NEW op \in {"confirm", "cancel"}, NEW n \in Media,
         WebRead(v, op, n)
  PROVE  RaceParts'
<1>0. OnceInv /\ TypeOK
  BY DEF RaceInv, OnceInv, TypeInv
<1>1. /\ draft[n] \in OpenDraft /\ UNCHANGED <<draft, facts, raced, delivery>>
      /\ web[v] = IdleWeb
  BY DEF WebRead, OpenDraft, history
<1>2. /\ web'[v].op = op /\ web'[v].draft = n
      /\ web'[v].rival = (op = "confirm" /\ Confirming(n))
      /\ \A w \in WebRequests : w # v => web'[w] = web[w]
  BY <1>0 DEF WebRead, TypeOK
<1>3. \A m \in Media, h \in Deliveries : FirstReply(h, m)' <=> FirstReply(h, m)
  BY <1>1 DEF FirstReply
<1>4. \A m \in Media, w \in WebRequests : w # v => (FirstWeb(w, m)' <=> FirstWeb(w, m))
  BY <1>2 DEF FirstWeb
<1>5. ~Confirming(n) =>
        /\ \A h \in Deliveries : ~FirstReply(h, n)
        /\ \A w \in WebRequests : ~FirstWeb(w, n)
  BY DEF Confirming, FirstReply, FirstWeb
<1>6. \A m \in Media : FirstWeb(v, m)' => m = n /\ ~Confirming(n)
  BY <1>2 DEF FirstWeb
<1>7. \A m \in Media, w \in WebRequests :
        FirstWeb(w, m)' =>
          \/ FirstWeb(w, m)
          \/ /\ m = n /\ \A h \in Deliveries : ~FirstReply(h, n)'
             /\ \A u \in WebRequests : FirstWeb(u, n)' => u = w
  BY <1>3, <1>4, <1>5, <1>6
<1> QED
  BY <1>1, <1>3, <1>7, BeginRace

LEMMA RaceStep == RaceInv /\ [Next]_vars => RaceInv'
<1> SUFFICES ASSUME RaceInv, [Next]_vars PROVE RaceInv'
  OBVIOUS
<1>0. OnceInv /\ OnceInv' /\ TypeOK
  BY OnceStep DEF RaceInv, OnceInv, TypeInv
<1>1. SUFFICES RaceParts'
  BY <1>0 DEF RaceInv, RaceParts
<1>2. ASSUME NEW h \in Deliveries, Process(h) PROVE RaceParts'
  BY <1>2, ProcessRace
<1>3. ASSUME NEW h \in Deliveries, NEW m \in Messages, Accept(h, m) PROVE RaceParts'
  <2>1. \A g \in Deliveries : delivery'[g].pc = "resolving" => delivery'[g] = delivery[g]
    BY <1>0, <1>3 DEF Accept, IdleDelivery, TypeOK
  <2> QED
    BY <1>3, <2>1, OffRace DEF Accept, history
<1>4. CASE Crash
  <2>1. \A g \in Deliveries : delivery'[g].pc # "resolving"
    BY <1>4, IdleTypes DEF Crash
  <2> QED
    BY <1>4, <2>1, OffRace DEF Crash
<1>5. ASSUME NEW v \in WebRequests, WebCommit(v) PROVE RaceParts'
  BY <1>5, WebCommitRace
<1>6. ASSUME NEW v \in WebRequests, NEW op \in {"confirm", "cancel"}, NEW m \in Media,
             WebRead(v, op, m)
      PROVE  RaceParts'
  BY <1>6, WebReadRace
<1>7. CASE UNCHANGED vars
  BY <1>7, OffRace DEF vars
<1> QED
  BY <1>2, <1>3, <1>4, <1>5, <1>6, <1>7 DEF Next, Duplicate

LEMMA RaceInit == Init => RaceInv
<1> SUFFICES ASSUME Init PROVE RaceInv
  OBVIOUS
<1>1. /\ \A h \in Deliveries : delivery[h].pc = "idle"
      /\ \A v \in WebRequests : web[v].op = "none"
  BY IdleTypes DEF Init
<1>2. OpenUnconfirmed /\ RepeatedOnlyByRace
  BY DEF Init, OpenUnconfirmed, RepeatedOnlyByRace
<1>3. OneFirst /\ FirstUncounted
  BY <1>1 DEF OneFirst, FirstUncounted, FirstReply, FirstWeb
<1> QED
  BY <1>2, <1>3, OnceInit DEF RaceInv

(* The rows of a draft are created again only by confirmations that        *)
(* overlap, from WhatsApp and the web in any number                        *)
(* (_resolve_pending_capture_reply, _confirm_capture_items).               *)
THEOREM GatewayRepeatedOnlyByRace == Spec => []RepeatedOnlyByRace
<1>1. RaceInv => RepeatedOnlyByRace
  BY DEF RaceInv
<1> QED
  BY <1>1, RaceInit, RaceStep, PTL DEF Spec

=============================================================================
