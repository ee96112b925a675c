--------------------------- MODULE WhatsAppGateway ---------------------------
(***************************************************************************)
(* The WhatsApp gateway for one authorized number: webhook deliveries of   *)
(* inbound messages (the provider may deliver one many times), the media   *)
(* capture pipeline, the pending-capture slot of the number, and the       *)
(* replies that confirm or cancel the pending draft, next to the web       *)
(* application acting on the same drafts.  (app/whatsapp_gateway_app.py,   *)
(* app/services/whatsapp_gateway.py, app/api.py "captures".)               *)
(*                                                                         *)
(* The gateway is one process with one event loop: a delivery gives the    *)
(* loop away only while a file is analysed in a thread.  Its database      *)
(* calls block the loop, one that waits for another transaction too.  The  *)
(* web application is another process and runs between any two steps.      *)
(* A draft has the name of the message that made it.                       *)
(***************************************************************************)
EXTENDS Naturals

CONSTANTS Messages,    \* provider message ids of one number
          Kind,        \* Kind[m]: "media", "confirm", "cancel" or "text"
          File,        \* File[m]: the content a media message carries
          NoMessage,
          Deliveries,  \* concurrent webhook requests of the gateway
          WebRequests, \* concurrent cancel/confirm requests of the web application
          MaxCrashes   \* bound: crashes of the gateway

Media == {m \in Messages : Kind[m] = "media"}

ASSUME GatewayBounds == MaxCrashes \in Nat

ASSUME GatewayMessages ==
    /\ Kind \in [Messages -> {"media", "confirm", "cancel", "text"}]
    /\ DOMAIN File = Media
    /\ NoMessage \notin Messages

VARIABLES
    pointer,   \* WhatsAppAuthorizedNumber.pending_capture_id
    event,     \* event[m]: WhatsAppInboundEvent.status, "done" once finalized
    stored,    \* contents with a committed Document
    draft,     \* draft[m]: CaptureDraft.status, "absent" before
    facts,     \* facts[m]: confirmations of the draft that created rows
    delivery,  \* delivery[h]: where a delivery is; pending is what its session
               \* holds as the number's pending_capture_id, rival whether it
               \* met another confirmation
    web,       \* web[v]: a request of the web application and what it has read
    crashes,
    effects,   \* history: effects[m], drafts and decisions m has produced
    raced,     \* history: raced[m], those of facts[m] that had begun while
               \* another was in progress on the same draft
    lost       \* history: messages in progress when the gateway died

vars == <<pointer, event, stored, draft, facts, delivery, web, crashes,
          effects, raced, lost>>
history == <<effects, raced, lost>>

Finalized == {"unauthorized", "rate_limited", "done"}
IdleDelivery == [pc |-> "idle", msg |-> NoMessage, pending |-> NoMessage, rival |-> FALSE]
IdleWeb == [op |-> "none", draft |-> NoMessage, rival |-> FALSE]

Init ==
    /\ pointer = NoMessage
    /\ event = [m \in Messages |-> "none"]
    /\ stored = {}
    /\ draft = [m \in Media |-> "absent"]
    /\ facts = [m \in Media |-> 0]
    /\ delivery = [h \in Deliveries |-> IdleDelivery]
    /\ web = [v \in WebRequests |-> IdleWeb]
    /\ crashes = 0
    /\ effects = [m \in Messages |-> 0]
    /\ raced = [m \in Media |-> 0]
    /\ lost = {}

-----------------------------------------------------------------------------
(* The event loop *)

Blocking == {"accepted", "inserting", "analyzed", "resolving", "answering"}

OnLoop(h) == delivery[h].pc \in Blocking

LoopFree == \A h \in Deliveries : ~OnLoop(h)

GoOn(h, pc) == delivery' = [delivery EXCEPT ![h].pc = pc]

FinishUnrecorded(h) ==   \* mutant: a branch that returns without finalizing
    /\ event' = event
    /\ delivery' = [delivery EXCEPT ![h] = IdleDelivery]

(* finalize_inbound_event: the delivery is over. *)
Finish(h) ==
    /\ event' = [event EXCEPT ![delivery[h].msg] = "done"]
    /\ delivery' = [delivery EXCEPT ![h] = IdleDelivery]

Effect(m) == effects' = [effects EXCEPT ![m] = @ + 1]

-----------------------------------------------------------------------------
(* _process_one_message: the claim *)

FreshOrUnfinished(m) == event[m] \in {"none", "accepted"}   \* mutant: an interrupted message is taken again

(* is_duplicate_message. *)
Fresh(m) == event[m] = "none"

AcceptAnyTime(h, m) ==   \* mutant: a delivery does not wait for the event loop
    /\ delivery[h].pc = "idle"
    /\ Fresh(m)
    /\ event' = [event EXCEPT ![m] = "accepted"]
    /\ delivery' = [delivery EXCEPT ![h] =
                      [IdleDelivery EXCEPT !.pc = "accepted", !.msg = m,
                                                 !.pending = pointer]]
    /\ UNCHANGED <<pointer, stored, draft, facts, web, crashes, history>>

(* The rate limit, the sender's row and the inbound event, one commit: the  *)
(* event is what makes a later delivery of the same message a duplicate.    *)
(* Whether the sender is over its limit or no longer authorized is open.    *)
Accept(h, m) ==
    /\ delivery[h].pc = "idle" /\ LoopFree
    /\ Fresh(m)
    /\ \/ /\ event' = [event EXCEPT ![m] = "accepted"]
          /\ delivery' = [delivery EXCEPT ![h] =
                            [IdleDelivery EXCEPT !.pc = "accepted", !.msg = m,
                                                 !.pending = pointer]]
       \/ /\ \E refusal \in {"rate_limited", "unauthorized"} :
               event' = [event EXCEPT ![m] = refusal]
          /\ UNCHANGED delivery
    /\ UNCHANGED <<pointer, stored, draft, facts, web, crashes, history>>

(* A message known already: the delivery returns at once. *)
Duplicate(h, m) ==
    /\ delivery[h].pc = "idle" /\ LoopFree
    /\ ~Fresh(m)
    /\ UNCHANGED vars

-----------------------------------------------------------------------------
(* _run_media_reply *)

(* _load_actionable_pending_capture: the session's pointer, the draft as it *)
(* is now.                                                                  *)
Actionable(m) == m # NoMessage /\ draft[m] = "preview"

OnMedia(h) == delivery[h].pc = "accepted" /\ delivery[h].msg \in Media

(* A pending capture first, a file seen before, a fetch or a type refused.  *)
MediaRefused(h) ==
    /\ OnMedia(h)
    /\ Finish(h)
    /\ UNCHANGED <<pointer, stored, draft, facts, web, crashes, history>>

(* No capture is pending, the file is fetched and no Document has it.       *)
MediaFetched(h) ==
    /\ OnMedia(h)
    /\ ~Actionable(delivery[h].pending)
    /\ File[delivery[h].msg] \notin stored
    /\ GoOn(h, "inserting")
    /\ UNCHANGED <<pointer, event, stored, draft, facts, web, crashes, history>>

InsertedBy(g, file) == delivery[g].pc = "analyzing" /\ File[delivery[g].msg] = file

(* The Document is inserted and the analysis starts in a thread.  The       *)
(* INSERT waits, on the event loop, while another transaction has inserted  *)
(* the same content (uq_document_household_sha).                            *)
MediaInsert(h) ==
    /\ delivery[h].pc = "inserting"
    /\ \A g \in Deliveries : ~InsertedBy(g, File[delivery[h].msg])
    /\ GoOn(h, "analyzing")
    /\ UNCHANGED <<pointer, event, stored, draft, facts, web, crashes, history>>

(* _analyze_and_persist_capture and the commit.  "needs_input" and a draft  *)
(* without an account are answered; only a complete preview goes on.        *)
Analyzed(h, outcome, complete) ==
    LET m == delivery[h].msg IN
    /\ delivery[h].pc = "analyzing" /\ LoopFree
    /\ complete => outcome = "preview"
    /\ draft' = [draft EXCEPT ![m] = outcome]
    /\ stored' = stored \cup {File[m]}
    /\ Effect(m)
    /\ GoOn(h, IF complete THEN "analyzed" ELSE "answering")
    /\ UNCHANGED <<pointer, event, facts, web, crashes, raced, lost>>

(* An exception: rollback, and the failure is recorded. *)
AnalysisFails(h) ==
    /\ delivery[h].pc = "analyzing" /\ LoopFree
    /\ Finish(h)
    /\ UNCHANGED <<pointer, stored, draft, facts, web, crashes, history>>

(* _claim_pending_capture_slot: the locking query returns the row the       *)
(* session already holds, so the pointer examined under the lock is the one *)
(* read when the message was accepted.                                      *)
ClaimSlot(h) ==
    /\ delivery[h].pc = "analyzed"
    /\ pointer' = IF Actionable(delivery[h].pending) THEN pointer ELSE delivery[h].msg
    /\ GoOn(h, "answering")
    /\ UNCHANGED <<event, stored, draft, facts, web, crashes, history>>

(* The reply is sent, best effort, and the event finalized. *)
Answer(h) ==
    /\ delivery[h].pc = "answering"
    /\ Finish(h)
    /\ UNCHANGED <<pointer, stored, draft, facts, web, crashes, history>>

-----------------------------------------------------------------------------
(* _resolve_pending_capture_reply *)

OnReply(h) ==
    /\ delivery[h].pc = "accepted"
    /\ Kind[delivery[h].msg] \in {"confirm", "cancel"}
    /\ delivery[h].pending # NoMessage

(* plan_and_execute, or the unsupported-content reply: nothing to do with   *)
(* captures.                                                                *)
Orchestrate(h) ==
    /\ delivery[h].pc = "accepted" /\ delivery[h].msg \notin Media /\ ~OnReply(h)
    /\ Finish(h)
    /\ UNCHANGED <<pointer, stored, draft, facts, web, crashes, history>>

(* The requests that have read m as confirmable and have not committed.     *)
Confirming(m) ==
    \/ \E h \in Deliveries : /\ delivery[h].pc = "resolving" /\ delivery[h].pending = m
                             /\ Kind[delivery[h].msg] = "confirm"
    \/ \E v \in WebRequests : web[v].op = "confirm" /\ web[v].draft = m

(* A confirmation creates the rows of m. *)
CreateFacts(m, rival) ==
    /\ draft' = [draft EXCEPT ![m] = "confirmed"]
    /\ facts' = [facts EXCEPT ![m] = @ + 1]
    /\ raced' = IF rival THEN [raced EXCEPT ![m] = @ + 1] ELSE raced

ResolvableAnyway(m) == draft[m] # "cancelled"   \* mutant: only a cancelled draft is refused

Resolvable(m) == draft[m] = "preview"

(* The draft is read; one no longer in preview only frees the slot.         *)
ResolveRead(h) ==
    LET m == delivery[h].pending IN
    /\ OnReply(h)
    /\ IF Resolvable(m)
       THEN /\ delivery' = [delivery EXCEPT ![h].pc = "resolving",
                                             ![h].rival = Confirming(m)]
            /\ UNCHANGED pointer
       ELSE GoOn(h, "answering") /\ pointer' = NoMessage
    /\ UNCHANGED <<event, stored, draft, facts, web, crashes, history>>

(* The draft is cancelled and the slot freed, by primary key.               *)
CancelPending(h) ==
    /\ delivery[h].pc = "resolving" /\ Kind[delivery[h].msg] = "cancel"
    /\ draft' = [draft EXCEPT ![delivery[h].pending] = "cancelled"]
    /\ pointer' = NoMessage
    /\ Effect(delivery[h].msg)
    /\ GoOn(h, "answering")
    /\ UNCHANGED <<event, stored, facts, web, crashes, raced, lost>>

(* _confirm_capture_items commits the rows, the draft and the free slot.    *)
ConfirmPending(h) ==
    LET m == delivery[h].pending IN
    /\ delivery[h].pc = "resolving" /\ Kind[delivery[h].msg] = "confirm"
    /\ CreateFacts(m, delivery[h].rival)
    /\ pointer' = NoMessage
    /\ Effect(delivery[h].msg)
    /\ GoOn(h, "answering")
    /\ UNCHANGED <<event, stored, web, crashes, lost>>

(* An item is refused, or the amount asks for "confirmar valor alto": all   *)
(* is rolled back and the draft stays pending.                              *)
ConfirmRefused(h) ==
    /\ delivery[h].pc = "resolving" /\ Kind[delivery[h].msg] = "confirm"
    /\ Finish(h)
    /\ UNCHANGED <<pointer, stored, draft, facts, web, crashes, history>>

-----------------------------------------------------------------------------
(* The world around the gateway *)

(* The gateway process dies: the deliveries in progress are gone, and what  *)
(* they had not committed.                                                  *)
Crash ==
    /\ crashes < MaxCrashes
    /\ \E h \in Deliveries : delivery[h].pc # "idle"
    /\ crashes' = crashes + 1
    /\ lost' = lost \cup ({delivery[h].msg : h \in Deliveries} \ {NoMessage})
    /\ delivery' = [h \in Deliveries |-> IdleDelivery]
    /\ UNCHANGED <<pointer, event, stored, draft, facts, web, effects, raced>>

(* cancel_capture and _confirm_capture_items from the web: the guard on the *)
(* draft's status, then the commit by primary key.  (A second cancel writes *)
(* nothing.)                                                                *)
WebRead(v, op, m) ==
    /\ web[v] = IdleWeb
    /\ draft[m] \in {"preview", "needs_input"}
    /\ web' = [web EXCEPT ![v] = [op |-> op, draft |-> m,
                                  rival |-> op = "confirm" /\ Confirming(m)]]
    /\ UNCHANGED <<pointer, event, stored, draft, facts, delivery, crashes, history>>

WebCommit(v) ==
    LET m == web[v].draft IN
    /\ web[v] # IdleWeb
    /\ \/ web[v].op = "confirm" /\ CreateFacts(m, web[v].rival)
       \/ web[v].op = "confirm" /\ UNCHANGED <<draft, facts, raced>>   \* an item refused
       \/ /\ web[v].op = "cancel"
          /\ draft' = [draft EXCEPT ![m] = "cancelled"]
          /\ UNCHANGED <<facts, raced>>
    /\ web' = [web EXCEPT ![v] = IdleWeb]
    /\ UNCHANGED <<pointer, event, stored, delivery, crashes, effects, lost>>

-----------------------------------------------------------------------------
Process(h) ==
    \/ MediaRefused(h) \/ MediaFetched(h) \/ MediaInsert(h)
    \/ \E outcome \in {"preview", "needs_input"}, complete \in BOOLEAN :
         Analyzed(h, outcome, complete)
    \/ AnalysisFails(h) \/ ClaimSlot(h) \/ Answer(h)
    \/ Orchestrate(h) \/ ResolveRead(h)
    \/ CancelPending(h) \/ ConfirmPending(h) \/ ConfirmRefused(h)

Next ==
    \/ \E h \in Deliveries : Process(h) \/ \E m \in Messages : Accept(h, m) \/ Duplicate(h, m)
    \/ Crash
    \/ \E v \in WebRequests :
         WebCommit(v) \/ \E op \in {"confirm", "cancel"}, m \in Media : WebRead(v, op, m)

Spec == Init /\ [][Next]_vars

(* The process goes on while it lives: an analysis ends and a transaction   *)
(* commits.  Nothing is assumed of the sender, the web or the provider.     *)
FairSpec == Spec /\ \A h \in Deliveries : WF_vars(Process(h))

-----------------------------------------------------------------------------
DeliveryState == [pc : {"idle", "analyzing"} \cup Blocking,
                  msg : Messages \cup {NoMessage}, pending : Media \cup {NoMessage},
                  rival : BOOLEAN]
WebState == [op : {"none", "confirm", "cancel"}, draft : Media \cup {NoMessage},
             rival : BOOLEAN]

(* Type invariant, and the event loop: one delivery at a time is anywhere   *)
(* but in the thread of its analysis.                                       *)
TypeOK ==
    /\ pointer \in Media \cup {NoMessage}
    /\ event \in [Messages -> {"none", "accepted"} \cup Finalized]
    /\ stored \subseteq {File[m] : m \in Media}
    /\ draft \in [Media -> {"absent", "preview", "needs_input", "confirmed", "cancelled"}]
    /\ facts \in [Media -> Nat]
    /\ delivery \in [Deliveries -> DeliveryState]
    /\ web \in [WebRequests -> WebState]
    /\ crashes \in 0 .. MaxCrashes
    /\ effects \in [Messages -> Nat] /\ raced \in [Media -> Nat]
    /\ lost \subseteq Messages
    /\ \A g, h \in Deliveries : OnLoop(g) /\ OnLoop(h) => g = h

(* However often the provider delivers a message, and wherever the gateway  *)
(* dies, the message makes at most one draft or one decision (the inbound   *)
(* event committed before the work).                                        *)
EachMessageOnce == \A m \in Messages : effects[m] <= 1

(* Confirmations of one draft, by WhatsApp or the web, create its rows      *)
(* again only when they overlap: one that begins after another has ended    *)
(* finds the draft resolved, whatever the slot still points to (the status  *)
(* checks of _resolve_pending_capture_reply and _confirm_capture_items).    *)
RepeatedOnlyByRace == \A m \in Media : facts[m] <= 1 + raced[m]

(* Every accepted message is finalized, unless the gateway died with it.    *)
MessagesEnd ==
    \A m \in Messages : event[m] = "accepted" ~> event[m] = "done" \/ m \in lost

(* "never silently overwriting it": the slot leaves a draft only when the   *)
(* draft is no longer waiting for its answer (_claim_pending_capture_slot). *)
PendingSlotKept ==
    [][Actionable(pointer) /\ pointer' # pointer => draft'[pointer] # "preview"]_vars

(* "a household resending the same photo": the second message is answered,  *)
(* as every message is (_run_media_reply).                                  *)
ResentFileAnswered ==
    \A m \in Media : event[m] = "accepted" ~> event[m] = "done" \/ m \in lost
=============================================================================
