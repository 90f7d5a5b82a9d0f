---------------------------- MODULE ShadowRecords ----------------------------
(* The thing shadow's book-keeping (aws_iot_shadow_records.c and              *)
(* aws_iot_shadow_actions.c): which requests wait for an answer               *)
(* (AckWaitList), which answer topics are subscribed (SubscriptionList), and   *)
(* the handler table of the MQTT client, whose entries point at the topic     *)
(* strings of SubscriptionList.  One thread uses the shadow; a subscribe or   *)
(* an unsubscribe waits for its acknowledgement and delivers messages          *)
(* meanwhile, so that calls nest: they are a stack of frames.                 *)
EXTENDS Naturals, Sequences

CONSTANTS
  Actions,           \* the kinds of request on a thing: update, get, delete
  MaxRequests,       \* bounds the client token's sequence number
  MaxAcks,           \* MAX_ACKS_TO_COMEIN_AT_ANY_GIVEN_TIME
  MaxTopics,         \* MAX_TOPICS_AT_ANY_GIVEN_TIME
  MaxHandlers,       \* AWS_IOT_MQTT_NUM_SUBSCRIBE_HANDLERS left to answers
  Failing,           \* the MQTT calls that may fail for a reason of their own
  CallbackRequests,  \* whether an answer's callback makes requests
  Reconnects,        \* whether the application connects again
  MaxDepth           \* bounds the nesting of calls

ASSUME ConstantsAssumption ==
  /\ Actions # {}
  /\ {MaxRequests, MaxAcks, MaxTopics, MaxHandlers, MaxDepth} \subseteq Nat
  /\ Failing \subseteq {"subscribe", "unsubscribe", "publish"}
  /\ CallbackRequests \in BOOLEAN /\ Reconnects \in BOOLEAN

Tokens == 1 .. MaxRequests
Kinds == {"accepted", "rejected"}
\* A topic string; <<>> is the one never written.
Topics == (Actions \X Kinds) \cup {<<>>}
Slots == 1 .. MaxAcks
Entries == 1 .. MaxTopics
Handlers == 1 .. MaxHandlers

\* The points where a call stands: about to do something, in the wait of a
\* subscribe or unsubscribe, or in the application's callback.
Waits == {"waitAccepted", "waitRejected", "waitClear", "waitUnsubscribe"}
RequestPoints == {"subscribe", "waitAccepted", "subscribeRejected",
                  "waitRejected", "clear", "waitClear", "publish"}
EndingPoints == {"callback", "unsubscribe", "waitUnsubscribe"}

\* A call in progress, from the point of view of one record (slot): a request
\* that will fill it in (aws_iot_shadow_internal_action), or the end of one, by
\* an answer (AckStatusCallback) or a timeout (HandleExpiredResponseCallbacks).
\* accepted and rejected are indices into SubscriptionList, 0 for the code's
\* -1; handler is one into the handler table; kind says which of its topics an
\* ending call has come to.
Frame ==
  [op : {"request"}, pc : RequestPoints, slot : Slots, token : Tokens,
   action : Actions, kind : Kinds, sticky : BOOLEAN, ok : BOOLEAN,
   accepted : Entries \cup {0}, rejected : Entries \cup {0},
   handler : Handlers \cup {0}]
  \cup
  [op : {"deliver", "expire"}, pc : EndingPoints, slot : Slots,
   token : Tokens \cup {0},
   action : Actions, kind : Kinds, sticky : BOOLEAN, ok : BOOLEAN,
   accepted : Entries \cup {0}, rejected : Entries \cup {0},
   handler : Handlers \cup {0}]

\* The members of AckWaitList and of SubscriptionList.
Record == [inUse : BOOLEAN, token : Tokens \cup {0}, action : Actions]
Entry == [inUse : BOOLEAN, topic : Topics, count : 0 .. 255, sticky : BOOLEAN]

VARIABLES
  acks,      \* AckWaitList
  subs,      \* SubscriptionList
  handlers,  \* messageHandlers: the entry whose Topic it points at, 0 if free
  late,      \* the records whose timer has run out
  stack,     \* the calls in progress, outermost first
  seq,       \* clientTokenNum
  sent,      \* requests published whose answer has not been read
  accepted,  \* history: requests whose call returned AWS_SUCCESS
  told       \* history: how often each request's callback was called

vars == <<acks, subs, handlers, late, stack, seq, sent, accepted, told>>

TypeOK ==
  /\ acks \in [Slots -> Record]
  /\ subs \in [Entries -> Entry]
  /\ handlers \in [Handlers -> Entries \cup {0}]
  /\ late \subseteq Slots
  /\ stack \in Seq(Frame)
  /\ seq \in 0 .. MaxRequests
  /\ sent \subseteq Tokens \X Actions
  /\ accepted \subseteq Tokens
  /\ told \in [Tokens -> Nat]

AnyAction == CHOOSE a \in Actions : TRUE

Init ==
  /\ acks = [i \in Slots |-> [inUse |-> FALSE, token |-> 0,
                              action |-> AnyAction]]
  /\ subs = [e \in Entries |-> [inUse |-> FALSE, topic |-> <<>>, count |-> 0,
                                sticky |-> FALSE]]
  /\ handlers = [h \in Handlers |-> 0]
  /\ late = {} /\ stack = <<>> /\ seq = 0 /\ sent = {} /\ accepted = {}
  /\ told = [r \in Tokens |-> 0]
-----------------------------------------------------------------------------
(* Calls and lists. *)

Top == stack[Len(stack)]
At(pc) == stack # <<>> /\ Top.pc = pc
Replace(f) == stack' = [stack EXCEPT ![Len(stack)] = f]
Goto(pc) == Replace([Top EXCEPT !.pc = pc])
Leave == stack' = SubSeq(stack, 1, Len(stack) - 1)

\* i is what a search from index 0 up finds in S: its least element, or none.
Finds(i, S) == IF S = {} THEN i = 0 ELSE i \in S /\ \A j \in S : i <= j

\* Mutant: the index search looks at no isFree.
AnySlots == Slots
FreeSlots == {i \in Slots : ~acks[i].inUse}
FreeEntries == {e \in Entries : ~subs[e].inUse}
EntriesOf(topic) == {e \in Entries : subs[e].inUse /\ subs[e].topic = topic}
FreeHandlers == {h \in Handlers : handlers[h] = 0}
\* A handler's topic is the string its entry holds now, in use or not.
HandlersOf(topic) ==
  {h \in Handlers : handlers[h] # 0 /\ subs[handlers[h]].topic = topic}
\* Mutant: the handler table is left as it is.
KeepHandled(topic) == UNCHANGED handlers /\ topic \in Topics
Unhandle(topic) ==
  handlers' = [h \in Handlers |-> IF h \in HandlersOf(topic) THEN 0
                                                             ELSE handlers[h]]
-----------------------------------------------------------------------------
(* A request: update, get or delete with a callback. *)

SubscriptionPresent(action) ==
  \A kind \in Kinds : EntriesOf(<<action, kind>>) # {}

NewRequest(action, sticky, slot) ==
  [op |-> "request", pc |-> "publish", token |-> seq + 1, action |-> action,
   kind |-> "accepted", sticky |-> sticky, ok |-> TRUE, slot |-> slot,
   accepted |-> 0, rejected |-> 0, handler |-> 0]

\* The record's index is chosen here and filled in by Publish.
Request(action, sticky) ==
  /\ stack = <<>> \/ (CallbackRequests /\ At("callback"))
  /\ Len(stack) < MaxDepth /\ seq < MaxRequests
  /\ seq' = seq + 1
  /\ \/ /\ FreeSlots = {}
        /\ UNCHANGED <<stack, subs>>
     \/ \E slot \in Slots :
          /\ Finds(slot, FreeSlots)
          /\ \/ /\ SubscriptionPresent(action)
                /\ subs' = [e \in Entries |->
                     IF \E kind \in Kinds : e \in EntriesOf(<<action, kind>>)
                     THEN [subs[e] EXCEPT !.count = (@ + 1) % 256,
                                          !.sticky = sticky]
                     ELSE subs[e]]
                /\ stack' = Append(stack, NewRequest(action, sticky, slot))
             \/ /\ ~SubscriptionPresent(action)
                /\ \E a, r \in Entries \cup {0} :
                     /\ Finds(a, FreeEntries) /\ Finds(r, FreeEntries \ {a})
                     /\ subs' = [e \in Entries |->
                          [subs[e] EXCEPT
                            !.inUse = @ \/ e \in {a, r},
                            !.topic = IF e = a /\ r # 0
                                      THEN <<action, "accepted">> ELSE @]]
                     /\ stack' = Append(stack,
                          [NewRequest(action, sticky, slot) EXCEPT
                            !.pc = IF r # 0 THEN "subscribe" ELSE "clear",
                            !.accepted = a, !.rejected = r])
  /\ UNCHANGED <<acks, handlers, late, sent, accepted, told>>

\* A subscribe finds a free handler, sends and waits; or it fails.
Subscribe ==
  /\ At("subscribe") \/ At("subscribeRejected")
  /\ \/ \E h \in Handlers :
          /\ Finds(h, FreeHandlers)
          /\ Replace([Top EXCEPT !.handler = h,
                        !.pc = IF @ = "subscribe" THEN "waitAccepted"
                                                  ELSE "waitRejected"])
     \/ /\ FreeHandlers = {} \/ "subscribe" \in Failing
        /\ Replace([Top EXCEPT !.pc = "clear", !.ok = FALSE])
  /\ UNCHANGED <<acks, subs, handlers, late, seq, sent, accepted, told>>

SubscribeFails ==
  /\ At("waitAccepted") \/ At("waitRejected")
  /\ "subscribe" \in Failing
  /\ Replace([Top EXCEPT !.pc = "clear", !.ok = FALSE])
  /\ UNCHANGED <<acks, subs, handlers, late, seq, sent, accepted, told>>

SubscribedAccepted ==
  /\ At("waitAccepted")
  /\ handlers' = [handlers EXCEPT ![Top.handler] = Top.accepted]
  /\ subs' = [e \in Entries |->
       [subs[e] EXCEPT
         !.count = IF e = Top.accepted THEN 1 ELSE @,
         !.sticky = IF e = Top.accepted THEN Top.sticky ELSE @,
         !.topic = IF e = Top.rejected THEN <<Top.action, "rejected">> ELSE @]]
  /\ Goto("subscribeRejected")
  /\ UNCHANGED <<acks, late, seq, sent, accepted, told>>

\* Both subscribed; the settling time that follows reads no messages.
SubscribedRejected ==
  /\ At("waitRejected")
  /\ handlers' = [handlers EXCEPT ![Top.handler] = Top.rejected]
  /\ subs' = [subs EXCEPT
       ![Top.rejected] = [@ EXCEPT !.count = 1, !.sticky = Top.sticky]]
  /\ Goto("publish")
  /\ UNCHANGED <<acks, late, seq, sent, accepted, told>>

\* Where a request goes once its entries are cleared: the return code is still
\* AWS_SUCCESS when there was no pair of free entries.
Cleared == IF Top.ok THEN Goto("publish") ELSE Leave

\* clearBothEntriesFromList: only the first of the two entries is given back.
\* Without any entry, SubscriptionList[-1] is read; whatever it holds, it is no
\* handler's topic and an unsubscribe would do nothing.
Clear ==
  /\ At("clear")
  /\ subs' = [e \in Entries |->
       [subs[e] EXCEPT
         !.inUse = @ /\ e # (IF Top.accepted # 0 THEN Top.accepted
                                                 ELSE Top.rejected)]]
  /\ IF Top.accepted # 0 /\ subs[Top.accepted].count = 1
     THEN \/ HandlersOf(subs[Top.accepted].topic) # {} /\ Goto("waitClear")
          \/ /\ \/ HandlersOf(subs[Top.accepted].topic) = {}
                \/ "unsubscribe" \in Failing
             /\ Cleared
     ELSE Cleared
  /\ UNCHANGED <<acks, handlers, late, seq, sent, accepted, told>>

EndClear ==
  /\ At("waitClear")
  /\ \/ Unhandle(subs[Top.accepted].topic)
     \/ "unsubscribe" \in Failing /\ UNCHANGED handlers
  /\ Cleared
  /\ UNCHANGED <<acks, subs, late, seq, sent, accepted, told>>

\* Mutant: the record is added whatever publishing says.
PublishTracked ==
  /\ At("publish")
  /\ acks' = [acks EXCEPT ![Top.slot] =
       [inUse |-> TRUE, token |-> Top.token, action |-> Top.action]]
  /\ late' = late \ {Top.slot}
  /\ \/ /\ sent' = sent \cup {<<Top.token, Top.action>>}
        /\ accepted' = accepted \cup {Top.token}
     \/ "publish" \in Failing /\ UNCHANGED <<sent, accepted>>
  /\ Leave
  /\ UNCHANGED <<subs, handlers, seq, told>>

\* Publish the document and, if that succeeds, add the record and start its
\* timer; no message is read in between.
Publish ==
  /\ At("publish")
  /\ \/ /\ acks' = [acks EXCEPT ![Top.slot] =
             [inUse |-> TRUE, token |-> Top.token, action |-> Top.action]]
        /\ late' = late \ {Top.slot}
        /\ sent' = sent \cup {<<Top.token, Top.action>>}
        /\ accepted' = accepted \cup {Top.token}
     \/ /\ "publish" \in Failing
        /\ UNCHANGED <<acks, late, sent, accepted>>
  /\ Leave
  /\ UNCHANGED <<subs, handlers, seq, told>>
-----------------------------------------------------------------------------
(* Answers and timeouts. *)

Ending(op, slot) ==
  [op |-> op, pc |-> "callback", token |-> acks[slot].token,
   action |-> acks[slot].action, kind |-> "accepted", sticky |-> FALSE,
   ok |-> TRUE, slot |-> slot, accepted |-> 0, rejected |-> 0, handler |-> 0]

Tell(slot) == told' = [told EXCEPT ![acks[slot].token] = @ + 1]

\* The answer to a request is read, by yield or in the wait of another call,
\* and given to AckStatusCallback if its topic has a handler.  A topic that has
\* two is handled twice, but the second finds no record of that token.
Deliver(answer, kind) ==
  /\ answer \in sent
  /\ stack = <<>> \/ \E pc \in Waits : At(pc)
  /\ Len(stack) < MaxDepth
  /\ sent' = sent \ {answer}
  /\ LET found == {i \in Slots : acks[i].inUse /\ acks[i].token = answer[1]}
     IN IF HandlersOf(<<answer[2], kind>>) = {} \/ found = {}
        THEN UNCHANGED <<stack, told>>
        ELSE \E slot \in Slots :
               /\ Finds(slot, found)
               /\ stack' = Append(stack, Ending("deliver", slot))
               /\ Tell(slot)
  /\ UNCHANGED <<acks, subs, handlers, late, seq, accepted>>

\* Mutant: the search starts one record too late.
ExpiredAfter(slot) == {i \in Slots : i > slot + 1 /\ acks[i].inUse /\ i \in late}
\* aws_iot_shadow_yield takes the first record whose timer has run out; when
\* there is none it goes on to read messages.
Expired(slot) == {i \in Slots : i > slot /\ acks[i].inUse /\ i \in late}
Yield ==
  /\ stack = <<>>
  /\ \/ Expired(0) = {} /\ UNCHANGED <<stack, told>>
     \/ \E slot \in Slots : /\ Finds(slot, Expired(0))
                            /\ stack' = <<Ending("expire", slot)>>
                            /\ Tell(slot)
  /\ UNCHANGED <<acks, subs, handlers, late, seq, sent, accepted>>

\* Mutant: the expired record stays in use.
EndCallbackOnly ==
  /\ At("callback")
  /\ Replace([Top EXCEPT !.pc = "unsubscribe",
                         !.action = acks[Top.slot].action])
  /\ UNCHANGED <<acks, subs, handlers, late, seq, sent, accepted, told>>

\* The callback returns.  Only an expired record is given back right away.
EndCallback ==
  /\ At("callback")
  /\ Replace([Top EXCEPT !.pc = "unsubscribe",
                         !.action = acks[Top.slot].action])
  /\ acks' = IF Top.op = "expire" THEN [acks EXCEPT ![Top.slot].inUse = FALSE]
                                  ELSE acks
  /\ UNCHANGED <<subs, handlers, late, seq, sent, accepted, told>>

\* What follows one topic of unsubscribeFromAcceptedAndRejected: the other
\* topic, or the end of AckStatusCallback, or the next expired record.
Proceed ==
  CASE Top.kind = "accepted" ->
         /\ Replace([Top EXCEPT !.pc = "unsubscribe", !.kind = "rejected"])
         /\ UNCHANGED <<acks, told>>
    [] Top.kind = "rejected" /\ Top.op = "deliver" ->
         /\ Leave
         /\ acks' = [acks EXCEPT ![Top.slot].inUse = FALSE]
         /\ UNCHANGED told
    [] OTHER ->
         /\ \/ Expired(Top.slot) = {} /\ Leave /\ UNCHANGED told
            \/ \E slot \in Slots : /\ Finds(slot, Expired(Top.slot))
                                   /\ Replace(Ending("expire", slot))
                                   /\ Tell(slot)
         /\ UNCHANGED acks

\* Mutant: the count is not asked.
NotSticky(e) == ~subs[e].sticky
LastWaiting(e) == ~subs[e].sticky /\ subs[e].count = 1

\* Mutant: the count goes down, whatever it is, and nothing is unsubscribed.
CountDown ==
  /\ At("unsubscribe")
  /\ \E e \in EntriesOf(<<Top.action, Top.kind>>) :
       subs' = [subs EXCEPT ![e].count = @ - 1]
  /\ Proceed
  /\ UNCHANGED <<handlers, late, seq, sent, accepted>>

\* One topic loses a waiting request: the last one unsubscribes it.
Unsubscribe ==
  /\ At("unsubscribe")
  /\ LET topic == <<Top.action, Top.kind>>
     IN \E e \in Entries \cup {0} :
          /\ Finds(e, EntriesOf(topic))
          /\ \/ /\ e # 0 /\ LastWaiting(e)
                /\ \/ /\ HandlersOf(topic) # {}
                      /\ Replace([Top EXCEPT !.pc = "waitUnsubscribe",
                                             !.accepted = e])
                      /\ UNCHANGED <<acks, told>>
                   \/ /\ HandlersOf(topic) = {} \/ "unsubscribe" \in Failing
                      /\ Proceed
                /\ UNCHANGED subs
             \/ /\ e # 0 /\ subs[e].count > 1
                /\ subs' = [subs EXCEPT ![e].count = @ - 1]
                /\ Proceed
             \/ /\ e # 0 /\ \/ subs[e].count = 0
                            \/ subs[e].sticky /\ subs[e].count = 1
                /\ Proceed
                /\ UNCHANGED subs
             \/ e = 0 /\ Proceed /\ UNCHANGED subs
  /\ UNCHANGED <<handlers, late, seq, sent, accepted>>

EndUnsubscribe ==
  /\ At("waitUnsubscribe")
  /\ \/ /\ Unhandle(<<Top.action, Top.kind>>)
        /\ subs' = [subs EXCEPT ![Top.accepted].inUse = FALSE]
     \/ /\ "unsubscribe" \in Failing
        /\ UNCHANGED <<handlers, subs>>
  /\ Proceed
  /\ UNCHANGED <<late, seq, sent, accepted>>

\* A record's timer runs out.
TimeOut(slot) ==
  /\ acks[slot].inUse /\ slot \notin late
  /\ late' = late \cup {slot}
  /\ UNCHANGED <<acks, subs, handlers, stack, seq, sent, accepted, told>>

\* The application disconnects and connects again: initializeRecords.  The
\* handler table is kept; answers on the way are lost with the session.
Reconnect ==
  /\ Reconnects /\ stack = <<>>
  /\ acks' = [i \in Slots |-> [acks[i] EXCEPT !.inUse = FALSE]]
  /\ subs' = [e \in Entries |-> [subs[e] EXCEPT !.inUse = FALSE, !.count = 0,
                                                !.sticky = FALSE]]
  /\ sent' = {}
  /\ UNCHANGED <<handlers, late, stack, seq, accepted, told>>
-----------------------------------------------------------------------------
\* What the code does next in a call in progress.
Continue ==
  \/ Subscribe \/ SubscribeFails \/ SubscribedAccepted \/ SubscribedRejected
  \/ Clear \/ EndClear \/ Publish
  \/ EndCallback \/ Unsubscribe \/ EndUnsubscribe

Next ==
  \/ \E action \in Actions, sticky \in BOOLEAN : Request(action, sticky)
  \/ Continue
  \/ \E answer \in sent, kind \in Kinds : Deliver(answer, kind)
  \/ Yield
  \/ \E slot \in Slots : TimeOut(slot)
  \/ Reconnect

Spec == Init /\ [][Next]_vars

\* Every wait ends by the command timeout and every callback returns; the
\* application calls aws_iot_shadow_yield again and again, which looks at the
\* timers; and time passes.
Fairness == /\ WF_vars(Continue) /\ WF_vars(Yield)
            /\ \A slot \in Slots : WF_vars(TimeOut(slot))

FairSpec == Spec /\ Fairness
-----------------------------------------------------------------------------
(* Properties. *)

\* A request whose call failed is never answered: its callback runs only if
\* aws_iot_shadow_update, get or delete returned AWS_SUCCESS.
OnlyAcceptedAnswered == \A r \in Tokens : told[r] > 0 => r \in accepted

\* A request's callback is called at most once, though an answer and the
\* timeout race and the record of an answered request stays in the list while
\* its topics are unsubscribed (AckStatusCallback, HandleExpiredResponseCallbacks).
AnsweredOnce == \A r \in Tokens : told[r] <= 1

\* A request accepted and not yet answered is in AckWaitList, where its answer
\* finds it and its timeout ends it ("ensures the expired requests of Shadow
\* actions are cleared and Timeout callback is executed").
NothingLost ==
  \A r \in accepted :
    told[r] = 0 => \E i \in Slots : acks[i].inUse /\ acks[i].token = r

\* While a request waits, both of its answer topics have a handler: counting
\* the requests of a topic up and down never unsubscribes it too early.
WaitingIsSubscribed ==
  \A i \in Slots :
    acks[i].inUse /\ told[acks[i].token] = 0 =>
      \A kind \in Kinds : HandlersOf(<<acks[i].action, kind>>) # {}

\* The MQTT client's handlers point at topic strings of SubscriptionList: an
\* entry is not given back, to be overwritten, while a handler points at it.
HandlersNameLiveEntries == \A h \in Handlers :
                             handlers[h] # 0 => subs[handlers[h]].inUse

\* Every request accepted is answered in the end: accepted, rejected or timed
\* out.
EveryRequestAnswered ==
  \A r \in Tokens : r \in accepted ~> told[r] > 0
=============================================================================
