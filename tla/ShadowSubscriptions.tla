------------------------- MODULE ShadowSubscriptions -------------------------
(* While a shadow request waits for its answer both of its answer topics have *)
(* a handler, and the handlers name live entries of SubscriptionList: proofs  *)
(* for any actions, lists large enough for all their topics, calls nested to  *)
(* any depth, and publishes that fail.                                        *)
EXTENDS ShadowRecordsProofs, FiniteSetTheorems

\* What the theorems assume.  There is room for every topic, and only publishing
\* fails: shadow_full shows what is lost without.  A count is a byte, and a
\* publish that fails leaves it one too high.
RoomForAll ==
  /\ IsFiniteSet(Actions)
  /\ 2 * Cardinality(Actions) <= MaxTopics
  /\ 2 * Cardinality(Actions) <= MaxHandlers
  /\ MaxRequests <= 255
  /\ Failing \subseteq {"publish"}
  /\ ~CallbackRequests /\ ~Reconnects

-----------------------------------------------------------------------------
(* The invariant. *)

\* The calls in progress, and those below the innermost one.
Calls == {stack[k] : k \in Depths}
Below == {stack[k] : k \in 1 .. Len(stack) - 1}

\* A request on its way to a new pair of topics.  Until accepted is subscribed
\* rejected is in use with the topic string of its former use, and an entry has no
\* handler until its subscribe has ended.
Opening(f) == f.op = "request" /\ f.pc # "publish"
Unwritten == {f.rejected : f \in {g \in Calls : Opening(g) /\
                                    g.pc \in {"subscribe", "waitAccepted"}}}
Unready == Unwritten
  \cup {f.accepted : f \in {g \in Calls : Opening(g) /\
                              g.pc \in {"subscribe", "waitAccepted"}}}
  \cup {f.rejected : f \in {g \in Calls : Opening(g)}}
Written == {e \in Entries : subs[e].inUse} \ Unwritten
Live(topic) == {e \in Written : subs[e].topic = topic}

\* The records on whose behalf the topic of an action is subscribed: those of
\* requests that wait for their answer, of the request about to be published, and
\* of the ends of requests that have not yet come to the topic.
Waiting(action) ==
  {i \in Slots : /\ acks[i].inUse /\ acks[i].action = action
                 /\ told[acks[i].token] = 0}
Claims(f, kind) == IF f.op = "request" THEN f.pc = "publish"
                   ELSE kind = "rejected" \/ f.kind = "accepted"
Holders(action, kind) ==
  Waiting(action)
  \cup {f.slot : f \in {g \in Calls : g.action = action /\ Claims(g, kind)}}

\* A topic that has holders is subscribed and counts at least as many.
Supplied(action) ==
  \A kind \in Kinds :
    /\ Holders(action, kind) # {} => Live(<<action, kind>>) # {}
    /\ \A e \in Live(<<action, kind>>) :
         Cardinality(Holders(action, kind)) <= subs[e].count

\* The two topics of an action are subscribed together and count alike, but
\* while a request is opening them or an end is between them.
Opens(action) == \E f \in Calls : f.action = action /\ Opening(f)
Passed(action) ==
  \E f \in Calls : f.action = action /\ f.op # "request" /\ f.kind = "rejected"
Alike(e, g) == subs[e].count = subs[g].count /\ subs[e].sticky = subs[g].sticky
\* accepted was counted down, or left for being sticky.
CountedDown(e, g) ==
  /\ subs[e].sticky = subs[g].sticky
  /\ subs[e].count = IF subs[g].count > 1 THEN subs[g].count - 1
                                           ELSE subs[g].count
Paired(action) ==
  LET a == Live(<<action, "accepted">>)
      r == Live(<<action, "rejected">>)
  IN /\ ~Opens(action) /\ ~Passed(action) =>
          /\ a = {} <=> r = {}
          /\ \A e \in a, g \in r : Alike(e, g)
     /\ Passed(action) =>
          \A g \in r : IF LastWaiting(g) THEN a = {}
                       ELSE a # {} /\ \A e \in a : CountedDown(e, g)

\* What a call in progress knows of the lists.
OpeningFits(f) ==
  /\ f.pc \in {"subscribe", "waitAccepted", "subscribeRejected", "waitRejected"}
  /\ {f.accepted, f.rejected} \subseteq Entries /\ f.accepted # f.rejected
  /\ subs[f.accepted].inUse /\ subs[f.rejected].inUse
  /\ subs[f.accepted].topic = <<f.action, "accepted">>
  /\ f.pc \in {"subscribe", "waitAccepted"} =>
       \A e \in Entries \ {f.rejected} :
         subs[e].topic = <<f.action, "rejected">> =>
           ~subs[e].inUse /\ f.rejected < e
  /\ f.pc \in {"subscribeRejected", "waitRejected"} =>
       /\ subs[f.rejected].topic = <<f.action, "rejected">>
       /\ subs[f.accepted].count = 1 /\ subs[f.accepted].sticky = f.sticky
  /\ f.pc \in Waits => f.handler \in Handlers /\ handlers[f.handler] = 0
  /\ \A kind \in Kinds : Holders(f.action, kind) = {}

CallFits(f) ==
  /\ Opening(f) => OpeningFits(f)
  /\ f.op = "deliver" \/ f.pc = "callback" => f.action = acks[f.slot].action
  /\ f.pc = "callback" => f.kind = "accepted"
  /\ f.pc = "waitUnsubscribe" => /\ f.accepted \in Live(<<f.action, f.kind>>)
                                 /\ LastWaiting(f.accepted)

ActionsApart == \A k, l \in Depths : k # l => stack[k].action # stack[l].action

\* A topic string is written once among the entries in use, and comes before
\* any entry that still has it from a former use: a search finds it.
EntriesApart ==
  /\ \A e \in Written : subs[e].topic # <<>>
  /\ \A e \in Written : \A g \in Entries \ {e} :
       subs[g].topic = subs[e].topic => g \notin Written /\ e < g

HandlersFit ==
  /\ {handlers[h] : h \in Handlers} \ {0}
       = {e \in Entries : subs[e].inUse} \ Unready
  /\ \A h, i \in Handlers : handlers[h] = handlers[i] /\ handlers[h] # 0 => h = i

\* No count exceeds the requests made, so none wraps.
CountsFit == \A e \in Entries : subs[e].count <= seq

Subscriptions ==
  /\ \A f \in Calls : CallFits(f)
  /\ ActionsApart /\ EntriesApart /\ HandlersFit /\ CountsFit
  /\ \A action \in Actions : Supplied(action) /\ Paired(action)

SubInv == ExactInv /\ Subscriptions

-----------------------------------------------------------------------------
(* The set of calls in progress, and how a step changes it. *)

\* The calls in progress are frames; the one on top is not below another.
LEMMA CallsAre ==
  ASSUME ExactInv
  PROVE  /\ TypeOK /\ Calls \subseteq Frame /\ Below \subseteq Calls
         /\ \A f \in Calls : FrameFits(f) /\ f.slot \in Slots
         /\ \A f \in Below : f.pc \in Waits
         /\ stack = <<>> => Calls = {} /\ Below = {}
         /\ stack # <<>> => /\ Calls = Below \cup {Top} /\ Top \in Calls
                            /\ Top.op # "deliver" => Below = {}
<1>1. TypeOK /\ stack \in Seq(Frame) /\ Len(stack) \in Nat
  BY DEF ExactInv, AnswerInv, TypeOK
<1>2. \A k \in Depths : stack[k] \in Frame BY <1>1 DEF Depths
<1>3. Calls \subseteq Frame BY <1>2 DEF Calls
<1>4. 1 .. Len(stack) - 1 \subseteq Depths BY <1>1 DEF Depths
<1>5. Below \subseteq Calls BY <1>4 DEF Below, Calls
<1>6. \A f \in Frame : f.slot \in Slots BY DEF Frame
<1>7. \A f \in Calls : FrameFits(f) BY DEF Calls, ExactInv, Exact, StackFits
<1>8. \A k \in 1 .. Len(stack) - 1 : k \in Depths /\ k < Len(stack)
  BY <1>1 DEF Depths
<1>9. \A f \in Below : f.pc \in Waits
  BY <1>8 DEF Below, ExactInv, Exact, StackFits
<1>10. ASSUME stack = <<>> PROVE Calls = {} /\ Below = {}
  <2>1. Len(stack) = 0 BY <1>10
  <2>2. Depths = {} /\ 1 .. Len(stack) - 1 = {} BY <2>1 DEF Depths
  <2>. QED BY <2>2 DEF Calls, Below
<1>11. ASSUME stack # <<>>
       PROVE  /\ Calls = Below \cup {Top} /\ Top \in Calls
              /\ Top.op # "deliver" => Below = {}
  <2>1. /\ Len(stack) \in Nat \ {0} /\ Top = stack[Len(stack)]
        /\ Top.op # "deliver" => Len(stack) = 1
    BY <1>11, TopFits
  <2>2. Depths = (1 .. Len(stack) - 1) \cup {Len(stack)} BY <2>1 DEF Depths
  <2>3. Calls = Below \cup {Top} BY <2>1, <2>2 DEF Calls, Below
  <2>4. Len(stack) = 1 => 1 .. Len(stack) - 1 = {} BY <2>1
  <2>. QED BY <2>1, <2>3, <2>4 DEF Below
<1>. QED BY <1>1, <1>3, <1>5, <1>6, <1>7, <1>9, <1>10, <1>11

\* The innermost call moves, a call is entered, or the innermost one left.
LEMMA CallsReplaced ==
  ASSUME TypeOK, stack # <<>>, NEW f \in Frame, Replace(f)
  PROVE  Calls' = Below \cup {f} /\ Below' = Below /\ Depths' = Depths
<1>1. Len(stack) \in Nat \ {0} BY TopType
<1>2. /\ Len(stack') = Len(stack) /\ stack'[Len(stack)] = f
      /\ \A k \in 1 .. Len(stack) - 1 : stack'[k] = stack[k]
  BY ReplaceShape
<1>3. Depths' = (1 .. Len(stack) - 1) \cup {Len(stack)} BY <1>1, <1>2 DEF Depths
<1>. QED BY <1>1, <1>2, <1>3 DEF Calls, Below, Depths

\* Entering a call adds its frame.
LEMMA CallsEntered ==
  ASSUME TypeOK, NEW f \in Frame, stack' = Append(stack, f)
  PROVE  Calls' = Calls \cup {f}
<1>1. Len(stack) \in Nat BY DEF TypeOK
<1>2. /\ Len(stack') = Len(stack) + 1 /\ stack'[Len(stack) + 1] = f
      /\ \A k \in 1 .. Len(stack) : stack'[k] = stack[k]
  BY EnterShape
<1>3. Depths' = Depths \cup {Len(stack) + 1} BY <1>1, <1>2 DEF Depths
<1>. QED BY <1>1, <1>2, <1>3 DEF Calls, Depths

\* Leaving the top call leaves the ones below.
LEMMA CallsLeft ==
  ASSUME TypeOK, stack # <<>>, Leave
  PROVE  Calls' = Below
<1>1. Len(stack) \in Nat \ {0} BY TopType
<1>2. /\ Len(stack') = Len(stack) - 1
      /\ \A k \in 1 .. Len(stack) - 1 : stack'[k] = stack[k]
  BY LeaveShape
<1>3. Depths' = 1 .. Len(stack) - 1 BY <1>2 DEF Depths
<1>. QED BY <1>1, <1>2, <1>3 DEF Calls, Below

\* No two calls in progress are about one action.
LEMMA ApartKept ==
  ASSUME ExactInv, ActionsApart, stack # <<>>
  PROVE  /\ \A f \in Below : f.action # Top.action
         /\ Leave => ActionsApart'
         /\ \A f \in Frame :
              Replace(f) /\ (f.action = Top.action \/ Below = {})
                => ActionsApart'
<1>1. TypeOK /\ Len(stack) \in Nat \ {0} /\ Top = stack[Len(stack)]
  BY TopFits
<1>2. \A k \in 1 .. Len(stack) - 1 :
        k \in Depths /\ k # Len(stack)
  BY <1>1 DEF Depths
<1>3. Len(stack) \in Depths BY <1>1 DEF Depths
<1>4. \A f \in Below : f.action # Top.action
  BY <1>1, <1>2, <1>3 DEF Below, ActionsApart
<1>5. ASSUME Leave PROVE ActionsApart'
  <2>1. /\ Len(stack') = Len(stack) - 1
        /\ \A k \in 1 .. Len(stack) - 1 : stack'[k] = stack[k]
    BY <1>1, <1>5, LeaveShape
  <2>2. Depths' = 1 .. Len(stack) - 1 BY <2>1 DEF Depths
  <2>. QED BY <1>2, <2>1, <2>2 DEF ActionsApart
<1>6. ASSUME NEW f \in Frame, Replace(f), f.action = Top.action \/ Below = {}
      PROVE  ActionsApart'
  <2>1. /\ Len(stack') = Len(stack) /\ stack'[Len(stack)] = f
        /\ \A k \in 1 .. Len(stack) - 1 : stack'[k] = stack[k]
    BY <1>1, <1>6, ReplaceShape
  <2>2. /\ Depths' = Depths
        /\ \A k \in Depths : k = Len(stack) \/ k \in 1 .. Len(stack) - 1
    BY <1>1, <2>1 DEF Depths
  <2>3. CASE f.action = Top.action
    <3>1. \A k \in Depths : stack'[k].action = stack[k].action
      BY <1>1, <2>1, <2>2, <2>3
    <3>. QED BY <2>2, <3>1 DEF ActionsApart
  <2>4. CASE Below = {}
    <3>1. 1 .. Len(stack) - 1 = {} BY <2>4 DEF Below
    <3>. QED BY <2>2, <3>1 DEF ActionsApart
  <2>. QED BY <1>6, <2>3, <2>4
<1>. QED BY <1>4, <1>5, <1>6

-----------------------------------------------------------------------------
(* The records that hold a topic. *)

\* A topic is held by waiting records and by calls.
LEMMA HolderIs ==
  ASSUME NEW action, NEW kind
  PROVE  \A i : i \in Holders(action, kind) <=>
           \/ i \in Waiting(action)
           \/ \E f \in Calls : f.action = action /\ Claims(f, kind) /\ f.slot = i
BY DEF Holders

\* The same of the next state.
LEMMA HolderPrime ==
  ASSUME NEW action, NEW kind
  PROVE  \A i : i \in Holders(action, kind)' <=>
           \/ i \in Waiting(action)'
           \/ \E f \in Calls' : f.action = action /\ Claims(f, kind) /\ f.slot = i
BY DEF Holders, Claims

\* The holders of a topic can be counted.
LEMMA HoldersFinite ==
  ASSUME ExactInv, NEW action, NEW kind
  PROVE  /\ IsFiniteSet(Holders(action, kind))
         /\ Cardinality(Holders(action, kind)) \in Nat
         /\ Holders(action, kind) \subseteq Slots
<1>1. Holders(action, kind) \subseteq Slots
  BY CallsAre, HolderIs DEF Waiting
<1>2. IsFiniteSet(Slots) BY ConstantsAssumption, FS_Interval DEF Slots
<1>. QED BY <1>1, <1>2, FS_Subset, FS_CardinalityType

\* The fields of an entry have their types.
LEMMA EntryHas ==
  ASSUME TypeOK
  PROVE  \A e \in Entries : /\ subs[e] \in Entry
                            /\ subs[e].count \in Nat /\ subs[e].count <= 255
                            /\ subs[e].inUse \in BOOLEAN
                            /\ subs[e].sticky \in BOOLEAN
                            /\ subs[e].topic \in Topics
<1>1. \A e \in Entries : subs[e] \in Entry BY DEF TypeOK
<1>. QED BY <1>1 DEF Entry

-----------------------------------------------------------------------------
(* What stays when a step does not touch it. *)

\* An action whose entries, holders and ends stay as they are.
LEMMA ActionStays ==
  ASSUME SubInv, NEW action \in Actions,
         \A kind \in Kinds :
           /\ Live(<<action, kind>>)' = Live(<<action, kind>>)
           /\ Holders(action, kind)' \subseteq Holders(action, kind)
           /\ \A e \in Live(<<action, kind>>) :
                /\ subs'[e].count = subs[e].count
                /\ subs'[e].sticky = subs[e].sticky,
         Opens(action)' <=> Opens(action), Passed(action)' <=> Passed(action)
  PROVE  Supplied(action)' /\ Paired(action)'
<1>1. ExactInv /\ Supplied(action) /\ Paired(action)
  BY DEF SubInv, Subscriptions
<1>2. Supplied(action)'
  <2>. SUFFICES ASSUME NEW kind \in Kinds
                PROVE  /\ Holders(action, kind)' # {} =>
                            Live(<<action, kind>>)' # {}
                       /\ \A e \in Live(<<action, kind>>)' :
                            Cardinality(Holders(action, kind)')
                              <= subs'[e].count
    BY DEF Supplied
  <2>1. /\ Holders(action, kind) # {} => Live(<<action, kind>>) # {}
        /\ \A e \in Live(<<action, kind>>) :
             Cardinality(Holders(action, kind)) <= subs[e].count
    BY <1>1 DEF Supplied
  <2>2. /\ IsFiniteSet(Holders(action, kind))
        /\ Cardinality(Holders(action, kind)) \in Nat
    BY <1>1, HoldersFinite
  <2>3. Cardinality(Holders(action, kind)')
          <= Cardinality(Holders(action, kind))
        /\ Cardinality(Holders(action, kind)') \in Nat
    BY <2>2, FS_Subset, FS_CardinalityType
  <2>4. \A e \in Live(<<action, kind>>) : subs[e].count \in Nat
    BY <1>1, CallsAre, EntryHas DEF Live, Written
  <2>5. ASSUME NEW e \in Live(<<action, kind>>)
        PROVE  Cardinality(Holders(action, kind)') <= subs'[e].count
    <3>. HIDE DEF Holders
    <3>1. /\ subs'[e].count = subs[e].count /\ subs[e].count \in Nat
          /\ Cardinality(Holders(action, kind)) <= subs[e].count
      BY <2>1, <2>4
    <3>. QED BY <2>2, <2>3, <3>1
  <2>. QED BY <2>1, <2>5
<1>3. Paired(action)'
  <2>. DEFINE a == Live(<<action, "accepted">>)
              r == Live(<<action, "rejected">>)
  <2>1. a' = a /\ r' = r BY DEF Kinds
  <2>2. \A e \in a \cup r : /\ subs'[e].count = subs[e].count
                            /\ subs'[e].sticky = subs[e].sticky
    BY DEF Kinds
  <2>3. /\ ~Opens(action) /\ ~Passed(action) =>
             /\ a = {} <=> r = {}
             /\ \A e \in a, g \in r : Alike(e, g)
        /\ Passed(action) =>
             \A g \in r : IF LastWaiting(g) THEN a = {}
                          ELSE a # {} /\ \A e \in a : CountedDown(e, g)
    BY <1>1 DEF Paired
  <2>4. \A e \in a, g \in r :
          /\ Alike(e, g)' <=> Alike(e, g)
          /\ CountedDown(e, g)' <=> CountedDown(e, g)
    BY <2>2 DEF Alike, CountedDown
  <2>5. \A g \in r : LastWaiting(g)' <=> LastWaiting(g)
    BY <2>2 DEF LastWaiting
  <2>6. /\ ~Opens(action)' /\ ~Passed(action)' =>
             /\ a' = {} <=> r' = {}
             /\ \A e \in a', g \in r' : Alike(e, g)'
        /\ Passed(action)' =>
             \A g \in r' : IF LastWaiting(g)' THEN a' = {}
                           ELSE a' # {} /\ \A e \in a' : CountedDown(e, g)'
    <3>. HIDE DEF a, r
    <3>. QED BY <2>1, <2>3, <2>4, <2>5
  <2>. QED BY <2>6 DEF Paired
<1>. QED BY <1>2, <1>3

\* A call that is not the innermost one.
LEMMA CallStays ==
  ASSUME SubInv, NEW f \in Calls,
         acks'[f.slot].action = acks[f.slot].action,
         \A kind \in Kinds :
           /\ Holders(f.action, kind)' \subseteq Holders(f.action, kind)
           /\ Live(<<f.action, kind>>)' = Live(<<f.action, kind>>)
           /\ \A e \in Live(<<f.action, kind>>) : subs'[e] = subs[e],
         \A e \in Entries : /\ subs'[e].topic = subs[e].topic
                            /\ subs'[e].inUse => subs[e].inUse,
         Opening(f) => /\ subs'[f.accepted] = subs[f.accepted]
                       /\ subs'[f.rejected] = subs[f.rejected],
         \A h \in Handlers : handlers[h] = 0 => handlers'[h] = 0
  PROVE  CallFits(f)'
<1>1. CallFits(f) /\ f \in Frame
  BY CallsAre DEF SubInv, Subscriptions
<1>2. ASSUME Opening(f) PROVE OpeningFits(f)'
  BY <1>1, <1>2 DEF CallFits, OpeningFits
<1>3. ASSUME f.pc = "waitUnsubscribe"
      PROVE  /\ f.accepted \in Live(<<f.action, f.kind>>)'
             /\ LastWaiting(f.accepted)'
  BY <1>1, <1>3 DEF CallFits, Frame, LastWaiting
<1>. QED BY <1>1, <1>2, <1>3 DEF CallFits

\* Everything, when neither list nor the handler table changes, no request opens
\* its topics, and no call comes to its second topic.
LEMMA ListsKeep ==
  ASSUME SubInv, UNCHANGED <<subs, handlers>>, seq' \in Nat, seq <= seq',
         Unwritten' = Unwritten, Unready' = Unready,
         \A f \in Calls' :
           \/ f \in Calls /\ acks'[f.slot].action = acks[f.slot].action
           \/ CallFits(f)',
         \A action \in Actions :
           /\ \A kind \in Kinds :
                Holders(action, kind)' \subseteq Holders(action, kind)
           /\ (Passed(action)' <=> Passed(action))
           /\ (Opens(action)' <=> Opens(action)),
         ActionsApart'
  PROVE  Subscriptions'
<1>1. ExactInv /\ TypeOK /\ Subscriptions BY CallsAre DEF SubInv
<1>3. Written' = Written BY DEF Written
<1>4. \A topic : Live(topic)' = Live(topic)
  <2>. TAKE topic
  <2>. QED BY <1>3 DEF Live
<1>5. ASSUME NEW action \in Actions PROVE Supplied(action)' /\ Paired(action)'
  BY <1>4, ActionStays
<1>6. ASSUME NEW f \in Calls' PROVE CallFits(f)'
  <2>1. CASE f \in Calls /\ acks'[f.slot].action = acks[f.slot].action
    <3>1. f.action \in Actions BY <1>1, <2>1, CallsAre DEF Frame
    <3>. QED BY <1>1, <1>4, <2>1, <3>1, CallStays
  <2>. QED BY <2>1
<1>7. EntriesApart' BY <1>1, <1>3 DEF Subscriptions, EntriesApart
<1>8. HandlersFit' BY <1>1 DEF Subscriptions, HandlersFit
<1>9. CountsFit'
  <2>1. \A e \in Entries : subs[e].count \in Nat /\ subs[e].count <= seq
    BY <1>1, EntryHas DEF Subscriptions, CountsFit
  <2>2. seq \in Nat BY <1>1 DEF TypeOK
  <2>. QED BY <2>1, <2>2 DEF CountsFit
<1>. QED BY <1>5, <1>6, <1>7, <1>8, <1>9 DEF Subscriptions

\* Moreover no request is opened, and none moves on.
LEMMA RestKeeps ==
  ASSUME SubInv, UNCHANGED <<subs, handlers>>, seq' \in Nat, seq <= seq',
         \A f : Opening(f) => (f \in Calls' <=> f \in Calls),
         \A f \in Calls' :
           \/ f \in Calls /\ acks'[f.slot].action = acks[f.slot].action
           \/ CallFits(f)',
         \A action \in Actions :
           /\ \A kind \in Kinds :
                Holders(action, kind)' \subseteq Holders(action, kind)
           /\ Passed(action)' = Passed(action),
         ActionsApart'
  PROVE  Subscriptions'
<1>1. Unwritten' = Unwritten /\ Unready' = Unready
  BY DEF Unwritten, Unready
<1>2. \A action \in Actions : Opens(action)' = Opens(action) BY DEF Opens
<1>. QED BY <1>1, <1>2, ListsKeep

-----------------------------------------------------------------------------
(* Steps that leave the lists of topics and handlers alone. *)

\* The records and the calls do not change.
LEMMA QuietSub ==
  ASSUME SubInv, UNCHANGED <<acks, subs, handlers, stack, told>>,
         seq' = seq \/ seq' = seq + 1
  PROVE  Subscriptions'
<1>1. ExactInv /\ Subscriptions /\ seq \in Nat
  BY CallsAre DEF SubInv, TypeOK
<1>2. Depths' = Depths BY DEF Depths
<1>3. Calls' = Calls /\ ActionsApart'
  BY <1>1, <1>2 DEF Calls, Subscriptions, ActionsApart
<1>4. \A action : Waiting(action)' = Waiting(action)
  BY DEF Waiting
<1>5. \A action, kind : Holders(action, kind)' = Holders(action, kind)
  BY <1>3, <1>4 DEF Holders
<1>6. \A action : Passed(action)' = Passed(action) BY <1>3 DEF Passed
<1>. QED BY <1>1, <1>3, <1>5, <1>6, RestKeeps

\* A record whose request is told no longer waits.
LEMMA TellWaiting ==
  ASSUME ExactInv, NEW slot \in Slots, acks[slot].inUse,
         told[acks[slot].token] = 0, Tell(slot), UNCHANGED <<acks, accepted>>
  PROVE  /\ \A action : Waiting(action)' = Waiting(action) \ {slot}
         /\ slot \in Waiting(acks[slot].action)
<1>1. /\ told'[acks[slot].token] = 1
      /\ \A i \in Slots \ {slot} :
           acks[i].inUse => told'[acks[i].token] = told[acks[i].token]
  BY TellOnce
<1>. QED BY <1>1 DEF Waiting

\* A call that unsubscribes a topic is the last to hold it.
LEMMA WaitAlone ==
  ASSUME SubInv, NEW f \in Calls, f.pc = "waitUnsubscribe"
  PROVE  Holders(f.action, f.kind) = {f.slot}
<1>1. /\ ExactInv /\ CallFits(f) /\ f \in Frame
      /\ Supplied(f.action)
  BY CallsAre DEF SubInv, Subscriptions, Frame
<1>2. /\ f.accepted \in Live(<<f.action, f.kind>>)
      /\ subs[f.accepted].count = 1
  BY <1>1 DEF CallFits, LastWaiting
<1>3. f.op # "request" /\ f.kind \in Kinds
  BY <1>1 DEF Frame, RequestPoints
<1>. DEFINE S == Holders(f.action, f.kind)
<1>4. IsFiniteSet(S) /\ Cardinality(S) \in Nat BY <1>1, HoldersFinite
<1>5. Cardinality(S) <= 1 BY <1>1, <1>2, <1>3 DEF Supplied
<1>6. f.slot \in S BY <1>3, HolderIs DEF Claims, Kinds
<1>. HIDE DEF S
<1>7. Cardinality(S) # 0 BY <1>4, <1>6, FS_EmptySet
<1>8. Cardinality(S) = 1 BY <1>4, <1>5, <1>7
<1>9. \E x : S = {x} BY <1>4, <1>8, FS_Singleton
<1>. QED BY <1>6, <1>9 DEF S

\* A record that waits is of no action a call in a wait is about.
LEMMA WaitingApart ==
  ASSUME SubInv, NEW slot \in Slots, acks[slot].inUse,
         told[acks[slot].token] = 0, NEW f \in Calls, f.pc \in Waits
  PROVE  f.action # acks[slot].action
<1>. SUFFICES ASSUME f.action = acks[slot].action PROVE FALSE OBVIOUS
<1>1. ExactInv /\ CallFits(f) /\ f \in Frame /\ FrameFits(f)
  BY CallsAre DEF SubInv, Subscriptions
<1>2. slot \in Waiting(f.action) BY DEF Waiting
<1>3. \A kind : slot \in Holders(f.action, kind) BY <1>2 DEF Holders
<1>4. CASE f.op = "request"
  <2>1. Opening(f) BY <1>4 DEF Opening, Waits
  <2>. QED BY <1>1, <1>3, <2>1 DEF CallFits, OpeningFits, Kinds
<1>5. CASE f.op # "request"
  <2>1. f.pc = "waitUnsubscribe" /\ f.op \in {"deliver", "expire"}
    BY <1>1, <1>5 DEF Frame, EndingPoints, Waits
  <2>2. f.slot = slot BY <1>3, <2>1, WaitAlone
  <2>. QED BY <1>1, <2>1, <2>2 DEF FrameFits
<1>. QED BY <1>4, <1>5

\* An answer finds its record; its callback starts in the wait of another call.
LEMMA DeliverSub ==
  ASSUME SubInv, NEW answer \in sent, NEW kind \in Kinds, Deliver(answer, kind)
  PROVE  Subscriptions'
<1>1. /\ ExactInv /\ Subscriptions /\ TypeOK /\ seq \in Nat
      /\ UNCHANGED <<acks, subs, handlers, seq, accepted>>
  BY CallsAre DEF SubInv, Deliver, TypeOK
<1>2. CASE UNCHANGED <<stack, told>> BY <1>1, <1>2, QuietSub
<1>3. ASSUME NEW slot \in Slots,
             Finds(slot, {i \in Slots : acks[i].inUse
                                        /\ acks[i].token = answer[1]}),
             stack' = Append(stack, Ending("deliver", slot)), Tell(slot)
      PROVE  Subscriptions'
  <2>. PICK f \in Frame : f = Ending("deliver", slot) BY <1>1, EndingType
  <2>1. acks[slot].inUse BY <1>3 DEF Finds, Slots
  <2>2. /\ f.op = "deliver" /\ f.slot = slot /\ f.pc = "callback"
        /\ f.action = acks[slot].action /\ f.kind = "accepted"
    BY DEF Ending
  <2>3. Calls' = Calls \cup {f} BY <1>1, <1>3, CallsEntered
  <2>4. \A g \in Calls : g.pc \in Waits
    <3>1. CASE stack = <<>> BY <1>1, <3>1, CallsAre
    <3>2. CASE stack # <<>> /\ Top.pc \in Waits BY <1>1, <3>2, CallsAre
    <3>. QED BY <3>1, <3>2 DEF Deliver, At
  <2>5. \A k \in Depths : stack[k].op # "request" => stack[k].slot # slot
    <3>. SUFFICES ASSUME NEW k \in Depths, stack[k].op # "request",
                         stack[k].slot = slot
                  PROVE  FALSE
      OBVIOUS
    <3>1. /\ FrameFits(stack[k]) /\ stack[k].pc \in Waits
          /\ stack[k] \in Frame
      BY <1>1, <2>4, CallsAre DEF Calls
    <3>2. stack[k].op # "deliver"
      BY <1>1, <1>3, <2>1, <3>1 DEF FrameFits, Finds, Slots
    <3>3. stack[k].op # "expire" BY <2>1, <3>1 DEF FrameFits, Waits
    <3>. QED BY <3>1, <3>2, <3>3 DEF Frame
  <2>6. told[acks[slot].token] = 0
    BY <1>1, <2>1, <2>5 DEF ExactInv, Exact, RecordsFit
  <2>7. /\ \A action : Waiting(action)' = Waiting(action) \ {slot}
        /\ slot \in Waiting(acks[slot].action)
    BY <1>1, <1>3, <2>1, <2>6, TellWaiting
  <2>8. ASSUME NEW action, NEW k
        PROVE  Holders(action, k)' \subseteq Holders(action, k)
    BY <2>2, <2>3, <2>7, HolderIs, HolderPrime
  <2>9. \A g : Opening(g) => (g \in Calls' <=> g \in Calls)
    BY <2>2, <2>3 DEF Opening
  <2>10. ASSUME NEW action PROVE Passed(action)' = Passed(action)
    BY <2>2, <2>3 DEF Passed
  <2>11. CallFits(f)' BY <1>1, <2>2 DEF CallFits, Opening
  <2>12. ActionsApart'
    <3>1. /\ Len(stack) \in Nat /\ Len(stack') = Len(stack) + 1
          /\ stack'[Len(stack) + 1] = f
          /\ \A k \in 1 .. Len(stack) : stack'[k] = stack[k]
      BY <1>1, <1>3, <2>2, EnterShape DEF TypeOK
    <3>2. /\ Depths' = Depths \cup {Len(stack) + 1}
          /\ \A k \in Depths : stack'[k] = stack[k]
      BY <3>1 DEF Depths
    <3>3. \A k \in Depths : stack[k].action # f.action
      BY <2>1, <2>2, <2>4, <2>6, WaitingApart DEF Calls
    <3>. QED BY <1>1, <3>1, <3>2, <3>3 DEF Subscriptions, ActionsApart
  <2>. QED BY <1>1, <2>3, <2>8, <2>9, <2>10, <2>11, <2>12, RestKeeps
<1>. QED BY <1>2, <1>3 DEF Deliver

\* aws_iot_shadow_yield finds its first expired record.
LEMMA YieldSub ==
  ASSUME SubInv, Yield
  PROVE  Subscriptions'
<1>1. /\ ExactInv /\ TypeOK /\ stack = <<>> /\ Calls = {} /\ seq \in Nat
      /\ UNCHANGED <<acks, subs, handlers, seq, accepted>>
  BY CallsAre DEF SubInv, Yield, TypeOK
<1>2. CASE UNCHANGED <<stack, told>> BY <1>1, <1>2, QuietSub
<1>3. ASSUME NEW slot \in Slots, Finds(slot, Expired(0)),
             stack' = <<Ending("expire", slot)>>, Tell(slot)
      PROVE  Subscriptions'
  <2>. PICK f \in Frame : f = Ending("expire", slot) BY <1>1, EndingType
  <2>1. acks[slot].inUse BY <1>3 DEF Finds, Expired, Slots
  <2>2. /\ f.op = "expire" /\ f.slot = slot /\ f.pc = "callback"
        /\ f.action = acks[slot].action /\ f.kind = "accepted"
    BY DEF Ending
  <2>3. Depths' = {1} /\ Calls' = {f} BY <1>3 DEF Depths, Calls
  <2>4. told[acks[slot].token] = 0
    BY <1>1, <2>1 DEF ExactInv, Exact, RecordsFit, Depths
  <2>5. /\ \A action : Waiting(action)' = Waiting(action) \ {slot}
        /\ slot \in Waiting(acks[slot].action)
    BY <1>1, <1>3, <2>1, <2>4, TellWaiting
  <2>6. ASSUME NEW action, NEW k
        PROVE  Holders(action, k)' \subseteq Holders(action, k)
    BY <2>2, <2>3, <2>5, HolderIs, HolderPrime
  <2>7. \A g : Opening(g) => (g \in Calls' <=> g \in Calls)
    BY <1>1, <2>2, <2>3 DEF Opening
  <2>8. ASSUME NEW action PROVE Passed(action)' = Passed(action)
    BY <1>1, <2>2, <2>3 DEF Passed
  <2>9. CallFits(f)' BY <1>1, <2>2 DEF CallFits, Opening
  <2>10. ActionsApart' BY <2>3 DEF ActionsApart
  <2>. QED BY <1>1, <2>3, <2>6, <2>7, <2>8, <2>9, <2>10, RestKeeps
<1>. QED BY <1>2, <1>3 DEF Yield

\* The innermost call moves and neither passes a topic nor opens one; a record
\* of its own may be given back.
LEMMA MoveSub ==
  ASSUME SubInv, stack # <<>>, Top.op # "request", NEW f \in Frame, Replace(f),
         f.op = Top.op, f.slot = Top.slot, f.action = Top.action,
         f.kind = Top.kind, CallFits(f)',
         \/ UNCHANGED acks
         \/ /\ told[acks[Top.slot].token] # 0
            /\ acks' = [acks EXCEPT ![Top.slot].inUse = FALSE],
         UNCHANGED <<subs, handlers, told, seq>>
  PROVE  Subscriptions'
<1>1. /\ ExactInv /\ Subscriptions /\ TypeOK /\ seq \in Nat
      /\ Top.slot \in Slots /\ Calls = Below \cup {Top} /\ Top \in Calls
  BY CallsAre DEF SubInv, TypeOK
<1>2. Calls' = Below \cup {f} BY <1>1, CallsReplaced
<1>3. \A i \in Slots : /\ acks'[i].action = acks[i].action
                       /\ acks'[i].token = acks[i].token
                       /\ acks'[i].inUse => acks[i].inUse
                       /\ i # Top.slot => acks'[i] = acks[i]
  BY <1>1 DEF TypeOK, Record
<1>4. ASSUME NEW action PROVE Waiting(action)' \subseteq Waiting(action)
  BY <1>3 DEF Waiting
<1>5. \A kind : Claims(f, kind) <=> Claims(Top, kind) BY DEF Claims
<1>6. ASSUME NEW action, NEW kind
      PROVE  Holders(action, kind)' \subseteq Holders(action, kind)
  BY <1>1, <1>2, <1>4, <1>5, HolderIs, HolderPrime
<1>7. \A g : Opening(g) => (g \in Calls' <=> g \in Calls)
  BY <1>1, <1>2 DEF Opening
<1>8. ASSUME NEW action PROVE Passed(action)' = Passed(action)
  BY <1>1, <1>2 DEF Passed
<1>9. ActionsApart' BY <1>1, ApartKept DEF Subscriptions
<1>10. \A g \in Calls' : \/ g \in Calls /\ acks'[g.slot].action = acks[g.slot].action
                         \/ CallFits(g)'
  BY <1>1, <1>2, <1>3, CallsAre
<1>. QED BY <1>1, <1>6, <1>7, <1>8, <1>9, <1>10, RestKeeps

\* The callback returns.
LEMMA EndCallbackSub ==
  ASSUME SubInv, EndCallback
  PROVE  Subscriptions'
<1>1. /\ ExactInv /\ TypeOK /\ stack # <<>> /\ Top.pc = "callback"
      /\ Top \in Frame /\ FrameFits(Top) /\ CallFits(Top)
      /\ Top.slot \in Slots
      /\ UNCHANGED <<subs, handlers, told, seq>>
  BY CallsAre DEF SubInv, EndCallback, At, Subscriptions
<1>2. /\ Top.op \in {"deliver", "expire"} /\ Top.kind = "accepted"
      /\ Top.action = acks[Top.slot].action
  BY <1>1 DEF Frame, RequestPoints, CallFits
<1>. PICK f \in Frame :
       f = [Top EXCEPT !.pc = "unsubscribe", !.action = acks[Top.slot].action]
  BY <1>1, <1>2 DEF Frame, EndingPoints, RequestPoints, TypeOK, Record
<1>3. /\ f.op = Top.op /\ f.slot = Top.slot /\ f.action = Top.action
      /\ f.kind = Top.kind /\ f.pc = "unsubscribe"
  BY <1>1, <1>2 DEF Frame
<1>4. Replace(f) BY DEF EndCallback
<1>5. \/ UNCHANGED acks
      \/ /\ told[acks[Top.slot].token] # 0
         /\ acks' = [acks EXCEPT ![Top.slot].inUse = FALSE]
  BY <1>1 DEF EndCallback, FrameFits
<1>6. acks'[Top.slot].action = acks[Top.slot].action
  BY <1>1, <1>5 DEF TypeOK, Record
<1>7. CallFits(f)'
  BY <1>2, <1>3, <1>6 DEF CallFits, Opening
<1>. QED BY <1>1, <1>2, <1>3, <1>4, <1>5, <1>7, MoveSub

\* A request is published: its record waits in its place.
LEMMA PublishSub ==
  ASSUME SubInv, Publish
  PROVE  Subscriptions'
<1>1. /\ ExactInv /\ TypeOK /\ stack # <<>> /\ Top.pc = "publish"
      /\ Top \in Frame /\ FrameFits(Top) /\ seq \in Nat
      /\ Top.slot \in Slots /\ Calls = Below \cup {Top} /\ Top \in Calls
      /\ UNCHANGED <<subs, handlers, told, seq>>
  BY CallsAre DEF SubInv, Publish, At, TypeOK
<1>2. Top.op = "request" BY <1>1 DEF Frame, EndingPoints
<1>3. Calls = {Top} /\ Calls' = {}
  BY <1>1, <1>2, CallsAre, CallsLeft DEF Publish
<1>4. \A i \in Slots : \/ acks'[i] = acks[i]
                       \/ i = Top.slot /\ acks'[i].action = Top.action
  BY <1>1 DEF Publish, TypeOK
<1>5. ASSUME NEW action, NEW kind
      PROVE  Holders(action, kind)' \subseteq Holders(action, kind)
  <2>1. Claims(Top, kind) BY <1>1, <1>2 DEF Claims
  <2>2. ASSUME NEW i \in Waiting(action)' PROVE i \in Holders(action, kind)
    BY <1>1, <1>4, <2>1, HolderIs DEF Waiting
  <2>. QED BY <1>3, <2>2, HolderPrime
<1>6. \A g : Opening(g) => (g \in Calls' <=> g \in Calls)
  BY <1>1, <1>3 DEF Opening
<1>7. ASSUME NEW action PROVE Passed(action)' = Passed(action)
  BY <1>2, <1>3 DEF Passed
<1>8. ActionsApart' BY <1>1, ApartKept DEF Publish, SubInv, Subscriptions
<1>. QED BY <1>1, <1>3, <1>5, <1>6, <1>7, <1>8, RestKeeps

-----------------------------------------------------------------------------
(* A topic is unsubscribed, or counts one less. *)

\* A search finds the entry of a topic that is live.
LEMMA FindsLive ==
  ASSUME SubInv, NEW topic, Live(topic) # {}, NEW e,
         Finds(e, EntriesOf(topic))
  PROVE  /\ e \in Live(topic) /\ Live(topic) = {e}
<1>1. EntriesApart BY DEF SubInv, Subscriptions
<1>2. Live(topic) \subseteq EntriesOf(topic) BY DEF Live, Written, EntriesOf
<1>3. PICK x \in Live(topic) : TRUE OBVIOUS
<1>4. x \in EntriesOf(topic) /\ e \in EntriesOf(topic) /\ e <= x
  BY <1>2, <1>3 DEF Finds
<1>5. x \in Nat /\ e \in Nat BY <1>4 DEF EntriesOf, Entries
<1>6. e = x
  <2>. SUFFICES ASSUME e # x PROVE FALSE OBVIOUS
  <2>1. /\ x \in Written /\ e \in Entries \ {x}
        /\ subs[e].topic = subs[x].topic
    BY <1>3, <1>4 DEF Live, EntriesOf
  <2>2. x < e BY <1>1, <2>1 DEF EntriesApart
  <2>. QED BY <1>4, <1>5, <2>2
<1>7. \A y \in Live(topic) : y = x
  BY <1>1, <1>3 DEF EntriesApart, Live, Written
<1>. QED BY <1>3, <1>6, <1>7

\* The entries without a handler are those of a request that opens its topics.
LEMMA LiveReady ==
  ASSUME SubInv, NEW action, ~Opens(action), NEW kind,
         NEW e \in Live(<<action, kind>>)
  PROVE  e \notin Unready
<1>. SUFFICES ASSUME e \in Unready PROVE FALSE OBVIOUS
<1>1. e \notin Unwritten /\ subs[e].topic = <<action, kind>>
  BY DEF Live, Written
<1>2. PICK f \in Calls : /\ Opening(f)
                         /\ \/ e = f.rejected
                            \/ e = f.accepted
  BY <1>1 DEF Unready
<1>3. OpeningFits(f) BY <1>2 DEF SubInv, Subscriptions, CallFits
<1>4. f.action # action BY <1>2 DEF Opens
<1>5. CASE e = f.accepted BY <1>1, <1>3, <1>4, <1>5 DEF OpeningFits
<1>6. CASE e = f.rejected
  <2>1. f.pc \notin {"subscribe", "waitAccepted"}
    BY <1>1, <1>2, <1>6 DEF Unwritten
  <2>. QED BY <1>1, <1>3, <1>4, <1>6, <2>1 DEF OpeningFits
<1>. QED BY <1>2, <1>5, <1>6

\* A live topic with no request opening it has a handler.
LEMMA LiveHandled ==
  ASSUME SubInv, NEW action, ~Opens(action), NEW kind,
         Live(<<action, kind>>) # {}
  PROVE  HandlersOf(<<action, kind>>) # {}
<1>1. PICK e \in Live(<<action, kind>>) : TRUE OBVIOUS
<1>2. e \in {x \in Entries : subs[x].inUse} \ Unready
  BY <1>1, LiveReady DEF Live, Written
<1>3. PICK h \in Handlers : handlers[h] = e /\ e # 0
  BY <1>2 DEF SubInv, Subscriptions, HandlersFit
<1>. QED BY <1>1, <1>3 DEF HandlersOf, Live

\* The handlers of a topic point at its live entry.
LEMMA HandledLive ==
  ASSUME SubInv
  PROVE  \A h \in Handlers :
           handlers[h] # 0 => /\ handlers[h] \in Written
                              /\ handlers[h] \notin Unready
                              /\ handlers[h] \in Live(subs[handlers[h]].topic)
<1>1. \A h \in Handlers :
        handlers[h] # 0 => handlers[h] \in {e \in Entries : subs[e].inUse} \ Unready
  BY DEF SubInv, Subscriptions, HandlersFit
<1>. QED BY <1>1 DEF Written, Unready, Live

\* An end that has come to one of its topics holds it, and is the only call about
\* its action.
LEMMA EndingHolds ==
  ASSUME SubInv, At("unsubscribe") \/ At("waitUnsubscribe")
  PROVE  /\ stack # <<>> /\ Top \in Calls /\ Top \in Frame
         /\ Top.op \in {"deliver", "expire"} /\ Top.kind \in Kinds
         /\ Top.action \in Actions /\ Top.slot \in Slots
         /\ Top.slot \in Holders(Top.action, Top.kind)
         /\ Passed(Top.action) = (Top.kind = "rejected")
         /\ ~Opens(Top.action)
         /\ \A f \in Below : f.action # Top.action
         /\ \A action : Top.slot \notin Waiting(action)
<1>1. /\ ExactInv /\ TypeOK /\ stack # <<>> /\ Top \in Calls /\ Top \in Frame
      /\ Calls = Below \cup {Top} /\ FrameFits(Top)
      /\ Top.pc \in {"unsubscribe", "waitUnsubscribe"}
  BY CallsAre DEF SubInv, At
<1>2. /\ Top.op \in {"deliver", "expire"} /\ Top.kind \in Kinds
      /\ Top.action \in Actions /\ Top.slot \in Slots
  BY <1>1 DEF Frame, RequestPoints
<1>3. \A f \in Below : f.action # Top.action
  BY <1>1, ApartKept DEF SubInv, Subscriptions
<1>4. Top.slot \in Holders(Top.action, Top.kind)
  BY <1>1, <1>2, HolderIs DEF Claims, Kinds
<1>5. Passed(Top.action) = (Top.kind = "rejected")
  BY <1>1, <1>2, <1>3 DEF Passed
<1>6. ~Opens(Top.action) BY <1>1, <1>2, <1>3 DEF Opens, Opening
<1>7. \A action : Top.slot \notin Waiting(action)
  BY <1>1, <1>2 DEF Waiting, FrameFits
<1>. QED BY <1>1, <1>2, <1>3, <1>4, <1>5, <1>6, <1>7

\* What the end of a topic does to the calls and to the holders.
LEMMA ProceedHolders ==
  ASSUME SubInv, At("unsubscribe") \/ At("waitUnsubscribe"), Proceed,
         UNCHANGED accepted, NEW t, t = Top
  PROVE  /\ \A action : \A kind \in Kinds :
              Holders(action, kind)' \subseteq Holders(action, kind)
         /\ t.slot \notin Holders(t.action, t.kind)'
         /\ Passed(t.action)' <=> t.kind = "accepted"
         /\ \A action :
              action # t.action => (Passed(action)' <=> Passed(action))
         /\ \A f : Opening(f) => (f \in Calls' <=> f \in Calls)
         /\ ActionsApart'
         /\ \A f \in Calls' :
              \/ /\ f \in Below /\ f.action # t.action
                 /\ acks'[f.slot].action = acks[f.slot].action
              \/ CallFits(f)'
<1>1. /\ ExactInv /\ TypeOK /\ t.slot \in Slots
      /\ Calls = Below \cup {t} /\ FrameFits(t) /\ CallFits(t)
      /\ t.op # "deliver" => Below = {}
      /\ \A f \in Below : f.slot \in Slots
      /\ ActionsApart
  BY EndingHolds, CallsAre DEF SubInv, Subscriptions
<1>2. /\ stack # <<>> /\ t \in Frame
      /\ t.op \in {"deliver", "expire"} /\ t.kind \in Kinds
      /\ \A f \in Below : f.action # t.action
      /\ \A action : t.slot \notin Waiting(action)
      /\ t.pc # "callback"
  BY EndingHolds DEF At
<1>3. CASE t.kind = "accepted"
  <2>1. /\ Replace([t EXCEPT !.pc = "unsubscribe", !.kind = "rejected"])
        /\ UNCHANGED <<acks, told>>
    BY <1>3 DEF Proceed
  <2>. PICK f \in Frame :
         f = [t EXCEPT !.pc = "unsubscribe", !.kind = "rejected"]
    BY <1>2 DEF Frame, EndingPoints, RequestPoints, Kinds
  <2>2. /\ f.op = t.op /\ f.slot = t.slot /\ f.action = t.action
        /\ f.kind = "rejected" /\ f.pc = "unsubscribe"
    BY <1>2 DEF Frame
  <2>3. Calls' = Below \cup {f} BY <1>1, <1>2, <2>1, CallsReplaced
  <2>4. \A action : Waiting(action)' = Waiting(action) BY <2>1 DEF Waiting
  <2>5. \A kind \in Kinds : Claims(t, kind) BY <1>2, <1>3 DEF Claims, Kinds
  <2>6. ASSUME NEW action, NEW kind \in Kinds
        PROVE  Holders(action, kind)' \subseteq Holders(action, kind)
    <3>. SUFFICES ASSUME NEW i \in Holders(action, kind)'
                  PROVE  i \in Holders(action, kind)
      OBVIOUS
    <3>1. CASE i \in Waiting(action)' BY <2>4, <3>1, HolderIs
    <3>2. CASE \E g \in Calls' :
                 g.action = action /\ Claims(g, kind) /\ g.slot = i
      <4>1. PICK g \in Calls' :
              g.action = action /\ Claims(g, kind) /\ g.slot = i
        BY <3>2
      <4>2. CASE g \in Below BY <1>1, <4>1, <4>2, HolderIs
      <4>3. CASE g = f
        <5>1. t \in Calls /\ t.action = action /\ t.slot = i BY <1>1, <2>2, <4>1, <4>3
        <5>2. Claims(t, kind) BY <2>5
        <5>. QED BY <5>1, <5>2, HolderIs
      <4>. QED BY <2>3, <4>2, <4>3
    <3>. QED BY <3>1, <3>2, HolderPrime
  <2>7. ~Claims(f, "accepted") BY <1>2, <2>2 DEF Claims
  <2>8. t.slot \notin Holders(t.action, t.kind)'
    BY <1>2, <1>3, <2>3, <2>4, <2>7, HolderPrime
  <2>9. Passed(t.action)' BY <1>2, <2>2, <2>3 DEF Passed
  <2>10. ASSUME NEW action, action # t.action
         PROVE  Passed(action)' <=> Passed(action)
    BY <1>1, <2>2, <2>3, <2>10 DEF Passed
  <2>11. \A g : Opening(g) => (g \in Calls' <=> g \in Calls)
    BY <1>1, <1>2, <2>2, <2>3 DEF Opening
  <2>12. ActionsApart' BY <1>1, <1>2, <2>1, <2>2, ApartKept
  <2>13. CallFits(f)' BY <1>1, <1>2, <2>1, <2>2 DEF CallFits, Opening
  <2>. QED BY <1>2, <1>3, <2>1, <2>3, <2>6, <2>8, <2>9, <2>10, <2>11, <2>12,
              <2>13
<1>4. CASE t.kind = "rejected" /\ t.op = "deliver"
  <2>1. /\ Leave /\ acks' = [acks EXCEPT ![t.slot].inUse = FALSE]
        /\ UNCHANGED told
    BY <1>4 DEF Proceed
  <2>2. Calls' = Below BY <1>1, <1>2, <2>1, CallsLeft
  <2>3. /\ ~acks'[t.slot].inUse
        /\ \A i \in Slots : /\ i # t.slot => acks'[i] = acks[i]
                            /\ acks'[i].action = acks[i].action
    BY <1>1, <2>1 DEF TypeOK, Record
  <2>4. /\ \A action : Waiting(action)' \subseteq Waiting(action)
        /\ \A action : t.slot \notin Waiting(action)'
    BY <2>1, <2>3 DEF Waiting
  <2>5. ASSUME NEW action, NEW kind \in Kinds
        PROVE  Holders(action, kind)' \subseteq Holders(action, kind)
    BY <1>1, <2>2, <2>4, HolderIs, HolderPrime
  <2>6. t.slot \notin Holders(t.action, t.kind)'
    BY <1>2, <2>2, <2>4, HolderPrime
  <2>7. ~Passed(t.action)' BY <1>2, <2>2 DEF Passed
  <2>8. ASSUME NEW action, action # t.action
        PROVE  Passed(action)' <=> Passed(action)
    BY <1>1, <2>2, <2>8 DEF Passed
  <2>9. \A g : Opening(g) => (g \in Calls' <=> g \in Calls)
    BY <1>1, <1>2, <2>2 DEF Opening
  <2>10. ActionsApart' BY <1>1, <1>2, <2>1, ApartKept
  <2>. QED BY <1>1, <1>2, <1>4, <2>2, <2>3, <2>5, <2>6, <2>7, <2>8, <2>9, <2>10
<1>5. CASE t.kind = "rejected" /\ t.op = "expire"
  <2>1. /\ Calls = {t} /\ Below = {} /\ ~acks[t.slot].inUse
        /\ UNCHANGED acks
    BY <1>1, <1>2, <1>5 DEF FrameFits, Proceed
  <2>2. CASE Leave /\ UNCHANGED told
    <3>1. Calls' = {} BY <1>1, <1>2, <2>1, <2>2, CallsLeft
    <3>2. \A action : Waiting(action)' = Waiting(action)
      BY <2>1, <2>2 DEF Waiting
    <3>3. ASSUME NEW action, NEW kind \in Kinds
          PROVE  Holders(action, kind)' \subseteq Holders(action, kind)
      BY <3>1, <3>2, HolderIs, HolderPrime
    <3>4. t.slot \notin Holders(t.action, t.kind)'
      BY <1>2, <3>1, <3>2, HolderPrime
    <3>5. \A action : ~Passed(action)' BY <3>1 DEF Passed
    <3>6. ASSUME NEW action, action # t.action PROVE ~Passed(action)
      BY <2>1, <3>6 DEF Passed
    <3>7. \A g : Opening(g) => (g \in Calls' <=> g \in Calls)
      BY <1>2, <2>1, <3>1 DEF Opening
    <3>8. ActionsApart' BY <1>1, <1>2, <2>2, ApartKept
    <3>. QED BY <1>5, <3>1, <3>3, <3>4, <3>5, <3>6, <3>7, <3>8
  <2>3. ASSUME NEW slot \in Slots, Finds(slot, Expired(Top.slot)),
               Replace(Ending("expire", slot)), Tell(slot)
        PROVE  /\ \A action : \A kind \in Kinds :
                    Holders(action, kind)' \subseteq Holders(action, kind)
               /\ t.slot \notin Holders(t.action, t.kind)'
               /\ \A action : ~Passed(action)'
               /\ \A f : Opening(f) => (f \in Calls' <=> f \in Calls)
               /\ ActionsApart'
               /\ \A f \in Calls' : CallFits(f)'
    <3>. PICK f \in Frame : f = Ending("expire", slot) BY <1>1, EndingType
    <3>1. acks[slot].inUse BY <2>3 DEF Finds, Expired, Slots
    <3>2. /\ f.op = "expire" /\ f.slot = slot /\ f.pc = "callback"
          /\ f.action = acks[slot].action /\ f.kind = "accepted"
      BY DEF Ending
    <3>3. Calls' = {f} BY <1>1, <1>2, <2>1, <2>3, CallsReplaced
    <3>4. told[acks[slot].token] = 0
      <4>1. \A k \in Depths : stack[k].slot # slot
        BY <2>1, <3>1 DEF Calls
      <4>. QED BY <1>1, <3>1, <4>1 DEF ExactInv, Exact, RecordsFit
    <3>5. /\ \A action : Waiting(action)' = Waiting(action) \ {slot}
          /\ slot \in Waiting(acks[slot].action)
      BY <1>1, <2>1, <2>3, <3>1, <3>4, TellWaiting
    <3>6. ASSUME NEW action, NEW kind \in Kinds
          PROVE  Holders(action, kind)' \subseteq Holders(action, kind)
      BY <3>2, <3>3, <3>5, HolderIs, HolderPrime
    <3>7. t.slot \notin Holders(t.action, t.kind)'
      BY <1>2, <2>1, <3>1, <3>2, <3>3, <3>5, HolderPrime
    <3>8. \A action : ~Passed(action)' BY <3>2, <3>3 DEF Passed
    <3>9. \A g : Opening(g) => (g \in Calls' <=> g \in Calls)
      BY <1>2, <2>1, <3>2, <3>3 DEF Opening
    <3>10. ActionsApart' BY <1>1, <1>2, <2>1, <2>3, ApartKept
    <3>11. CallFits(f)' BY <2>1, <3>2 DEF CallFits, Opening
    <3>. QED BY <3>3, <3>6, <3>7, <3>8, <3>9, <3>10, <3>11
  <2>4. ASSUME NEW action, action # t.action PROVE ~Passed(action)
    BY <2>1, <2>4 DEF Passed
  <2>5. \/ Leave /\ UNCHANGED told
        \/ \E slot \in Slots : /\ Finds(slot, Expired(Top.slot))
                               /\ Replace(Ending("expire", slot))
                               /\ Tell(slot)
    BY <1>5 DEF Proceed
  <2>6. CASE \E slot \in Slots : /\ Finds(slot, Expired(Top.slot))
                                 /\ Replace(Ending("expire", slot))
                                 /\ Tell(slot)
    BY <1>5, <2>3, <2>4, <2>6
  <2>. QED BY <2>2, <2>5, <2>6
<1>. QED BY <1>2, <1>3, <1>4, <1>5 DEF Kinds

\* A topic counts one less, stays for being sticky, or is unsubscribed.
Counts(e) == /\ subs[e].count > 1
             /\ subs' = [subs EXCEPT ![e].count = @ - 1] /\ UNCHANGED handlers
Sticks(e) == /\ subs[e].count = 1 /\ subs[e].sticky
             /\ UNCHANGED <<subs, handlers>>
Ends(e, topic) == /\ LastWaiting(e) /\ Unhandle(topic)
                  /\ subs' = [subs EXCEPT ![e].inUse = FALSE]

\* Giving up a topic changes one entry: its count or its use.
LEMMA EntryChanges ==
  ASSUME TypeOK, NEW e \in Entries, NEW topic,
         Counts(e) \/ Sticks(e) \/ Ends(e, topic)
  PROVE  /\ \A g \in Entries : /\ g # e => subs'[g] = subs[g]
                               /\ subs'[g].topic = subs[g].topic
                               /\ subs'[g].sticky = subs[g].sticky
                               /\ subs'[g].inUse => subs[g].inUse
                               /\ subs'[g].count <= subs[g].count
                               /\ subs'[g].count \in Nat
         /\ Ends(e, topic) => ~subs'[e].inUse
         /\ ~Ends(e, topic) => \A g \in Entries : subs'[g].inUse = subs[g].inUse
         /\ Counts(e) => subs'[e].count = subs[e].count - 1
         /\ Counts(e) => ~Ends(e, topic)
         /\ Sticks(e) => ~Ends(e, topic)
<1>1. \A g \in Entries : /\ subs[g] \in Entry /\ subs[g].count \in Nat
                         /\ subs[g].count <= 255
  BY EntryHas
<1>2. CASE Counts(e)
  <2>1. subs' = [subs EXCEPT ![e] = [subs[e] EXCEPT !.count = @ - 1]]
    BY <1>2 DEF Counts
  <2>2. \A g \in Entries : subs'[g] = IF g = e
                                      THEN [subs[e] EXCEPT !.count = @ - 1]
                                      ELSE subs[g]
    BY <2>1 DEF TypeOK
  <2>3. /\ subs'[e].count = subs[e].count - 1
        /\ subs'[e].topic = subs[e].topic /\ subs'[e].sticky = subs[e].sticky
        /\ subs'[e].inUse = subs[e].inUse
    BY <1>1, <2>2 DEF Entry
  <2>4. subs'[e].count <= subs[e].count /\ subs'[e].count \in Nat
    BY <1>1, <1>2, <2>3 DEF Counts
  <2>5. \A g \in Entries : g # e => subs'[g] = subs[g] BY <2>2
  <2>6. \A g \in Entries : subs[g].count <= subs[g].count
                         /\ subs[g].count \in Nat
    BY <1>1
  <2>7. ~Ends(e, topic) /\ ~Sticks(e)
    BY <1>1, <1>2 DEF Counts, Sticks, Ends, LastWaiting
  <2>8. \A g \in Entries : /\ subs'[g].topic = subs[g].topic
                           /\ subs'[g].sticky = subs[g].sticky
                           /\ subs'[g].inUse = subs[g].inUse
                           /\ subs'[g].count <= subs[g].count
                           /\ subs'[g].count \in Nat
    <3>. TAKE g \in Entries
    <3>1. CASE g = e BY <2>3, <2>4, <3>1
    <3>2. CASE g # e BY <2>5, <2>6, <3>2
    <3>. QED BY <3>1, <3>2
  <2>. QED BY <2>3, <2>5, <2>7, <2>8
<1>3. CASE Sticks(e)
  <2>1. \A g \in Entries : subs'[g] = subs[g] BY <1>3 DEF Sticks
  <2>. QED BY <1>1, <1>3, <2>1 DEF Counts, Sticks, Ends, LastWaiting
<1>4. CASE Ends(e, topic)
  <2>1. subs' = [subs EXCEPT ![e] = [subs[e] EXCEPT !.inUse = FALSE]]
    BY <1>4 DEF Ends
  <2>2. \A g \in Entries : subs'[g] = IF g = e
                                      THEN [subs[e] EXCEPT !.inUse = FALSE]
                                      ELSE subs[g]
    BY <2>1 DEF TypeOK
  <2>3. /\ ~subs'[e].inUse /\ subs'[e].count = subs[e].count
        /\ subs'[e].topic = subs[e].topic /\ subs'[e].sticky = subs[e].sticky
    BY <1>1, <2>2 DEF Entry
  <2>4. \A g \in Entries : g # e => subs'[g] = subs[g] BY <2>2
  <2>5. ~Counts(e) /\ ~Sticks(e)
    BY <1>1, <1>4 DEF Counts, Sticks, Ends, LastWaiting
  <2>6. \A g \in Entries : /\ subs'[g].topic = subs[g].topic
                           /\ subs'[g].sticky = subs[g].sticky
                           /\ subs'[g].inUse => subs[g].inUse
                           /\ subs'[g].count <= subs[g].count
                           /\ subs'[g].count \in Nat
    <3>. TAKE g \in Entries
    <3>1. subs[g].count <= subs[g].count /\ subs[g].count \in Nat BY <1>1
    <3>2. CASE g = e BY <2>3, <3>1, <3>2
    <3>3. CASE g # e BY <2>4, <3>1, <3>3
    <3>. QED BY <3>2, <3>3
  <2>. QED BY <1>4, <2>3, <2>4, <2>5, <2>6
<1>. QED BY <1>2, <1>3, <1>4

\* The lists after that: who is live, written and ready.
LEMMA ListsAfter ==
  ASSUME SubInv, At("unsubscribe") \/ At("waitUnsubscribe"),
         NEW t, t = Top, NEW e \in Live(<<t.action, t.kind>>),
         Counts(e) \/ Sticks(e) \/ Ends(e, <<t.action, t.kind>>),
         \A f : Opening(f) => (f \in Calls' <=> f \in Calls)
  PROVE  /\ Live(<<t.action, t.kind>>) = {e} /\ e \in Entries
         /\ Unwritten' = Unwritten /\ Unready' = Unready
         /\ e \notin Unready /\ Written' \subseteq Written
         /\ \A topic : topic # <<t.action, t.kind>> =>
                         Live(topic)' = Live(topic)
         /\ ~Ends(e, <<t.action, t.kind>>) =>
              /\ Live(<<t.action, t.kind>>)' = {e}
              /\ {x \in Entries : subs[x].inUse}' = {x \in Entries : subs[x].inUse}
         /\ Ends(e, <<t.action, t.kind>>) =>
              /\ Live(<<t.action, t.kind>>)' = {}
              /\ {x \in Entries : subs[x].inUse}'
                   = {x \in Entries : subs[x].inUse} \ {e}
<1>. DEFINE topic == <<t.action, t.kind>>
<1>1. /\ TypeOK /\ ExactInv /\ EntriesApart /\ e \in Entries /\ subs[e].inUse
      /\ e \in Written /\ subs[e].topic = topic /\ ~Opens(t.action)
  BY CallsAre, EndingHolds DEF SubInv, Subscriptions, Live, Written
<1>2. e \notin Unready BY <1>1, LiveReady
<1>3. Live(topic) = {e} BY <1>1 DEF EntriesApart, Live, Written
<1>4. Unwritten' = Unwritten /\ Unready' = Unready
  BY DEF Unwritten, Unready
<1>5. /\ \A g \in Entries : /\ g # e => subs'[g] = subs[g]
                            /\ subs'[g].topic = subs[g].topic
                            /\ subs'[g].inUse => subs[g].inUse
      /\ Ends(e, topic) => ~subs'[e].inUse
      /\ ~Ends(e, topic) => \A g \in Entries : subs'[g].inUse = subs[g].inUse
  BY <1>1, EntryChanges
<1>6. Written' \subseteq Written BY <1>4, <1>5 DEF Written
<1>7. ASSUME NEW other, other # topic PROVE Live(other)' = Live(other)
  BY <1>1, <1>4, <1>5, <1>7 DEF Live, Written
<1>8. ASSUME ~Ends(e, topic)
      PROVE  /\ Live(topic)' = {e}
             /\ {x \in Entries : subs[x].inUse}' = {x \in Entries : subs[x].inUse}
  <2>1. \A g \in Entries : /\ subs'[g].inUse = subs[g].inUse
                           /\ subs'[g].topic = subs[g].topic
    BY <1>5, <1>8
  <2>2. {x \in Entries : subs[x].inUse}' = {x \in Entries : subs[x].inUse}
    BY <2>1
  <2>3. Written' = Written BY <1>4, <2>2 DEF Written
  <2>. QED BY <1>3, <2>1, <2>2, <2>3 DEF Live, Written
<1>9. ASSUME Ends(e, topic)
      PROVE  /\ Live(topic)' = {}
             /\ {x \in Entries : subs[x].inUse}'
                  = {x \in Entries : subs[x].inUse} \ {e}
  <2>1. \A g \in Entries : /\ g # e => subs'[g] = subs[g]
                           /\ ~subs'[e].inUse
    BY <1>5, <1>9
  <2>2. {x \in Entries : subs[x].inUse}'
          = {x \in Entries : subs[x].inUse} \ {e}
    BY <2>1
  <2>3. Written' = Written \ {e} BY <1>4, <2>2 DEF Written
  <2>. QED BY <1>3, <2>1, <2>2, <2>3 DEF Live, Written
<1>. QED BY <1>1, <1>2, <1>3, <1>4, <1>6, <1>7, <1>8, <1>9

\* The action whose topic it is still has its topics supplied.
LEMMA TopicSupplied ==
  ASSUME SubInv, At("unsubscribe") \/ At("waitUnsubscribe"), Proceed,
         UNCHANGED accepted,
         NEW t, t = Top, NEW e \in Live(<<t.action, t.kind>>),
         Counts(e) \/ Sticks(e) \/ Ends(e, <<t.action, t.kind>>)
  PROVE  Supplied(t.action)'
<1>. DEFINE topic == <<t.action, t.kind>>
<1>1. /\ ExactInv /\ TypeOK /\ t.kind \in Kinds /\ t.action \in Actions
      /\ t.slot \in Holders(t.action, t.kind) /\ e \in Entries
  BY EndingHolds, CallsAre DEF SubInv, Live, Written
<1>2. /\ \A kind \in Kinds :
           Holders(t.action, kind)' \subseteq Holders(t.action, kind)
      /\ t.slot \notin Holders(t.action, t.kind)'
      /\ \A f : Opening(f) => (f \in Calls' <=> f \in Calls)
  BY ProceedHolders
<1>3. Supplied(t.action) BY <1>1 DEF SubInv, Subscriptions
<1>4. /\ Live(topic) = {e}
      /\ \A other : other # topic => Live(other)' = Live(other)
      /\ ~Ends(e, topic) => Live(topic)' = {e}
      /\ Ends(e, topic) => Live(topic)' = {}
  BY <1>2, ListsAfter
<1>5. /\ \A g \in Entries : g # e => subs'[g] = subs[g]
      /\ Counts(e) => subs'[e].count = subs[e].count - 1
      /\ Counts(e) => ~Ends(e, topic)
      /\ Sticks(e) => ~Ends(e, topic)
  BY <1>1, EntryChanges
<1>6. subs[e].count \in Nat BY <1>1, EntryHas
<1>7. ASSUME NEW kind \in Kinds
      PROVE  /\ Holders(t.action, kind)' # {} =>
                  Live(<<t.action, kind>>)' # {}
             /\ \A x \in Live(<<t.action, kind>>)' :
                  Cardinality(Holders(t.action, kind)') <= subs'[x].count
  <2>1. PICK S : S = Holders(t.action, kind) OBVIOUS
  <2>2. PICK R : R = Holders(t.action, kind)' OBVIOUS
  <2>3. IsFiniteSet(S) /\ Cardinality(S) \in Nat /\ R \subseteq S
    BY <1>1, <1>2, <2>1, <2>2, HoldersFinite
  <2>4. IsFiniteSet(R) /\ Cardinality(R) \in Nat
        /\ Cardinality(R) <= Cardinality(S)
    BY <2>3, FS_Subset, FS_CardinalityType
  <2>5. /\ S # {} => Live(<<t.action, kind>>) # {}
        /\ \A x \in Live(<<t.action, kind>>) : Cardinality(S) <= subs[x].count
    BY <1>3, <2>1 DEF Supplied
  <2>6. CASE kind # t.kind
    <3>1. Live(<<t.action, kind>>)' = Live(<<t.action, kind>>)
      BY <1>4, <2>6
    <3>2. \A x \in Live(<<t.action, kind>>) :
            x \in Entries /\ x # e /\ subs[x].count \in Nat
      BY <1>1, <1>4, <2>6, EntryHas DEF Live, Written
    <3>3. \A x \in Live(<<t.action, kind>>) :
            Cardinality(R) <= subs'[x].count
      BY <1>5, <2>3, <2>4, <2>5, <3>2
    <3>. QED BY <2>2, <2>3, <2>5, <3>1, <3>3
  <2>7. CASE kind = t.kind
    <3>1. t.slot \in S /\ R \subseteq S \ {t.slot}
      BY <1>1, <1>2, <2>1, <2>2, <2>3, <2>7
    <3>2. /\ IsFiniteSet(S \ {t.slot})
          /\ Cardinality(S \ {t.slot}) = Cardinality(S) - 1
      BY <2>3, <3>1, FS_RemoveElement
    <3>3. Cardinality(R) <= Cardinality(S) - 1
      BY <3>1, <3>2, FS_Subset
    <3>4. Cardinality(R) + 1 <= subs[e].count
      BY <1>6, <2>3, <2>4, <2>5, <2>7, <3>3
    <3>5. CASE Counts(e)
      <4>1. Cardinality(R) <= subs'[e].count
        BY <1>5, <1>6, <2>4, <3>4, <3>5
      <4>. QED BY <1>4, <1>5, <2>2, <2>7, <3>5, <4>1
    <3>6. CASE Sticks(e)
      <4>1. subs'[e] = subs[e] BY <3>6 DEF Sticks
      <4>2. Cardinality(R) <= subs'[e].count
        BY <1>6, <2>4, <3>4, <4>1
      <4>. QED BY <1>4, <1>5, <2>2, <2>7, <3>6, <4>2
    <3>7. CASE Ends(e, topic)
      <4>1. Cardinality(R) = 0
        BY <1>6, <2>4, <3>4, <3>7 DEF Ends, LastWaiting
      <4>2. R = {} BY <2>4, <4>1, FS_EmptySet
      <4>. QED BY <1>4, <2>2, <2>7, <3>7, <4>2
    <3>. QED BY <3>5, <3>6, <3>7
  <2>. QED BY <2>6, <2>7
<1>. QED BY <1>7 DEF Supplied

\* And its topics count as they should: the second one follows the first.
LEMMA TopicPaired ==
  ASSUME SubInv, At("unsubscribe") \/ At("waitUnsubscribe"), Proceed,
         UNCHANGED accepted,
         NEW t, t = Top, NEW e \in Live(<<t.action, t.kind>>),
         Counts(e) \/ Sticks(e) \/ Ends(e, <<t.action, t.kind>>)
  PROVE  Paired(t.action)'
<1>. DEFINE topic == <<t.action, t.kind>>
            a == Live(<<t.action, "accepted">>)
            r == Live(<<t.action, "rejected">>)
<1>1. /\ ExactInv /\ TypeOK /\ t.kind \in Kinds /\ t.action \in Actions
      /\ e \in Entries /\ ~Opens(t.action)
      /\ Passed(t.action) <=> t.kind = "rejected"
  BY EndingHolds, CallsAre DEF SubInv, Live, Written
<1>2. /\ \A f : Opening(f) => (f \in Calls' <=> f \in Calls)
      /\ Passed(t.action)' <=> t.kind = "accepted"
  BY ProceedHolders
<1>3. Paired(t.action) BY <1>1 DEF SubInv, Subscriptions
<1>4. /\ Live(topic) = {e}
      /\ \A other : other # topic => Live(other)' = Live(other)
      /\ ~Ends(e, topic) => Live(topic)' = {e}
      /\ Ends(e, topic) => Live(topic)' = {}
  BY <1>2, ListsAfter
<1>5. /\ \A g \in Entries : /\ g # e => subs'[g] = subs[g]
                            /\ subs'[g].sticky = subs[g].sticky
      /\ Counts(e) => subs'[e].count = subs[e].count - 1
      /\ Counts(e) => ~Ends(e, topic)
      /\ Sticks(e) => ~Ends(e, topic)
  BY <1>1, EntryChanges
<1>6. /\ subs[e].count \in Nat
      /\ Sticks(e) => subs'[e] = subs[e] /\ subs[e].count = 1 /\ subs[e].sticky
      /\ Ends(e, topic) <=> LastWaiting(e)
      /\ Counts(e) => subs[e].count > 1
      /\ Counts(e) => subs'[e].count = subs[e].count - 1
  BY <1>1, <1>5, EntryHas DEF Sticks, Ends, Counts, LastWaiting
<1>7. ~Opens(t.action)' BY <1>1, <1>2 DEF Opens
<1>8. CASE t.kind = "accepted"
  <2>1. a = {e} /\ r' = r /\ Passed(t.action)' BY <1>2, <1>4, <1>8
  <2>2. \A g \in r : Alike(e, g)
    BY <1>1, <1>3, <1>8, <2>1 DEF Paired
  <2>3. ASSUME NEW g \in r
        PROVE  IF LastWaiting(g)' THEN a' = {}
               ELSE a' # {} /\ \A x \in a' : CountedDown(x, g)'
    <3>1. g # e /\ g \in Entries BY <1>8 DEF Live, Written
    <3>2. subs'[g] = subs[g] BY <1>5, <3>1
    <3>3. subs[g].count = subs[e].count /\ (subs[e].sticky = subs[g].sticky)
      BY <2>2 DEF Alike
    <3>4. LastWaiting(g)' <=> Ends(e, topic)
      BY <1>6, <3>2, <3>3 DEF LastWaiting
    <3>5. CASE Ends(e, topic)
      BY <1>4, <1>8, <3>4, <3>5
    <3>6. CASE ~Ends(e, topic)
      <4>1. a' = {e} BY <1>4, <1>8, <3>6
      <4>2. subs'[e].sticky = subs'[g].sticky BY <1>1, <1>5, <3>2, <3>3
      <4>3. subs'[e].count = IF subs'[g].count > 1 THEN subs'[g].count - 1
                                                   ELSE subs'[g].count
        BY <1>6, <3>2, <3>3, <3>6
      <4>4. CountedDown(e, g)' BY <4>2, <4>3 DEF CountedDown
      <4>. QED BY <3>4, <3>6, <4>1, <4>4
    <3>. QED BY <3>5, <3>6
  <2>. QED BY <2>1, <2>3 DEF Paired
<1>9. CASE t.kind = "rejected"
  <2>1. r = {e} /\ a' = a /\ ~Passed(t.action)' /\ Passed(t.action)
    BY <1>1, <1>2, <1>4, <1>9
  <2>2. IF LastWaiting(e) THEN a = {}
        ELSE a # {} /\ \A x \in a : CountedDown(x, e)
    BY <1>3, <2>1 DEF Paired
  <2>3. CASE Ends(e, topic)
    <3>1. a' = {} /\ r' = {} BY <1>4, <1>6, <1>9, <2>1, <2>2, <2>3
    <3>. QED BY <2>1, <3>1 DEF Paired
  <2>4. CASE ~Ends(e, topic)
    <3>1. a' # {} /\ r' = {e} BY <1>4, <1>6, <1>9, <2>1, <2>2, <2>4
    <3>2. ASSUME NEW x \in a PROVE Alike(x, e)'
      <4>1. x # e /\ x \in Entries BY <1>9 DEF Live, Written
      <4>2. subs'[x] = subs[x] /\ CountedDown(x, e)
        BY <1>5, <1>6, <2>2, <2>4, <4>1
      <4>3. subs'[x].sticky = subs'[e].sticky
        BY <1>1, <1>5, <4>2 DEF CountedDown
      <4>4. subs'[x].count = subs'[e].count
        BY <1>6, <2>4, <4>2 DEF CountedDown
      <4>. QED BY <4>3, <4>4 DEF Alike
    <3>. QED BY <2>1, <3>1, <3>2 DEF Paired
  <2>. QED BY <2>3, <2>4
<1>. QED BY <1>1, <1>8, <1>9 DEF Kinds

\* The handlers after that: exactly those of the entry that is given back go.
LEMMA TopicHandlers ==
  ASSUME SubInv, At("unsubscribe") \/ At("waitUnsubscribe"), Proceed,
         UNCHANGED accepted,
         NEW t, t = Top, NEW e \in Live(<<t.action, t.kind>>),
         Counts(e) \/ Sticks(e) \/ Ends(e, <<t.action, t.kind>>)
  PROVE  /\ HandlersFit'
         /\ \A h \in Handlers : handlers[h] = 0 => handlers'[h] = 0
<1>. DEFINE topic == <<t.action, t.kind>>
<1>1. /\ TypeOK /\ HandlersFit /\ e \in Entries /\ subs[e].topic = topic
      /\ handlers \in [Handlers -> Entries \cup {0}]
  BY CallsAre DEF SubInv, Subscriptions, Live, Written, TypeOK
<1>2. \A f : Opening(f) => (f \in Calls' <=> f \in Calls)
  BY ProceedHolders
<1>3. /\ Live(topic) = {e} /\ Unready' = Unready /\ e \notin Unready
      /\ ~Ends(e, topic) => {x \in Entries : subs[x].inUse}'
                              = {x \in Entries : subs[x].inUse}
      /\ Ends(e, topic) => {x \in Entries : subs[x].inUse}'
                             = {x \in Entries : subs[x].inUse} \ {e}
  BY <1>2, ListsAfter
<1>4. CASE Counts(e) \/ Sticks(e)
  <2>1. ~Ends(e, topic) BY <1>1, <1>4, EntryChanges
  <2>2. UNCHANGED handlers BY <1>4 DEF Counts, Sticks
  <2>3. /\ {handlers'[h] : h \in Handlers} \ {0}
             = {x \in Entries : subs[x].inUse}' \ Unready'
        /\ \A h, i \in Handlers :
             handlers'[h] = handlers'[i] /\ handlers'[h] # 0 => h = i
    BY <1>1, <1>3, <2>1, <2>2 DEF HandlersFit
  <2>. QED BY <2>2, <2>3 DEF HandlersFit
<1>5. CASE Ends(e, topic)
  <2>1. \A h \in Handlers : handlers[h] # 0 =>
          /\ handlers[h] \in Live(subs[handlers[h]].topic)
    BY HandledLive
  <2>2. 0 \notin Entries BY DEF Entries
  <2>3. \A h \in Handlers : h \in HandlersOf(topic) <=> handlers[h] = e
    BY <1>1, <1>3, <2>1, <2>2 DEF HandlersOf
  <2>4. \A h \in Handlers :
          handlers'[h] = IF handlers[h] = e THEN 0 ELSE handlers[h]
    BY <1>5, <2>3 DEF Ends, Unhandle
  <2>5. {handlers'[h] : h \in Handlers} \ {0}
          = ({handlers[h] : h \in Handlers} \ {0}) \ {e}
    BY <2>4
  <2>6. {handlers'[h] : h \in Handlers} \ {0}
          = {x \in Entries : subs[x].inUse}' \ Unready'
    BY <1>1, <1>3, <1>5, <2>5 DEF HandlersFit
  <2>7. \A h, i \in Handlers :
          handlers'[h] = handlers'[i] /\ handlers'[h] # 0 => h = i
    BY <1>1, <2>4 DEF HandlersFit
  <2>. QED BY <2>4, <2>6, <2>7 DEF HandlersFit
<1>. QED BY <1>4, <1>5

\* What follows one topic of an end keeps the invariant.
LEMMA TopicEnds ==
  ASSUME SubInv, At("unsubscribe") \/ At("waitUnsubscribe"), Proceed,
         UNCHANGED <<accepted, seq>>,
         NEW t, t = Top, NEW e \in Live(<<t.action, t.kind>>),
         Counts(e) \/ Sticks(e) \/ Ends(e, <<t.action, t.kind>>)
  PROVE  Subscriptions'
<1>. DEFINE topic == <<t.action, t.kind>>
<1>1. /\ ExactInv /\ TypeOK /\ t.kind \in Kinds /\ t.action \in Actions
      /\ EntriesApart /\ CountsFit /\ seq \in Nat /\ Below \subseteq Calls
      /\ e \in Entries /\ subs[e].topic = topic
  BY EndingHolds, CallsAre DEF SubInv, Subscriptions, TypeOK, Live, Written
<1>2. /\ \A action : \A kind \in Kinds :
           Holders(action, kind)' \subseteq Holders(action, kind)
      /\ \A action : action # t.action => (Passed(action)' <=> Passed(action))
      /\ \A f : Opening(f) => (f \in Calls' <=> f \in Calls)
      /\ ActionsApart'
      /\ \A f \in Calls' :
           \/ /\ f \in Below /\ f.action # t.action
              /\ acks'[f.slot].action = acks[f.slot].action
           \/ CallFits(f)'
  BY <1>1, ProceedHolders
<1>3. /\ Live(topic) = {e} /\ e \notin Unready /\ Written' \subseteq Written
      /\ \A other : other # topic => Live(other)' = Live(other)
  BY <1>2, ListsAfter
<1>4. \A g \in Entries : /\ g # e => subs'[g] = subs[g]
                         /\ subs'[g].topic = subs[g].topic
                         /\ subs'[g].inUse => subs[g].inUse
                         /\ subs'[g].count <= subs[g].count
                         /\ subs[g].count \in Nat
                         /\ subs'[g].count \in Nat
  BY <1>1, EntryChanges, EntryHas
<1>5. HandlersFit' /\ \A h \in Handlers : handlers[h] = 0 => handlers'[h] = 0
  BY <1>1, TopicHandlers
<1>6. Supplied(t.action)' /\ Paired(t.action)'
  BY <1>1, TopicSupplied, TopicPaired
<1>7. \A action : Opens(action)' <=> Opens(action) BY <1>2 DEF Opens
<1>8. ASSUME NEW action \in Actions, action # t.action
      PROVE  Supplied(action)' /\ Paired(action)'
  <2>1. ASSUME NEW kind \in Kinds
        PROVE  /\ Live(<<action, kind>>)' = Live(<<action, kind>>)
               /\ \A x \in Live(<<action, kind>>) :
                    x # e /\ x \in Entries
    BY <1>1, <1>3, <1>8 DEF Live, Written
  <2>2. \A kind \in Kinds :
           \A x \in Live(<<action, kind>>) :
             /\ subs'[x].count = subs[x].count
             /\ subs'[x].sticky = subs[x].sticky
    BY <1>4, <2>1
  <2>3. Opens(action)' <=> Opens(action) BY <1>7
  <2>4. Passed(action)' <=> Passed(action) BY <1>2, <1>8
  <2>5. \A kind \in Kinds :
          Holders(action, kind)' \subseteq Holders(action, kind)
    BY <1>2
  <2>. QED BY <2>1, <2>2, <2>3, <2>4, <2>5, ActionStays
<1>9. ASSUME NEW f \in Below, f.action # t.action,
             acks'[f.slot].action = acks[f.slot].action
      PROVE  CallFits(f)'
  <2>1. f \in Calls /\ CallFits(f) BY <1>1 DEF SubInv, Subscriptions
  <2>2. ASSUME NEW kind \in Kinds
        PROVE  /\ Live(<<f.action, kind>>)' = Live(<<f.action, kind>>)
               /\ \A x \in Live(<<f.action, kind>>) : subs'[x] = subs[x]
    BY <1>1, <1>3, <1>4, <1>9 DEF Live, Written
  <2>3. ASSUME Opening(f)
        PROVE  /\ subs'[f.accepted] = subs[f.accepted]
               /\ subs'[f.rejected] = subs[f.rejected]
    <3>1. OpeningFits(f) BY <2>1, <2>3 DEF CallFits
    <3>2. f.rejected # e BY <1>3, <2>1, <2>3 DEF Unready
    <3>3. f.accepted # e BY <1>1, <1>9, <3>1 DEF OpeningFits
    <3>4. f.accepted \in Entries /\ f.rejected \in Entries
      BY <3>1 DEF OpeningFits
    <3>. QED BY <1>4, <3>2, <3>3, <3>4
  <2>4. \A kind \in Kinds :
          Holders(f.action, kind)' \subseteq Holders(f.action, kind)
    BY <1>2
  <2>. QED BY <1>4, <1>5, <1>9, <2>1, <2>2, <2>3, <2>4, CallStays
<1>10. \A f \in Calls' : CallFits(f)' BY <1>2, <1>9
<1>11. EntriesApart'
  <2>1. Written \subseteq Entries BY DEF Written
  <2>. QED BY <1>1, <1>3, <1>4, <2>1 DEF EntriesApart
<1>12. CountsFit' BY <1>1, <1>4 DEF CountsFit
<1>. QED BY <1>2, <1>5, <1>6, <1>8, <1>10, <1>11, <1>12 DEF Subscriptions

\* A topic loses a waiting request.
LEMMA UnsubscribeSub ==
  ASSUME SubInv, RoomForAll, Unsubscribe
  PROVE  Subscriptions'
<1>. PICK t : t = Top OBVIOUS
<1>. DEFINE topic == <<t.action, t.kind>>
<1>1. /\ ExactInv /\ TypeOK /\ stack # <<>> /\ t \in Calls /\ t \in Frame
      /\ Calls = Below \cup {t}
      /\ t.op \in {"deliver", "expire"} /\ t.pc = "unsubscribe"
      /\ t.kind \in Kinds /\ t.action \in Actions /\ ~Opens(t.action)
      /\ t.slot \in Holders(t.action, t.kind) /\ At("unsubscribe")
      /\ UNCHANGED <<handlers, accepted, seq>>
  BY EndingHolds, CallsAre DEF SubInv, Unsubscribe, At
<1>2. Supplied(t.action) BY <1>1 DEF SubInv, Subscriptions
<1>3. Live(topic) # {} BY <1>1, <1>2 DEF Supplied
<1>4. HandlersOf(topic) # {} BY <1>1, <1>3, LiveHandled
<1>5. PICK e \in Entries \cup {0} :
        /\ Finds(e, EntriesOf(topic))
        /\ \/ /\ e # 0 /\ LastWaiting(e)
              /\ \/ /\ HandlersOf(topic) # {}
                    /\ Replace([t EXCEPT !.pc = "waitUnsubscribe",
                                         !.accepted = e])
                    /\ UNCHANGED <<acks, told>>
                 \/ /\ HandlersOf(topic) = {} \/ "unsubscribe" \in Failing
                    /\ Proceed
              /\ UNCHANGED subs
           \/ /\ e # 0 /\ subs[e].count > 1
              /\ subs' = [subs EXCEPT ![e].count = @ - 1]
              /\ Proceed
           \/ /\ e # 0 /\ \/ subs[e].count = 0
                          \/ subs[e].sticky /\ subs[e].count = 1
              /\ Proceed
              /\ UNCHANGED subs
           \/ e = 0 /\ Proceed /\ UNCHANGED subs
  BY DEF Unsubscribe
<1>6. e \in Live(topic) /\ e \in Entries /\ e # 0
  BY <1>3, <1>5, FindsLive DEF Live, Written, Entries
<1>7. subs[e].count # 0
  <2>1. PICK S : S = Holders(t.action, t.kind) OBVIOUS
  <2>2. IsFiniteSet(S) /\ Cardinality(S) \in Nat /\ S # {}
    BY <1>1, <2>1, HoldersFinite
  <2>3. Cardinality(S) # 0 BY <2>2, FS_EmptySet
  <2>4. Cardinality(S) <= subs[e].count BY <1>1, <1>2, <1>6, <2>1 DEF Supplied
  <2>. QED BY <2>2, <2>3, <2>4
<1>8. CASE Counts(e) /\ Proceed BY <1>1, <1>6, <1>8, TopicEnds
<1>9. CASE Sticks(e) /\ Proceed BY <1>1, <1>6, <1>9, TopicEnds
<1>10. ASSUME LastWaiting(e), UNCHANGED <<acks, told, subs>>,
              Replace([t EXCEPT !.pc = "waitUnsubscribe", !.accepted = e])
       PROVE  Subscriptions'
  <2>. PICK f \in Frame : f = [t EXCEPT !.pc = "waitUnsubscribe",
                                        !.accepted = e]
    BY <1>1, <1>6 DEF Frame, EndingPoints, RequestPoints
  <2>1. /\ f.op = t.op /\ f.slot = t.slot /\ f.action = t.action
        /\ f.kind = t.kind /\ f.pc = "waitUnsubscribe" /\ f.accepted = e
    BY <1>1 DEF Frame
  <2>2. Calls' = Below \cup {f} BY <1>1, <1>10, CallsReplaced
  <2>3. \A g : Opening(g) => (g \in Calls' <=> g \in Calls)
    BY <1>1, <2>1, <2>2 DEF Opening
  <2>4. Unwritten' = Unwritten BY <1>10, <2>3 DEF Unwritten
  <2>5. Written' = Written BY <1>10, <2>4 DEF Written
  <2>6. Live(topic)' = Live(topic) BY <1>10, <2>5 DEF Live
  <2>7. CallFits(t) BY <1>1 DEF SubInv, Subscriptions
  <2>8. f.op = "deliver" => f.action = acks'[f.slot].action
    BY <1>10, <2>1, <2>7 DEF CallFits
  <2>9. LastWaiting(f.accepted)' BY <1>10, <2>1 DEF LastWaiting
  <2>10. CallFits(f)'
    BY <1>1, <1>6, <2>1, <2>6, <2>8, <2>9 DEF CallFits, Opening
  <2>. QED BY <1>1, <1>10, <2>1, <2>10, MoveSub
<1>. QED BY <1>1, <1>4, <1>5, <1>6, <1>7, <1>8, <1>9, <1>10
         DEF Counts, Sticks, RoomForAll

\* The end of a request gives up one topic.
LEMMA EndUnsubscribeSub ==
  ASSUME SubInv, RoomForAll, EndUnsubscribe
  PROVE  Subscriptions'
<1>. PICK t : t = Top OBVIOUS
<1>1. t \in Calls /\ t.pc = "waitUnsubscribe" /\ At("waitUnsubscribe")
  BY EndingHolds DEF EndUnsubscribe, At
<1>2. /\ t.accepted \in Live(<<t.action, t.kind>>)
      /\ LastWaiting(t.accepted)
  BY <1>1 DEF SubInv, Subscriptions, CallFits
<1>3. /\ Ends(t.accepted, <<t.action, t.kind>>)
      /\ Proceed /\ UNCHANGED <<accepted, seq>>
  BY <1>2 DEF EndUnsubscribe, RoomForAll, Ends
<1>. QED BY <1>1, <1>2, <1>3, TopicEnds

-----------------------------------------------------------------------------
(* A request opens its topics. *)

\* An injection from a part of the places 1 .. n leaves some of them free.
LEMMA Room ==
  ASSUME NEW n \in Nat, NEW used \in SUBSET (1 .. n), NEW T, IsFiniteSet(T),
         NEW m \in Nat, Cardinality(T) + m <= n,
         NEW f \in [used -> T], \A x, y \in used : f[x] = f[y] => x = y
  PROVE  /\ IsFiniteSet((1 .. n) \ used)
         /\ Cardinality((1 .. n) \ used) \in Nat
         /\ Cardinality((1 .. n) \ used) >= m
<1>1. /\ IsFiniteSet(1 .. n) /\ Cardinality(1 .. n) = n
  <2>1. 0 \in Int /\ 1 \in Int /\ n \in Int OBVIOUS
  <2>2. /\ IsFiniteSet(1 .. n)
        /\ Cardinality(1 .. n) = IF 1 > n THEN 0 ELSE n - 1 + 1
    BY <2>1, FS_Interval
  <2>. QED BY <2>2
<1>2. f \in Injection(used, T) BY DEF Injection, IsInjective
<1>3. Cardinality(used) <= Cardinality(T) BY <1>2, FS_Injection
<1>4. IsFiniteSet(used) /\ Cardinality(used) \in Nat /\ Cardinality(T) \in Nat
  BY <1>1, FS_Subset, FS_CardinalityType
<1>5. (1 .. n) \cap used = used OBVIOUS
<1>6. /\ IsFiniteSet((1 .. n) \ used)
      /\ Cardinality((1 .. n) \ used) = n - Cardinality(used)
  BY <1>1, <1>5, FS_Difference
<1>. QED BY <1>3, <1>4, <1>6

\* There are twice as many topics as actions, without those of one action two
\* less.
LEMMA TopicsCount ==
  ASSUME RoomForAll, NEW action \in Actions
  PROVE  LET all == Actions \X Kinds
             one == all \ {<<action, "rejected">>}
             both == one \ {<<action, "accepted">>}
         IN  /\ Cardinality(Actions) \in Nat
             /\ IsFiniteSet(one) /\ Cardinality(one) = 2 * Cardinality(Actions) - 1
             /\ IsFiniteSet(both)
             /\ Cardinality(both) = 2 * Cardinality(Actions) - 2
             /\ Cardinality(one) \in Nat /\ Cardinality(both) \in Nat
<1>. DEFINE all == Actions \X Kinds
            one == all \ {<<action, "rejected">>}
            both == one \ {<<action, "accepted">>}
<1>1. IsFiniteSet(Actions) /\ Cardinality(Actions) \in Nat
  BY FS_CardinalityType DEF RoomForAll
<1>2. IsFiniteSet(Kinds) /\ Cardinality(Kinds) = 2
  <2>1. IsFiniteSet({"accepted"}) /\ Cardinality({"accepted"}) = 1
    BY FS_Singleton
  <2>2. Kinds = {"accepted"} \cup {"rejected"} BY DEF Kinds
  <2>3. "rejected" \notin {"accepted"} OBVIOUS
  <2>. QED BY <2>1, <2>2, <2>3, FS_AddElement
<1>3. IsFiniteSet(all) /\ Cardinality(all) = Cardinality(Actions) * 2
  BY <1>1, <1>2, FS_Product
<1>4. /\ <<action, "rejected">> \in all /\ <<action, "accepted">> \in one
  BY DEF Kinds
<1>5. IsFiniteSet(one) /\ Cardinality(one) = Cardinality(all) - 1
  BY <1>3, <1>4, FS_RemoveElement
<1>6. IsFiniteSet(both) /\ Cardinality(both) = Cardinality(one) - 1
  BY <1>4, <1>5, FS_RemoveElement
<1>7. Cardinality(one) \in Nat /\ Cardinality(both) \in Nat
  BY <1>5, <1>6, FS_CardinalityType
<1>8. Cardinality(Actions) * 2 = 2 * Cardinality(Actions) BY <1>1
<1>. HIDE DEF all, one, both
<1>9. Cardinality(one) = 2 * Cardinality(Actions) - 1 BY <1>1, <1>3, <1>5, <1>8
<1>10. Cardinality(both) = 2 * Cardinality(Actions) - 2
  BY <1>1, <1>6, <1>9
<1>. QED BY <1>1, <1>5, <1>6, <1>7, <1>9, <1>10 DEF all, one, both

\* What the invariant says while a request opens its topics.
LEMMA OpeningTop ==
  ASSUME SubInv, stack # <<>>, NEW t, t = Top, Opening(t)
  PROVE  /\ ExactInv /\ TypeOK /\ Subscriptions /\ OpeningFits(t)
         /\ Calls = {t} /\ Below = {} /\ t \in Frame /\ FrameFits(t)
         /\ t.op = "request" /\ t.action \in Actions /\ t.slot \in Slots
         /\ t.handler \in Handlers \cup {0} /\ t.token \in Tokens
         /\ t.sticky \in BOOLEAN
         /\ Unwritten = IF t.pc \in {"subscribe", "waitAccepted"}
                        THEN {t.rejected} ELSE {}
         /\ Unready = IF t.pc \in {"subscribe", "waitAccepted"}
                      THEN {t.rejected, t.accepted} ELSE {t.rejected}
         /\ \A action, kind : Holders(action, kind) = Waiting(action)
         /\ \A action : (Opens(action) <=> action = t.action) /\ ~Passed(action)
<1>1. /\ ExactInv /\ TypeOK /\ Subscriptions /\ t \in Calls /\ t \in Frame
      /\ Calls = Below \cup {t} /\ FrameFits(t) /\ t.slot \in Slots
      /\ t.op = "request" /\ Below = {}
  BY CallsAre DEF SubInv, Opening
<1>2. Calls = {t} /\ OpeningFits(t)
  BY <1>1 DEF Subscriptions, CallFits
<1>3. t.action \in Actions /\ t.handler \in Handlers \cup {0}
      /\ t.token \in Tokens /\ t.sticky \in BOOLEAN
  BY <1>1 DEF Frame
<1>4. Unwritten = IF t.pc \in {"subscribe", "waitAccepted"}
                  THEN {t.rejected} ELSE {}
  BY <1>2 DEF Unwritten
<1>5. Unready = IF t.pc \in {"subscribe", "waitAccepted"}
                THEN {t.rejected, t.accepted} ELSE {t.rejected}
  BY <1>2, <1>4 DEF Unready
<1>6. \A action, kind : Holders(action, kind) = Waiting(action)
  BY <1>1, <1>2 DEF Holders, Claims, Opening
<1>7. \A action : (Opens(action) <=> action = t.action) /\ ~Passed(action)
  BY <1>1, <1>2 DEF Opens, Passed
<1>. QED BY <1>1, <1>2, <1>3, <1>4, <1>5, <1>6, <1>7

\* And after it has moved on.
LEMMA OpeningMoves ==
  ASSUME SubInv, stack # <<>>, NEW t, t = Top, Opening(t),
         NEW f \in Frame, Replace(f), f.op = "request", f.action = t.action,
         f.slot = t.slot, UNCHANGED <<acks, told>>
  PROVE  /\ Calls' = {f} /\ ActionsApart'
         /\ Unwritten' = IF f.pc \in {"subscribe", "waitAccepted"}
                         THEN {f.rejected} ELSE {}
         /\ Unready' = IF f.pc \in {"subscribe", "waitAccepted"}
                       THEN {f.rejected, f.accepted}
                       ELSE IF f.pc # "publish" THEN {f.rejected} ELSE {}
         /\ \A action, kind :
              Holders(action, kind)' =
                Holders(action, kind)
                  \cup (IF f.pc = "publish" /\ action = t.action THEN {f.slot}
                                                                 ELSE {})
         /\ \A action : /\ Opens(action)' <=> action = t.action /\ f.pc # "publish"
                        /\ ~Passed(action)'
<1>1. /\ ExactInv /\ TypeOK /\ Subscriptions /\ Below = {}
      /\ \A action, kind : Holders(action, kind) = Waiting(action)
  BY OpeningTop
<1>2. Calls' = {f} BY <1>1, CallsReplaced
<1>3. ActionsApart' BY <1>1, ApartKept DEF Subscriptions
<1>4. Unwritten' = IF f.pc \in {"subscribe", "waitAccepted"}
                   THEN {f.rejected} ELSE {}
  BY <1>2 DEF Unwritten, Opening
<1>5. Unready' = IF f.pc \in {"subscribe", "waitAccepted"}
                 THEN {f.rejected, f.accepted}
                 ELSE IF f.pc # "publish" THEN {f.rejected} ELSE {}
  BY <1>2, <1>4 DEF Unready, Opening
<1>6. \A action : Waiting(action)' = Waiting(action) BY DEF Waiting
<1>7. \A action, kind :
        Holders(action, kind)' =
          Holders(action, kind)
            \cup (IF f.pc = "publish" /\ action = t.action THEN {f.slot}
                                                           ELSE {})
  BY <1>1, <1>2, <1>6 DEF Holders, Claims
<1>8. \A action : /\ Opens(action)' <=> action = t.action /\ f.pc # "publish"
                  /\ ~Passed(action)'
  BY <1>2 DEF Opens, Passed, Opening
<1>. QED BY <1>2, <1>3, <1>4, <1>5, <1>7, <1>8

\* There is a handler for the topic a request subscribes.
LEMMA HandlerFree ==
  ASSUME SubInv, RoomForAll, stack # <<>>, NEW t, t = Top, Opening(t)
  PROVE  FreeHandlers # {}
<1>. DEFINE used == {h \in Handlers : handlers[h] # 0}
            f == [h \in used |-> subs[handlers[h]].topic]
<1>. PICK T : T = (Actions \X Kinds) \ {<<t.action, "rejected">>} OBVIOUS
<1>1. /\ TypeOK /\ OpeningFits(t) /\ EntriesApart /\ HandlersFit
      /\ t.action \in Actions
      /\ Unready = IF t.pc \in {"subscribe", "waitAccepted"}
                   THEN {t.rejected, t.accepted} ELSE {t.rejected}
      /\ Unwritten = IF t.pc \in {"subscribe", "waitAccepted"}
                     THEN {t.rejected} ELSE {}
  BY OpeningTop DEF Subscriptions
<1>2. /\ IsFiniteSet(T) /\ Cardinality(T) \in Nat
      /\ Cardinality(T) + 1 <= MaxHandlers /\ MaxHandlers \in Nat
  <2>1. /\ Cardinality(Actions) \in Nat /\ IsFiniteSet(T)
        /\ Cardinality(T) = 2 * Cardinality(Actions) - 1
        /\ Cardinality(T) \in Nat
    BY <1>1, TopicsCount
  <2>2. 2 * Cardinality(Actions) <= MaxHandlers /\ MaxHandlers \in Nat
    BY ConstantsAssumption DEF RoomForAll
  <2>. QED BY <2>1, <2>2
<1>3. \A h \in used : /\ handlers[h] \in Written /\ handlers[h] \notin Unready
                      /\ handlers[h] \in Entries
  BY HandledLive DEF Written
<1>4. ASSUME NEW h \in used PROVE f[h] \in T
  <2>1. subs[handlers[h]].topic \in Topics /\ subs[handlers[h]].topic # <<>>
    BY <1>1, <1>3, EntryHas DEF EntriesApart
  <2>2. handlers[h] # t.rejected /\ subs[handlers[h]].inUse
    BY <1>1, <1>3 DEF Written
  <2>3. subs[handlers[h]].topic # <<t.action, "rejected">>
    <3>1. CASE t.pc \in {"subscribe", "waitAccepted"}
      BY <1>1, <1>3, <2>2, <3>1 DEF OpeningFits
    <3>2. CASE t.pc \in {"subscribeRejected", "waitRejected"}
      <4>1. /\ t.rejected \in Written /\ t.rejected \in Entries
            /\ subs[t.rejected].topic = <<t.action, "rejected">>
        BY <1>1, <3>2 DEF OpeningFits, Written
      <4>. QED BY <1>1, <1>3, <2>2, <4>1 DEF EntriesApart
    <3>. QED BY <1>1, <3>1, <3>2 DEF OpeningFits
  <2>. QED BY <2>1, <2>3 DEF Topics
<1>5. ASSUME NEW h \in used, NEW i \in used, f[h] = f[i] PROVE h = i
  <2>1. handlers[h] = handlers[i] BY <1>1, <1>3, <1>5 DEF EntriesApart
  <2>. QED BY <1>1, <2>1 DEF HandlersFit
<1>6. f \in [used -> T] BY <1>4
<1>7. used \in SUBSET (1 .. MaxHandlers) BY DEF Handlers
<1>. HIDE DEF f
<1>8. /\ IsFiniteSet((1 .. MaxHandlers) \ used)
      /\ Cardinality((1 .. MaxHandlers) \ used) \in Nat
      /\ Cardinality((1 .. MaxHandlers) \ used) >= 1
  <2>. HIDE DEF used
  <2>. QED BY <1>2, <1>5, <1>6, <1>7, Room
<1>9. (1 .. MaxHandlers) \ used # {} BY <1>8, FS_EmptySet
<1>. QED BY <1>9 DEF FreeHandlers, Handlers

\* A subscribe takes a handler and waits.
LEMMA SubscribeSub ==
  ASSUME SubInv, RoomForAll, Subscribe
  PROVE  Subscriptions'
<1>. PICK t : t = Top OBVIOUS
<1>1. /\ stack # <<>> /\ t.pc \in {"subscribe", "subscribeRejected"}
      /\ UNCHANGED <<acks, subs, handlers, told, seq>>
  BY DEF Subscribe, At
<1>2. Opening(t)
  BY <1>1, CallsAre DEF SubInv, Frame, EndingPoints, Opening
<1>3. /\ ExactInv /\ TypeOK /\ OpeningFits(t) /\ t \in Frame
      /\ t.op = "request" /\ Calls = {t} /\ seq \in Nat
      /\ t.slot \in Slots
      /\ Unwritten = IF t.pc \in {"subscribe", "waitAccepted"}
                     THEN {t.rejected} ELSE {}
      /\ Unready = IF t.pc \in {"subscribe", "waitAccepted"}
                   THEN {t.rejected, t.accepted} ELSE {t.rejected}
      /\ \A action : (Opens(action) <=> action = t.action) /\ ~Passed(action)
  BY <1>1, <1>2, OpeningTop DEF TypeOK
<1>4. FreeHandlers # {} BY <1>1, <1>2, HandlerFree
<1>5. PICK h \in Handlers :
        /\ Finds(h, FreeHandlers)
        /\ Replace([t EXCEPT !.handler = h,
                      !.pc = IF @ = "subscribe" THEN "waitAccepted"
                                                ELSE "waitRejected"])
  BY <1>4 DEF Subscribe, RoomForAll
<1>6. handlers[h] = 0 BY <1>4, <1>5 DEF Finds, FreeHandlers
<1>. PICK pc : pc = IF t.pc = "subscribe" THEN "waitAccepted" ELSE "waitRejected"
  OBVIOUS
<1>. PICK f \in Frame : f = [t EXCEPT !.handler = h, !.pc = pc]
  BY <1>3 DEF Frame, RequestPoints
<1>7. /\ f.op = "request" /\ f.slot = t.slot /\ f.action = t.action
      /\ f.accepted = t.accepted /\ f.rejected = t.rejected
      /\ f.sticky = t.sticky /\ f.handler = h /\ f.pc = pc
  BY <1>3 DEF Frame
<1>8. Replace(f) BY <1>5
<1>9. /\ Calls' = {f} /\ ActionsApart'
      /\ Unwritten' = IF f.pc \in {"subscribe", "waitAccepted"}
                      THEN {f.rejected} ELSE {}
      /\ Unready' = IF f.pc \in {"subscribe", "waitAccepted"}
                    THEN {f.rejected, f.accepted}
                    ELSE IF f.pc # "publish" THEN {f.rejected} ELSE {}
      /\ \A action, kind :
           Holders(action, kind)' =
             Holders(action, kind)
               \cup (IF f.pc = "publish" /\ action = t.action THEN {f.slot}
                                                              ELSE {})
      /\ \A action : /\ Opens(action)' <=> action = t.action /\ f.pc # "publish"
                     /\ ~Passed(action)'
  <2>1. UNCHANGED <<acks, told>> BY <1>1
  <2>2. t = Top /\ f \in Frame OBVIOUS
  <2>. QED BY ONLY SubInv, <1>1, <1>2, <1>7, <1>8, <2>1, <2>2, OpeningMoves
<1>10. f.pc # "publish" BY <1>7
<1>11. Unwritten' = Unwritten /\ Unready' = Unready
  BY <1>1, <1>3, <1>7, <1>9
<1>12. \A action, kind : Holders(action, kind)' = Holders(action, kind)
  BY <1>9, <1>10
<1>13. \A action : /\ Passed(action)' <=> Passed(action)
                   /\ Opens(action)' <=> Opens(action)
  BY <1>3, <1>9, <1>10
<1>14. OpeningFits(f)'
  BY <1>1, <1>3, <1>6, <1>7, <1>12 DEF OpeningFits, Waits
<1>15. CallFits(f)' BY <1>7, <1>14 DEF CallFits
<1>. QED BY <1>1, <1>3, <1>9, <1>11, <1>12, <1>13, <1>15, ListsKeep

\* How subscribing the first topic writes the entries.
LEMMA AcceptedEntries ==
  ASSUME TypeOK, SubscribedAccepted, NEW t, t = Top,
         t.accepted \in Entries, t.rejected \in Entries, t.accepted # t.rejected
  PROVE  /\ \A e \in Entries :
              /\ e # t.rejected => subs'[e].topic = subs[e].topic
              /\ e # t.accepted => /\ subs'[e].count = subs[e].count
                                   /\ subs'[e].sticky = subs[e].sticky
              /\ subs'[e].inUse = subs[e].inUse
         /\ subs'[t.accepted].count = 1 /\ subs'[t.accepted].sticky = t.sticky
         /\ subs'[t.rejected].topic = <<t.action, "rejected">>
<1>1. \A e \in Entries : subs[e] \in Entry BY EntryHas
<1>2. \A e \in Entries :
        subs'[e] = [subs[e] EXCEPT
          !.count = IF e = t.accepted THEN 1 ELSE @,
          !.sticky = IF e = t.accepted THEN t.sticky ELSE @,
          !.topic = IF e = t.rejected THEN <<t.action, "rejected">> ELSE @]
  BY DEF SubscribedAccepted
<1>3. ASSUME NEW e \in Entries
      PROVE  /\ subs'[e].count = IF e = t.accepted THEN 1 ELSE subs[e].count
             /\ subs'[e].sticky = IF e = t.accepted THEN t.sticky
                                                    ELSE subs[e].sticky
             /\ subs'[e].topic = IF e = t.rejected
                                 THEN <<t.action, "rejected">>
                                 ELSE subs[e].topic
             /\ subs'[e].inUse = subs[e].inUse
  <2>. PICK s \in Entry : s = subs[e] BY <1>1
  <2>. PICK c : c = IF e = t.accepted THEN 1 ELSE s.count OBVIOUS
  <2>. PICK k : k = IF e = t.accepted THEN t.sticky ELSE s.sticky OBVIOUS
  <2>. PICK p : p = IF e = t.rejected THEN <<t.action, "rejected">>
                                      ELSE s.topic
    OBVIOUS
  <2>1. subs'[e] = [s EXCEPT !.count = c, !.sticky = k, !.topic = p]
    BY <1>2
  <2>2. /\ subs'[e].count = c /\ subs'[e].sticky = k /\ subs'[e].topic = p
        /\ subs'[e].inUse = s.inUse
    BY <2>1 DEF Entry
  <2>. QED BY <2>2
<1>4. \A e \in Entries :
        /\ e # t.rejected => subs'[e].topic = subs[e].topic
        /\ e # t.accepted => /\ subs'[e].count = subs[e].count
                             /\ subs'[e].sticky = subs[e].sticky
        /\ subs'[e].inUse = subs[e].inUse
  BY <1>3
<1>5. /\ subs'[t.accepted].count = 1 /\ subs'[t.accepted].sticky = t.sticky
      /\ subs'[t.rejected].topic = <<t.action, "rejected">>
  BY <1>3
<1>. QED BY <1>4, <1>5

\* The first topic of a request is subscribed.
LEMMA SubscribedAcceptedSub ==
  ASSUME SubInv, SubscribedAccepted
  PROVE  Subscriptions'
<1>. PICK t : t = Top OBVIOUS
<1>. PICK f : f = [t EXCEPT !.pc = "subscribeRejected"] OBVIOUS
<1>1. /\ stack # <<>> /\ t.pc = "waitAccepted" /\ Replace(f)
      /\ handlers' = [handlers EXCEPT ![t.handler] = t.accepted]
      /\ UNCHANGED <<acks, told, seq>>
  BY DEF SubscribedAccepted, At, Goto
<1>2. Opening(t)
  BY <1>1, CallsAre DEF SubInv, Frame, EndingPoints, Opening
<1>3. /\ ExactInv /\ TypeOK /\ OpeningFits(t) /\ t \in Frame /\ FrameFits(t)
      /\ t.op = "request" /\ Calls = {t} /\ seq \in Nat
      /\ t.slot \in Slots /\ t.action \in Actions /\ t.token \in Tokens
      /\ Unwritten = {t.rejected} /\ Unready = {t.rejected, t.accepted}
      /\ EntriesApart /\ HandlersFit /\ CountsFit
      /\ \A action : (Opens(action) <=> action = t.action) /\ ~Passed(action)
  BY <1>1, <1>2, OpeningTop DEF TypeOK, Subscriptions
<1>4. /\ t.accepted \in Entries /\ t.rejected \in Entries
      /\ t.accepted # t.rejected
      /\ subs[t.accepted].inUse /\ subs[t.rejected].inUse
      /\ subs[t.accepted].topic = <<t.action, "accepted">>
      /\ \A e \in Entries \ {t.rejected} :
           subs[e].topic = <<t.action, "rejected">> =>
             ~subs[e].inUse /\ t.rejected < e
      /\ t.handler \in Handlers /\ handlers[t.handler] = 0
      /\ \A kind \in Kinds : Holders(t.action, kind) = {}
  BY <1>1, <1>3 DEF OpeningFits, Waits
<1>5. /\ f \in Frame /\ f.op = "request" /\ f.slot = t.slot
      /\ f.action = t.action /\ f.pc = "subscribeRejected"
      /\ f.accepted = t.accepted /\ f.rejected = t.rejected
      /\ f.sticky = t.sticky
  BY <1>3 DEF Frame, RequestPoints
<1>6. /\ Calls' = {f} /\ ActionsApart'
      /\ Unwritten' = {} /\ Unready' = {t.rejected}
      /\ \A action, kind : Holders(action, kind)' = Holders(action, kind)
      /\ \A action : (Opens(action)' <=> action = t.action) /\ ~Passed(action)'
  <2>1. /\ stack # <<>> /\ Replace(f) /\ f \in Frame /\ f.op = "request"
        /\ f.action = t.action /\ f.slot = t.slot /\ UNCHANGED <<acks, told>>
    BY <1>1, <1>5
  <2>2. t = Top OBVIOUS
  <2>3. /\ Calls' = {f} /\ ActionsApart'
        /\ Unwritten' = IF f.pc \in {"subscribe", "waitAccepted"}
                        THEN {f.rejected} ELSE {}
        /\ Unready' = IF f.pc \in {"subscribe", "waitAccepted"}
                      THEN {f.rejected, f.accepted}
                      ELSE IF f.pc # "publish" THEN {f.rejected} ELSE {}
        /\ \A action, kind :
             Holders(action, kind)' =
               Holders(action, kind)
                 \cup (IF f.pc = "publish" /\ action = t.action THEN {f.slot}
                                                                ELSE {})
        /\ \A action : /\ Opens(action)' <=> action = t.action /\ f.pc # "publish"
                       /\ ~Passed(action)'
    BY ONLY SubInv, <1>2, <2>1, <2>2, OpeningMoves
  <2>. QED BY <1>5, <2>3
<1>7. /\ \A e \in Entries :
           /\ e # t.rejected => subs'[e].topic = subs[e].topic
           /\ e # t.accepted => /\ subs'[e].count = subs[e].count
                                /\ subs'[e].sticky = subs[e].sticky
           /\ subs'[e].inUse = subs[e].inUse
      /\ subs'[t.accepted].count = 1 /\ subs'[t.accepted].sticky = t.sticky
      /\ subs'[t.rejected].topic = <<t.action, "rejected">>
  BY <1>3, <1>4, AcceptedEntries
<1>8. Written' = Written \cup {t.rejected} /\ t.rejected \notin Written
  BY <1>3, <1>4, <1>6, <1>7 DEF Written
<1>9. t.accepted \in Written BY <1>3, <1>4 DEF Written
<1>10. EntriesApart'
  <2>. SUFFICES ASSUME NEW e \in Written'
                PROVE  /\ subs'[e].topic # <<>>
                       /\ \A g \in Entries \ {e} :
                            subs'[g].topic = subs'[e].topic =>
                              g \notin Written' /\ e < g
    BY DEF EntriesApart
  <2>1. CASE e = t.rejected
    BY <1>4, <1>7, <1>8, <2>1 DEF Written
  <2>2. CASE e # t.rejected
    <3>1. e \in Written /\ e \in Entries /\ subs[e].inUse
          /\ subs'[e].topic = subs[e].topic
      BY <1>7, <1>8, <2>2 DEF Written
    <3>2. subs[e].topic # <<t.action, "rejected">> BY <1>4, <2>2, <3>1
    <3>3. ASSUME NEW g \in Entries \ {e}, subs'[g].topic = subs'[e].topic
          PROVE  g \notin Written' /\ e < g
      <4>1. g # t.rejected BY <1>7, <3>1, <3>2, <3>3
      <4>2. subs[g].topic = subs[e].topic BY <1>7, <3>1, <3>3, <4>1
      <4>. QED BY <1>3, <1>8, <3>1, <4>1, <4>2 DEF EntriesApart
    <3>. QED BY <1>3, <3>1, <3>3 DEF EntriesApart
  <2>. QED BY <2>1, <2>2
<1>11. HandlersFit'
  <2>1. /\ \A h \in Handlers : handlers'[h] = IF h = t.handler THEN t.accepted
                                                              ELSE handlers[h]
    BY <1>1, <1>3 DEF TypeOK
  <2>2. t.accepted # 0 BY <1>4 DEF Entries
  <2>3. \A h \in Handlers : handlers[h] # t.accepted
    <3>1. t.accepted \notin {handlers[h] : h \in Handlers} \ {0}
      BY <1>3 DEF HandlersFit
    <3>. QED BY <2>2, <3>1
  <2>4. {handlers'[h] : h \in Handlers} \ {0}
          = ({handlers[h] : h \in Handlers} \ {0}) \cup {t.accepted}
    BY <1>4, <2>1, <2>2
  <2>5. {e \in Entries : subs'[e].inUse} = {e \in Entries : subs[e].inUse}
    BY <1>7
  <2>6. {e \in Entries : subs[e].inUse} \ {t.rejected}
          = ({e \in Entries : subs[e].inUse} \ {t.rejected, t.accepted})
              \cup {t.accepted}
    BY <1>4
  <2>7. {handlers'[h] : h \in Handlers} \ {0}
          = {e \in Entries : subs'[e].inUse} \ {t.rejected}
    BY <1>3, <2>4, <2>5, <2>6 DEF HandlersFit
  <2>8. \A h, i \in Handlers :
          handlers'[h] = handlers'[i] /\ handlers'[h] # 0 => h = i
    BY <1>3, <2>1, <2>3 DEF HandlersFit
  <2>. QED BY <1>6, <2>7, <2>8 DEF HandlersFit
<1>12. CountsFit'
  <2>1. 1 <= seq BY <1>3, ConstantsAssumption DEF FrameFits, Tokens
  <2>2. \A e \in Entries : e = t.accepted \/ subs'[e].count = subs[e].count
    BY <1>7
  <2>3. \A e \in Entries : subs'[e].count <= seq
    BY <1>3, <1>7, <2>1, <2>2 DEF CountsFit
  <2>. QED BY <1>1, <2>3 DEF CountsFit
<1>13. ASSUME NEW action \in Actions, action # t.action
       PROVE  Supplied(action)' /\ Paired(action)'
  <2>1. ASSUME NEW kind \in Kinds
        PROVE  /\ Live(<<action, kind>>)' = Live(<<action, kind>>)
               /\ \A e \in Live(<<action, kind>>) :
                    /\ subs'[e].count = subs[e].count
                    /\ subs'[e].sticky = subs[e].sticky
    <3>1. \A e \in Written : /\ e \in Entries /\ e # t.rejected
                             /\ subs'[e].topic = subs[e].topic
      BY <1>7, <1>8 DEF Written
    <3>2. Live(<<action, kind>>)' = Live(<<action, kind>>)
      BY <1>7, <1>8, <1>13, <3>1 DEF Live
    <3>3. \A e \in Live(<<action, kind>>) : e # t.accepted /\ e \in Entries
      BY <1>4, <1>13, <3>1 DEF Live
    <3>. QED BY <1>7, <3>2, <3>3
  <2>2. Opens(action)' <=> Opens(action) BY <1>3, <1>6
  <2>3. Passed(action)' <=> Passed(action) BY <1>3, <1>6
  <2>4. \A kind \in Kinds :
          Holders(action, kind)' \subseteq Holders(action, kind)
    BY <1>6
  <2>. QED BY <2>1, <2>2, <2>3, <2>4, ActionStays
<1>14. Supplied(t.action)' /\ Paired(t.action)'
  <2>1. \A kind \in Kinds : Holders(t.action, kind)' = {}
    BY <1>4, <1>6
  <2>2. \A e \in Entries : subs'[e].count \in Nat
    BY <1>3, <1>7, EntryHas
  <2>3. Supplied(t.action)'
    <3>1. ASSUME NEW kind \in Kinds, NEW e \in Live(<<t.action, kind>>)'
          PROVE  Cardinality(Holders(t.action, kind)') <= subs'[e].count
      <4>1. e \in Entries /\ subs'[e].count \in Nat
        BY <2>2 DEF Live, Written
      <4>2. Cardinality(Holders(t.action, kind)') = 0
        BY <2>1, FS_EmptySet
      <4>. QED BY <4>1, <4>2
    <3>. QED BY <2>1, <3>1 DEF Supplied
  <2>4. Opens(t.action)' /\ ~Passed(t.action)' BY <1>6
  <2>. QED BY <2>3, <2>4 DEF Paired
<1>15. CallFits(f)'
  <2>1. \A kind \in Kinds : Holders(f.action, kind)' = {}
    BY <1>4, <1>5, <1>6
  <2>2. OpeningFits(f)'
    BY <1>4, <1>5, <1>7, <2>1 DEF OpeningFits, Waits
  <2>. QED BY <1>5, <2>2 DEF CallFits
<1>. QED BY <1>6, <1>10, <1>11, <1>12, <1>13, <1>14, <1>15 DEF Subscriptions

\* Both topics of a request are subscribed: it is published next.
LEMMA SubscribedRejectedSub ==
  ASSUME SubInv, SubscribedRejected
  PROVE  Subscriptions'
<1>. PICK t : t = Top OBVIOUS
<1>. PICK f : f = [t EXCEPT !.pc = "publish"] OBVIOUS
<1>1. /\ stack # <<>> /\ t.pc = "waitRejected" /\ Replace(f)
      /\ handlers' = [handlers EXCEPT ![t.handler] = t.rejected]
      /\ subs' = [subs EXCEPT
           ![t.rejected] = [@ EXCEPT !.count = 1, !.sticky = t.sticky]]
      /\ UNCHANGED <<acks, told, seq>>
  BY DEF SubscribedRejected, At, Goto
<1>2. Opening(t)
  BY <1>1, CallsAre DEF SubInv, Frame, EndingPoints, Opening
<1>3. /\ ExactInv /\ TypeOK /\ OpeningFits(t) /\ t \in Frame /\ FrameFits(t)
      /\ t.op = "request" /\ Calls = {t} /\ seq \in Nat
      /\ t.slot \in Slots /\ t.action \in Actions /\ t.token \in Tokens
      /\ Unwritten = {} /\ Unready = {t.rejected}
      /\ EntriesApart /\ HandlersFit /\ CountsFit
      /\ \A action : (Opens(action) <=> action = t.action) /\ ~Passed(action)
  BY <1>1, <1>2, OpeningTop DEF TypeOK, Subscriptions
<1>4. /\ t.accepted \in Entries /\ t.rejected \in Entries
      /\ t.accepted # t.rejected
      /\ subs[t.accepted].inUse /\ subs[t.rejected].inUse
      /\ subs[t.accepted].topic = <<t.action, "accepted">>
      /\ subs[t.rejected].topic = <<t.action, "rejected">>
      /\ subs[t.accepted].count = 1 /\ subs[t.accepted].sticky = t.sticky
      /\ t.handler \in Handlers /\ handlers[t.handler] = 0
      /\ \A kind \in Kinds : Holders(t.action, kind) = {}
  BY <1>1, <1>3 DEF OpeningFits, Waits
<1>5. /\ f \in Frame /\ f.op = "request" /\ f.slot = t.slot
      /\ f.action = t.action /\ f.pc = "publish"
  BY <1>3 DEF Frame, RequestPoints
<1>6. /\ Calls' = {f} /\ ActionsApart'
      /\ Unwritten' = {} /\ Unready' = {}
      /\ \A action, kind :
           Holders(action, kind)' =
             Holders(action, kind)
               \cup (IF action = t.action THEN {f.slot} ELSE {})
      /\ \A action : ~Opens(action)' /\ ~Passed(action)'
  <2>1. /\ stack # <<>> /\ Replace(f) /\ f \in Frame /\ f.op = "request"
        /\ f.action = t.action /\ f.slot = t.slot /\ UNCHANGED <<acks, told>>
    BY <1>1, <1>5
  <2>2. t = Top OBVIOUS
  <2>3. /\ Calls' = {f} /\ ActionsApart'
        /\ Unwritten' = IF f.pc \in {"subscribe", "waitAccepted"}
                        THEN {f.rejected} ELSE {}
        /\ Unready' = IF f.pc \in {"subscribe", "waitAccepted"}
                      THEN {f.rejected, f.accepted}
                      ELSE IF f.pc # "publish" THEN {f.rejected} ELSE {}
        /\ \A action, kind :
             Holders(action, kind)' =
               Holders(action, kind)
                 \cup (IF f.pc = "publish" /\ action = t.action THEN {f.slot}
                                                                ELSE {})
        /\ \A action : /\ Opens(action)' <=> action = t.action /\ f.pc # "publish"
                       /\ ~Passed(action)'
    BY ONLY SubInv, <1>2, <2>1, <2>2, OpeningMoves
  <2>. QED BY <1>5, <2>3
<1>7. /\ \A e \in Entries : /\ e # t.rejected => subs'[e] = subs[e]
                            /\ subs'[e].topic = subs[e].topic
                            /\ subs'[e].inUse = subs[e].inUse
      /\ subs'[t.rejected].count = 1 /\ subs'[t.rejected].sticky = t.sticky
  <2>. PICK s \in Entry : s = subs[t.rejected] BY <1>3, <1>4, EntryHas
  <2>1. \A e \in Entries : e # t.rejected => subs'[e] = subs[e]
    BY <1>1, <1>3 DEF TypeOK
  <2>2. subs'[t.rejected] = [s EXCEPT !.count = 1, !.sticky = t.sticky]
    BY <1>1, <1>3, <1>4 DEF TypeOK
  <2>3. /\ subs'[t.rejected].topic = s.topic /\ subs'[t.rejected].inUse = s.inUse
        /\ subs'[t.rejected].count = 1 /\ subs'[t.rejected].sticky = t.sticky
    BY <2>2 DEF Entry
  <2>. QED BY <2>1, <2>3
<1>8. Written' = Written /\ Written \subseteq Entries
  BY <1>3, <1>6, <1>7 DEF Written
<1>9. \A topic : Live(topic)' = Live(topic)
  <2>. TAKE topic
  <2>. QED BY <1>7, <1>8 DEF Live
<1>10. EntriesApart' BY <1>3, <1>7, <1>8 DEF EntriesApart
<1>11. HandlersFit'
  <2>1. /\ \A h \in Handlers : handlers'[h] = IF h = t.handler THEN t.rejected
                                                              ELSE handlers[h]
    BY <1>1, <1>3 DEF TypeOK
  <2>2. t.rejected # 0 BY <1>4 DEF Entries
  <2>3. \A h \in Handlers : handlers[h] # t.rejected
    <3>1. t.rejected \notin {handlers[h] : h \in Handlers} \ {0}
      BY <1>3 DEF HandlersFit
    <3>. QED BY <2>2, <3>1
  <2>4. {handlers'[h] : h \in Handlers} \ {0}
          = ({handlers[h] : h \in Handlers} \ {0}) \cup {t.rejected}
    BY <1>4, <2>1, <2>2
  <2>5. {e \in Entries : subs'[e].inUse} = {e \in Entries : subs[e].inUse}
    BY <1>7
  <2>6. {e \in Entries : subs[e].inUse}
          = ({e \in Entries : subs[e].inUse} \ {t.rejected}) \cup {t.rejected}
    BY <1>4
  <2>7. {handlers'[h] : h \in Handlers} \ {0} = {e \in Entries : subs'[e].inUse}
    BY <1>3, <2>4, <2>5, <2>6 DEF HandlersFit
  <2>8. \A h, i \in Handlers :
          handlers'[h] = handlers'[i] /\ handlers'[h] # 0 => h = i
    BY <1>3, <2>1, <2>3 DEF HandlersFit
  <2>. QED BY <1>6, <2>7, <2>8 DEF HandlersFit
<1>12. CountsFit'
  <2>1. 1 <= seq BY <1>3, ConstantsAssumption DEF FrameFits, Tokens
  <2>2. \A e \in Entries : subs'[e].count <= seq
    BY <1>3, <1>7, <2>1 DEF CountsFit
  <2>. QED BY <1>1, <2>2 DEF CountsFit
<1>13. ASSUME NEW action \in Actions, action # t.action
       PROVE  Supplied(action)' /\ Paired(action)'
  <2>1. ASSUME NEW kind \in Kinds
        PROVE  /\ Live(<<action, kind>>)' = Live(<<action, kind>>)
               /\ \A e \in Live(<<action, kind>>) :
                    /\ subs'[e].count = subs[e].count
                    /\ subs'[e].sticky = subs[e].sticky
    BY <1>4, <1>7, <1>8, <1>9, <1>13 DEF Live
  <2>2. Opens(action)' <=> Opens(action) BY <1>3, <1>6, <1>13
  <2>3. Passed(action)' <=> Passed(action) BY <1>3, <1>6
  <2>4. \A kind \in Kinds :
          Holders(action, kind)' \subseteq Holders(action, kind)
    BY <1>6, <1>13
  <2>. QED BY <2>1, <2>2, <2>3, <2>4, ActionStays
<1>14. /\ Live(<<t.action, "accepted">>)' = {t.accepted}
       /\ Live(<<t.action, "rejected">>)' = {t.rejected}
  <2>1. t.accepted \in Written /\ t.rejected \in Written
    BY <1>3, <1>4 DEF Written
  <2>2. /\ Live(<<t.action, "accepted">>) = {t.accepted}
        /\ Live(<<t.action, "rejected">>) = {t.rejected}
    BY <1>3, <1>4, <1>8, <2>1 DEF EntriesApart, Live
  <2>. QED BY <1>9, <2>2
<1>15. /\ subs'[t.accepted].count = 1 /\ subs'[t.accepted].sticky = t.sticky
  BY <1>4, <1>7
<1>16. Supplied(t.action)' /\ Paired(t.action)'
  <2>1. \A kind \in Kinds : Holders(t.action, kind)' = {f.slot}
    BY <1>4, <1>6
  <2>2. Supplied(t.action)'
    <3>1. ASSUME NEW kind \in Kinds
          PROVE  /\ Live(<<t.action, kind>>)' # {}
                 /\ \A e \in Live(<<t.action, kind>>)' :
                      Cardinality(Holders(t.action, kind)') <= subs'[e].count
      <4>1. Cardinality(Holders(t.action, kind)') = 1
        BY <2>1, FS_Singleton
      <4>2. /\ Live(<<t.action, kind>>)' # {}
            /\ \A e \in Live(<<t.action, kind>>)' : subs'[e].count = 1
        BY <1>7, <1>14, <1>15 DEF Kinds
      <4>. QED BY <4>1, <4>2
    <3>. QED BY <3>1 DEF Supplied
  <2>3. Paired(t.action)'
    BY <1>6, <1>7, <1>14, <1>15 DEF Paired, Alike
  <2>. QED BY <2>2, <2>3
<1>17. CallFits(f)' BY <1>5 DEF CallFits, Opening
<1>. QED BY <1>6, <1>10, <1>11, <1>12, <1>13, <1>16, <1>17 DEF Subscriptions

-----------------------------------------------------------------------------
(* A request begins. *)

\* What the invariant says while no call is in progress.
LEMMA AtRest ==
  ASSUME SubInv, stack = <<>>
  PROVE  /\ ExactInv /\ TypeOK /\ Subscriptions /\ seq \in Nat
         /\ Calls = {} /\ Unwritten = {} /\ Unready = {}
         /\ Written = {e \in Entries : subs[e].inUse}
         /\ \A topic : Live(topic) = EntriesOf(topic)
         /\ \A action, kind : Holders(action, kind) = Waiting(action)
         /\ \A action : ~Opens(action) /\ ~Passed(action)
<1>1. ExactInv /\ TypeOK /\ Subscriptions /\ seq \in Nat /\ Calls = {}
  BY CallsAre DEF SubInv, TypeOK
<1>2. Unwritten = {} BY <1>1 DEF Unwritten
<1>3. Unready = {} BY <1>1, <1>2 DEF Unready
<1>4. Written = {e \in Entries : subs[e].inUse} BY <1>2 DEF Written
<1>5. \A topic : Live(topic) = EntriesOf(topic)
  BY <1>4 DEF Live, EntriesOf
<1>6. \A action, kind : Holders(action, kind) = Waiting(action)
  BY <1>1 DEF Holders
<1>7. \A action : ~Opens(action) /\ ~Passed(action)
  BY <1>1 DEF Opens, Passed
<1>. QED BY <1>1, <1>2, <1>3, <1>4, <1>5, <1>6, <1>7

\* And once a request is in progress.
LEMMA Enters ==
  ASSUME SubInv, stack = <<>>, NEW f \in Frame, stack' = Append(stack, f),
         f.op = "request", UNCHANGED <<acks, told>>
  PROVE  /\ Calls' = {f} /\ ActionsApart'
         /\ Unwritten' = IF f.pc \in {"subscribe", "waitAccepted"}
                         THEN {f.rejected} ELSE {}
         /\ Unready' = IF f.pc \in {"subscribe", "waitAccepted"}
                       THEN {f.rejected, f.accepted}
                       ELSE IF f.pc # "publish" THEN {f.rejected} ELSE {}
         /\ \A action, kind :
              Holders(action, kind)' =
                Holders(action, kind)
                  \cup (IF f.pc = "publish" /\ action = f.action THEN {f.slot}
                                                                 ELSE {})
         /\ \A action : /\ Opens(action)' <=> action = f.action /\ f.pc # "publish"
                        /\ ~Passed(action)'
<1>1. /\ TypeOK /\ Calls = {}
      /\ \A action, kind : Holders(action, kind) = Waiting(action)
  BY AtRest
<1>2. Calls' = {f} BY <1>1, CallsEntered
<1>3. ActionsApart'
  <2>1. Len(stack') = 1 BY <1>1, EnterShape
  <2>2. Depths' = {1} BY <2>1 DEF Depths
  <2>. QED BY <2>2 DEF ActionsApart
<1>4. Unwritten' = IF f.pc \in {"subscribe", "waitAccepted"}
                   THEN {f.rejected} ELSE {}
  BY <1>2 DEF Unwritten, Opening
<1>5. Unready' = IF f.pc \in {"subscribe", "waitAccepted"}
                 THEN {f.rejected, f.accepted}
                 ELSE IF f.pc # "publish" THEN {f.rejected} ELSE {}
  BY <1>2, <1>4 DEF Unready, Opening
<1>6. \A action : Waiting(action)' = Waiting(action) BY DEF Waiting
<1>7. \A action, kind :
        Holders(action, kind)' =
          Holders(action, kind)
            \cup (IF f.pc = "publish" /\ action = f.action THEN {f.slot}
                                                           ELSE {})
  BY <1>1, <1>2, <1>6 DEF Holders, Claims
<1>8. \A action : /\ Opens(action)' <=> action = f.action /\ f.pc # "publish"
                  /\ ~Passed(action)'
  BY <1>2 DEF Opens, Passed, Opening
<1>. QED BY <1>2, <1>3, <1>4, <1>5, <1>7, <1>8

\* The topics of the action are subscribed: they count one more.
LEMMA RequestCounts ==
  ASSUME SubInv, RoomForAll, stack = <<>>, NEW action \in Actions,
         NEW sticky \in BOOLEAN, NEW slot \in Slots, seq < MaxRequests,
         seq' = seq + 1, UNCHANGED <<acks, handlers, told>>,
         SubscriptionPresent(action),
         subs' = [e \in Entries |->
            IF \E kind \in Kinds : e \in EntriesOf(<<action, kind>>)
            THEN [subs[e] EXCEPT !.count = (@ + 1) % 256, !.sticky = sticky]
            ELSE subs[e]],
         stack' = Append(stack, NewRequest(action, sticky, slot))
  PROVE  Subscriptions'
<1>1. /\ ExactInv /\ TypeOK /\ Subscriptions /\ seq \in Nat
      /\ Calls = {} /\ Unwritten = {} /\ Unready = {}
      /\ EntriesApart /\ HandlersFit /\ CountsFit
      /\ Written = {e \in Entries : subs[e].inUse}
      /\ \A topic : Live(topic) = EntriesOf(topic)
      /\ \A other : ~Opens(other) /\ ~Passed(other)
  BY AtRest DEF Subscriptions
<1>. PICK f \in Frame : f = NewRequest(action, sticky, slot)
  BY <1>1, NewRequestType
<1>2. f.op = "request" /\ f.pc = "publish" /\ f.action = action
      /\ f.slot = slot
  BY DEF NewRequest
<1>3. /\ Calls' = {f} /\ ActionsApart' /\ Unwritten' = {} /\ Unready' = {}
      /\ \A other, kind :
           Holders(other, kind)' =
             Holders(other, kind) \cup (IF other = action THEN {slot} ELSE {})
      /\ \A other : ~Opens(other)' /\ ~Passed(other)'
  <2>1. /\ Calls' = {f} /\ ActionsApart'
        /\ Unwritten' = IF f.pc \in {"subscribe", "waitAccepted"}
                        THEN {f.rejected} ELSE {}
        /\ Unready' = IF f.pc \in {"subscribe", "waitAccepted"}
                      THEN {f.rejected, f.accepted}
                      ELSE IF f.pc # "publish" THEN {f.rejected} ELSE {}
        /\ \A other, kind :
             Holders(other, kind)' =
               Holders(other, kind)
                 \cup (IF f.pc = "publish" /\ other = f.action THEN {f.slot}
                                                               ELSE {})
        /\ \A other : /\ Opens(other)' <=> other = f.action /\ f.pc # "publish"
                      /\ ~Passed(other)'
    <3>1. stack' = Append(stack, f) /\ f \in Frame /\ UNCHANGED <<acks, told>>
      OBVIOUS
    <3>2. stack = <<>> OBVIOUS
    <3>. QED BY ONLY SubInv, <1>2, <3>1, <3>2, Enters
  <2>. QED BY <1>2, <2>1
<1>4. ASSUME NEW e \in Entries
      PROVE  /\ subs'[e].inUse = subs[e].inUse
             /\ subs'[e].topic = subs[e].topic
             /\ (\A kind \in Kinds : e \notin Live(<<action, kind>>)) =>
                  /\ subs'[e].count = subs[e].count
                  /\ subs'[e].sticky = subs[e].sticky
             /\ (\E kind \in Kinds : e \in Live(<<action, kind>>)) =>
                  /\ subs'[e].count = subs[e].count + 1
                  /\ subs'[e].sticky = sticky
             /\ subs[e].count \in Nat /\ subs[e].count <= seq
  <2>. PICK s \in Entry : s = subs[e] BY <1>1, EntryHas
  <2>1. s.count \in Nat /\ s.count <= seq
    BY <1>1, EntryHas DEF CountsFit
  <2>2. (s.count + 1) % 256 = s.count + 1
    <3>1. MaxRequests \in Nat /\ MaxRequests <= 255
      BY ConstantsAssumption DEF RoomForAll
    <3>2. seq \in Nat /\ seq < MaxRequests BY <1>1
    <3>3. s.count + 1 \in 0 .. 255 BY ONLY <2>1, <3>1, <3>2
    <3>4. \A c \in 0 .. 255 : c % 256 = c BY ONLY SMT
    <3>. QED BY ONLY <3>3, <3>4
  <2>3. CASE \E kind \in Kinds : e \in EntriesOf(<<action, kind>>)
    <3>. PICK c : c = (s.count + 1) % 256 OBVIOUS
    <3>1. subs'[e] = [s EXCEPT !.count = c, !.sticky = sticky] BY <2>3
    <3>2. /\ subs'[e].count = c /\ subs'[e].sticky = sticky
          /\ subs'[e].inUse = s.inUse /\ subs'[e].topic = s.topic
      BY <3>1 DEF Entry
    <3>3. c = s.count + 1 BY <2>2
    <3>. QED BY <1>1, <2>1, <2>3, <3>2, <3>3
  <2>4. CASE ~\E kind \in Kinds : e \in EntriesOf(<<action, kind>>)
    <3>1. subs'[e] = subs[e] BY <2>4
    <3>. QED BY <1>1, <2>1, <2>4, <3>1
  <2>. QED BY <2>3, <2>4
<1>5. /\ Written' = Written /\ Written \subseteq Entries
      /\ {e \in Entries : subs[e].inUse}' = {e \in Entries : subs[e].inUse}
  <2>1. {e \in Entries : subs[e].inUse}' = {e \in Entries : subs[e].inUse}
    BY <1>4
  <2>. QED BY <1>1, <1>3, <2>1 DEF Written
<1>6. \A topic : Live(topic)' = Live(topic)
  <2>. TAKE topic
  <2>. QED BY <1>4, <1>5 DEF Live
<1>7. EntriesApart'
  <2>1. \A e \in Entries : subs'[e].topic = subs[e].topic BY <1>4
  <2>2. EntriesApart /\ UNCHANGED Written BY <1>1, <1>5
  <2>. QED BY ONLY <1>5, <2>1, <2>2 DEF EntriesApart
<1>8. HandlersFit'
  <2>1. HandlersFit /\ UNCHANGED <<handlers, Unready>> BY <1>1, <1>3
  <2>. QED BY ONLY <1>5, <2>1 DEF HandlersFit
<1>9. CountsFit'
  <2>1. ASSUME NEW e \in Entries PROVE subs'[e].count <= seq + 1
    <3>1. /\ subs[e].count \in Nat /\ subs[e].count <= seq /\ seq \in Nat
          /\ \/ subs'[e].count = subs[e].count
             \/ subs'[e].count = subs[e].count + 1
      BY <1>1, <1>4
    <3>. QED BY ONLY <3>1
  <2>. QED BY <2>1 DEF CountsFit
<1>10. ASSUME NEW other \in Actions, other # action
       PROVE  Supplied(other)' /\ Paired(other)'
  <2>1. ASSUME NEW kind \in Kinds
        PROVE  /\ Live(<<other, kind>>)' = Live(<<other, kind>>)
               /\ \A e \in Live(<<other, kind>>) :
                    /\ subs'[e].count = subs[e].count
                    /\ subs'[e].sticky = subs[e].sticky
    <3>1. \A e \in Live(<<other, kind>>) :
            e \in Entries /\ \A k \in Kinds : e \notin Live(<<action, k>>)
      BY ONLY <1>5, <1>10 DEF Live
    <3>2. ASSUME NEW e \in Live(<<other, kind>>)
          PROVE  /\ subs'[e].count = subs[e].count
                 /\ subs'[e].sticky = subs[e].sticky
      BY ONLY <1>4, <3>1, <3>2
    <3>. QED BY ONLY <1>6, <3>2
  <2>2. Opens(other)' <=> Opens(other) BY <1>1, <1>3
  <2>3. Passed(other)' <=> Passed(other) BY <1>1, <1>3
  <2>4. \A kind \in Kinds : Holders(other, kind)' \subseteq Holders(other, kind)
    BY <1>3, <1>10
  <2>. QED BY <2>1, <2>2, <2>3, <2>4, ActionStays
<1>11. Supplied(action)'
  <2>. SUFFICES ASSUME NEW kind \in Kinds
                PROVE  /\ Live(<<action, kind>>)' # {}
                       /\ \A e \in Live(<<action, kind>>)' :
                            Cardinality(Holders(action, kind)') <= subs'[e].count
    BY DEF Supplied
  <2>1. PICK S : S = Holders(action, kind) OBVIOUS
  <2>2. IsFiniteSet(S) /\ Cardinality(S) \in Nat BY <1>1, <2>1, HoldersFinite
  <2>3. /\ IsFiniteSet(S \cup {slot})
        /\ Cardinality(S \cup {slot}) =
             IF slot \in S THEN Cardinality(S) ELSE Cardinality(S) + 1
    BY <2>2, FS_AddElement
  <2>4. Cardinality(S \cup {slot}) \in Nat
        /\ Cardinality(S \cup {slot}) <= Cardinality(S) + 1
    BY ONLY <2>2, <2>3
  <2>5. Holders(action, kind)' = S \cup {slot} BY <1>3, <2>1
  <2>6. \A e \in Live(<<action, kind>>) : Cardinality(S) <= subs[e].count
    BY <1>1, <2>1 DEF Subscriptions, Supplied
  <2>7. \A e \in Live(<<action, kind>>) :
          /\ e \in Entries /\ subs'[e].count = subs[e].count + 1
          /\ subs[e].count \in Nat
    BY <1>4, <1>5 DEF Live
  <2>8. ASSUME NEW e \in Live(<<action, kind>>)
        PROVE  Cardinality(S \cup {slot}) <= subs'[e].count
    BY ONLY <2>2, <2>4, <2>6, <2>7, <2>8
  <2>9. Live(<<action, kind>>) # {} BY <1>1 DEF SubscriptionPresent
  <2>. QED BY <1>6, <2>5, <2>8, <2>9
<1>12. Paired(action)'
  <2>1. Paired(action) BY <1>1 DEF Subscriptions
  <2>. DEFINE a == Live(<<action, "accepted">>)
              r == Live(<<action, "rejected">>)
  <2>2. (a = {} <=> r = {}) /\ \A e \in a, g \in r : Alike(e, g)
    BY <1>1, <2>1 DEF Paired
  <2>3. ASSUME NEW e \in a, NEW g \in r PROVE Alike(e, g)'
    <3>1. e \in Entries /\ g \in Entries BY <1>5 DEF Live
    <3>2. /\ subs'[e].count = subs[e].count + 1 /\ subs'[e].sticky = sticky
          /\ subs'[g].count = subs[g].count + 1 /\ subs'[g].sticky = sticky
      BY <1>4, <3>1 DEF Kinds
    <3>3. subs[e].count = subs[g].count BY <2>2 DEF Alike
    <3>. QED BY <3>2, <3>3 DEF Alike
  <2>4. a' = a /\ r' = r BY <1>6
  <2>. HIDE DEF a, r
  <2>5. (a' = {} <=> r' = {}) /\ \A e \in a', g \in r' : Alike(e, g)'
    BY <2>2, <2>3, <2>4
  <2>. QED BY <1>3, <2>5 DEF Paired, a, r
<1>13. CallFits(f)' BY <1>2 DEF CallFits, Opening
<1>. QED BY <1>3, <1>7, <1>8, <1>9, <1>10, <1>11, <1>12, <1>13 DEF Subscriptions

\* There are two entries for the topics of an action that has none.
LEMMA EntriesFree ==
  ASSUME SubInv, RoomForAll, stack = <<>>, NEW action \in Actions,
         ~SubscriptionPresent(action)
  PROVE  /\ \A kind \in Kinds : Live(<<action, kind>>) = {}
         /\ FreeEntries # {} /\ \A a : FreeEntries \ {a} # {}
<1>. DEFINE used == {e \in Entries : subs[e].inUse}
            f == [e \in used |-> subs[e].topic]
<1>. PICK T : T = ((Actions \X Kinds) \ {<<action, "rejected">>})
                    \ {<<action, "accepted">>}
  OBVIOUS
<1>1. /\ TypeOK /\ EntriesApart /\ Paired(action) /\ Written = used
      /\ \A topic : Live(topic) = EntriesOf(topic)
      /\ ~Opens(action) /\ ~Passed(action)
  BY AtRest DEF Subscriptions
<1>2. \A kind \in Kinds : Live(<<action, kind>>) = {}
  <2>1. \E kind \in Kinds : Live(<<action, kind>>) = {}
    BY <1>1 DEF SubscriptionPresent
  <2>2. Live(<<action, "accepted">>) = {} <=> Live(<<action, "rejected">>) = {}
    BY <1>1 DEF Paired
  <2>. QED BY <2>1, <2>2 DEF Kinds
<1>3. /\ IsFiniteSet(T) /\ Cardinality(T) \in Nat
      /\ Cardinality(T) + 2 <= MaxTopics /\ MaxTopics \in Nat
  <2>1. /\ Cardinality(Actions) \in Nat /\ IsFiniteSet(T)
        /\ Cardinality(T) = 2 * Cardinality(Actions) - 2
        /\ Cardinality(T) \in Nat
    BY TopicsCount
  <2>2. 2 * Cardinality(Actions) <= MaxTopics /\ MaxTopics \in Nat
    BY ConstantsAssumption DEF RoomForAll
  <2>. QED BY <2>1, <2>2
<1>4. ASSUME NEW e \in used PROVE f[e] \in T
  <2>1. subs[e].topic \in Topics /\ subs[e].topic # <<>>
    BY <1>1, EntryHas DEF EntriesApart
  <2>2. \A kind \in Kinds : subs[e].topic # <<action, kind>>
    BY <1>1, <1>2 DEF EntriesOf
  <2>3. subs[e].topic \in Actions \X Kinds BY <2>1 DEF Topics
  <2>. QED BY <2>2, <2>3 DEF Kinds
<1>5. ASSUME NEW e \in used, NEW g \in used, f[e] = f[g] PROVE e = g
  BY <1>1, <1>5 DEF EntriesApart
<1>6. f \in [used -> T] BY <1>4
<1>7. used \in SUBSET (1 .. MaxTopics) BY DEF Entries
<1>. HIDE DEF f
<1>8. /\ IsFiniteSet((1 .. MaxTopics) \ used)
      /\ Cardinality((1 .. MaxTopics) \ used) \in Nat
      /\ Cardinality((1 .. MaxTopics) \ used) >= 2
  <2>. HIDE DEF used
  <2>. QED BY <1>3, <1>5, <1>6, <1>7, Room
<1>. PICK free : free = (1 .. MaxTopics) \ used OBVIOUS
<1>9. FreeEntries = free BY DEF FreeEntries, Entries
<1>10. IsFiniteSet(free) /\ Cardinality(free) \in Nat /\ Cardinality(free) >= 2
  BY <1>8
<1>11. free # {} BY ONLY <1>10, FS_EmptySet
<1>12. ASSUME NEW a PROVE free \ {a} # {}
  <2>1. /\ IsFiniteSet(free \ {a})
        /\ Cardinality(free \ {a}) = IF a \in free THEN Cardinality(free) - 1
                                                   ELSE Cardinality(free)
    BY <1>10, FS_RemoveElement
  <2>2. Cardinality(free \ {a}) >= 1 BY ONLY <1>10, <2>1
  <2>. QED BY ONLY <2>1, <2>2, FS_EmptySet
<1>. QED BY <1>2, <1>9, <1>11, <1>12

\* The entries and the call of a request for whose topics they are taken.
Taken(action, a, r) ==
  [e \in Entries |->
    [subs[e] EXCEPT !.inUse = @ \/ e \in {a, r},
                    !.topic = IF e = a /\ r # 0
                              THEN <<action, "accepted">> ELSE @]]
Takes(action, sticky, slot, a, r) ==
  [NewRequest(action, sticky, slot) EXCEPT
    !.pc = IF r # 0 THEN "subscribe" ELSE "clear",
    !.accepted = a, !.rejected = r]

\* They are not: the request opens them, on the first two free entries.
LEMMA RequestOpens ==
  ASSUME SubInv, RoomForAll, stack = <<>>, NEW action \in Actions,
         NEW sticky \in BOOLEAN, NEW slot \in Slots, seq < MaxRequests,
         seq' = seq + 1, UNCHANGED <<acks, handlers, told>>,
         ~SubscriptionPresent(action),
         NEW a \in Entries \cup {0}, NEW r \in Entries \cup {0},
         Finds(a, FreeEntries), Finds(r, FreeEntries \ {a}),
         subs' = Taken(action, a, r),
         stack' = Append(stack, Takes(action, sticky, slot, a, r))
  PROVE  Subscriptions'
<1>1. /\ ExactInv /\ TypeOK /\ Subscriptions /\ seq \in Nat
      /\ Calls = {} /\ Unwritten = {} /\ Unready = {}
      /\ EntriesApart /\ HandlersFit /\ CountsFit
      /\ Written = {e \in Entries : subs[e].inUse}
      /\ \A topic : Live(topic) = EntriesOf(topic)
      /\ \A other : ~Opens(other) /\ ~Passed(other)
  BY AtRest DEF Subscriptions
<1>2. /\ \A kind \in Kinds : Live(<<action, kind>>) = {}
      /\ a \in FreeEntries /\ r \in FreeEntries /\ a # r
      /\ \A e \in FreeEntries : a <= e
      /\ \A e \in FreeEntries : e # a => r <= e
  BY EntriesFree DEF Finds
<1>3. /\ a \in Entries /\ r \in Entries /\ r # 0
      /\ ~subs[a].inUse /\ ~subs[r].inUse /\ Entries \subseteq Nat
  <2>1. Entries \subseteq Nat /\ 0 \notin Entries
    BY ONLY ConstantsAssumption DEF Entries
  <2>. QED BY ONLY <1>2, <2>1 DEF FreeEntries
<1>. PICK f : f = [NewRequest(action, sticky, slot) EXCEPT
                    !.pc = "subscribe", !.accepted = a, !.rejected = r]
  OBVIOUS
<1>4. /\ f \in Frame /\ f.op = "request" /\ f.pc = "subscribe"
      /\ f.action = action /\ f.slot = slot
      /\ f.accepted = a /\ f.rejected = r
  BY <1>1, <1>3, NewRequestType DEF NewRequest, Frame, RequestPoints
<1>5. /\ Calls' = {f} /\ ActionsApart'
      /\ Unwritten' = {r} /\ Unready' = {r, a}
      /\ \A other, kind : Holders(other, kind)' = Holders(other, kind)
      /\ \A other : (Opens(other)' <=> other = action) /\ ~Passed(other)'
  <2>1. /\ Calls' = {f} /\ ActionsApart'
        /\ Unwritten' = IF f.pc \in {"subscribe", "waitAccepted"}
                        THEN {f.rejected} ELSE {}
        /\ Unready' = IF f.pc \in {"subscribe", "waitAccepted"}
                      THEN {f.rejected, f.accepted}
                      ELSE IF f.pc # "publish" THEN {f.rejected} ELSE {}
        /\ \A other, kind :
             Holders(other, kind)' =
               Holders(other, kind)
                 \cup (IF f.pc = "publish" /\ other = f.action THEN {f.slot}
                                                               ELSE {})
        /\ \A other : /\ Opens(other)' <=> other = f.action /\ f.pc # "publish"
                      /\ ~Passed(other)'
    <3>1. stack' = Append(stack, f) BY <1>3 DEF Takes
    <3>2. stack = <<>> /\ UNCHANGED <<acks, told>> OBVIOUS
    <3>. QED BY ONLY SubInv, <1>4, <3>1, <3>2, Enters
  <2>. QED BY ONLY <1>4, <2>1
<1>6. ASSUME NEW e \in Entries
      PROVE  /\ subs'[e].count = subs[e].count
             /\ subs'[e].sticky = subs[e].sticky
             /\ e \notin {a, r} => subs'[e].inUse = subs[e].inUse
             /\ e \in {a, r} => subs'[e].inUse
             /\ e # a => subs'[e].topic = subs[e].topic
             /\ e = a => subs'[e].topic = <<action, "accepted">>
  <2>. PICK s \in Entry : s = subs[e] BY <1>1, EntryHas
  <2>. PICK u : u = (s.inUse \/ e \in {a, r}) OBVIOUS
  <2>. PICK p : p = IF e = a /\ r # 0 THEN <<action, "accepted">> ELSE s.topic
    OBVIOUS
  <2>1. subs'[e] = [s EXCEPT !.inUse = u, !.topic = p] BY DEF Taken
  <2>2. /\ subs'[e].count = s.count /\ subs'[e].sticky = s.sticky
        /\ subs'[e].inUse = u /\ subs'[e].topic = p
    BY ONLY <2>1, s \in Entry DEF Entry
  <2>3. s.inUse \in BOOLEAN BY DEF Entry
  <2>4. e \notin {a, r} => u = s.inUse BY <2>3
  <2>. QED BY <1>3, <2>2, <2>4
<1>7. /\ Written' = Written \cup {a} /\ a \notin Written /\ r \notin Written
      /\ Written \subseteq Entries
  <2>1. {e \in Entries : subs'[e].inUse} = {e \in Entries : subs[e].inUse} \cup {a, r}
    BY ONLY <1>3, <1>6
  <2>2. Written' = {e \in Entries : subs'[e].inUse} \ {r} BY <1>5 DEF Written
  <2>3. Written = {e \in Entries : subs[e].inUse} BY <1>1
  <2>. QED BY ONLY <1>2, <1>3, <2>1, <2>2, <2>3
<1>8. EntriesApart'
  <2>. SUFFICES ASSUME NEW e \in Written'
                PROVE  /\ subs'[e].topic # <<>>
                       /\ \A g \in Entries \ {e} :
                            subs'[g].topic = subs'[e].topic =>
                              g \notin Written' /\ e < g
    BY DEF EntriesApart
  <2>1. CASE e = a
    <3>1. subs'[e].topic = <<action, "accepted">> BY <1>3, <1>6, <2>1
    <3>2. ASSUME NEW g \in Entries \ {e}, subs'[g].topic = <<action, "accepted">>
          PROVE  g \notin Written' /\ e < g
      <4>1. subs[g].topic = <<action, "accepted">> BY <1>6, <2>1, <3>2
      <4>2. g \in FreeEntries
        BY <1>1, <1>2, <4>1 DEF EntriesOf, FreeEntries, Kinds
      <4>3. a <= g /\ g # a /\ a \in Nat /\ g \in Nat
        BY ONLY <1>2, <1>3, <2>1, <3>2, <4>2
      <4>4. g \notin Written' BY <1>1, <1>7, <4>2, <4>3 DEF FreeEntries
      <4>. QED BY ONLY <2>1, <4>3, <4>4
    <3>. QED BY ONLY <3>1, <3>2
  <2>2. CASE e # a
    <3>1. e \in Written /\ e \in Entries /\ subs'[e].topic = subs[e].topic
      BY <1>6, <1>7, <2>2
    <3>2. subs[e].topic # <<action, "accepted">>
      BY <1>1, <1>2, <3>1 DEF EntriesOf, Kinds
    <3>3. ASSUME NEW g \in Entries \ {e}, subs'[g].topic = subs'[e].topic
          PROVE  g \notin Written' /\ e < g
      <4>1. g # a BY ONLY <1>6, <3>1, <3>2, <3>3
      <4>2. subs[g].topic = subs[e].topic BY ONLY <1>6, <3>1, <3>3, <4>1
      <4>3. EntriesApart BY <1>1
      <4>. QED BY ONLY <1>7, <3>1, <4>1, <4>2, <4>3 DEF EntriesApart
    <3>4. subs[e].topic # <<>> BY <1>1, <3>1 DEF EntriesApart
    <3>. QED BY ONLY <3>1, <3>3, <3>4
  <2>. QED BY <2>1, <2>2
<1>9. HandlersFit'
  <2>1. {e \in Entries : subs'[e].inUse} \ {r, a} = {e \in Entries : subs[e].inUse}
    BY ONLY <1>3, <1>6
  <2>2. HandlersFit /\ UNCHANGED handlers /\ Unready = {} /\ Unready' = {r, a}
    BY <1>1, <1>5
  <2>. QED BY ONLY <2>1, <2>2 DEF HandlersFit
<1>10. CountsFit'
  <2>1. ASSUME NEW e \in Entries PROVE subs'[e].count <= seq + 1
    <3>1. /\ subs[e].count \in Nat /\ subs[e].count <= seq /\ seq \in Nat
          /\ subs'[e].count = subs[e].count
      BY <1>1, <1>6, EntryHas DEF CountsFit
    <3>. QED BY ONLY <3>1
  <2>. QED BY <2>1 DEF CountsFit
<1>11. ASSUME NEW other \in Actions, other # action
       PROVE  Supplied(other)' /\ Paired(other)'
  <2>1. ASSUME NEW kind \in Kinds
        PROVE  /\ Live(<<other, kind>>)' = Live(<<other, kind>>)
               /\ \A e \in Live(<<other, kind>>) :
                    /\ subs'[e].count = subs[e].count
                    /\ subs'[e].sticky = subs[e].sticky
    <3>1. \A e \in Written : e \in Entries /\ subs'[e].topic = subs[e].topic
      BY ONLY <1>6, <1>7
    <3>2. subs'[a].topic # <<other, kind>>
      <4>1. subs'[a].topic = <<action, "accepted">> BY ONLY <1>3, <1>6
      <4>. QED BY ONLY <1>11, <4>1
    <3>3. Live(<<other, kind>>)' = Live(<<other, kind>>)
      BY ONLY <1>7, <3>1, <3>2 DEF Live
    <3>4. \A e \in Live(<<other, kind>>) : e \in Entries
      BY ONLY <3>1 DEF Live
    <3>. QED BY ONLY <1>6, <3>3, <3>4
  <2>2. Opens(other)' <=> Opens(other) BY <1>1, <1>5, <1>11
  <2>3. Passed(other)' <=> Passed(other) BY <1>1, <1>5
  <2>4. \A kind \in Kinds : Holders(other, kind)' \subseteq Holders(other, kind)
    BY <1>5
  <2>. QED BY <2>1, <2>2, <2>3, <2>4, ActionStays
<1>12. \A kind \in Kinds : Holders(action, kind) = {}
  <2>1. Supplied(action) BY <1>1 DEF Subscriptions
  <2>. QED BY ONLY <1>2, <2>1 DEF Supplied
<1>13. Supplied(action)' /\ Paired(action)'
  <2>1. \A kind \in Kinds : Holders(action, kind)' = {} BY <1>5, <1>12
  <2>2. \A e \in Entries : subs'[e].count \in Nat
    BY <1>1, <1>6, EntryHas
  <2>3. Supplied(action)'
    <3>1. ASSUME NEW kind \in Kinds, NEW e \in Live(<<action, kind>>)'
          PROVE  Cardinality(Holders(action, kind)') <= subs'[e].count
      <4>1. e \in Entries /\ subs'[e].count \in Nat
        BY <2>2 DEF Live, Written
      <4>2. Cardinality(Holders(action, kind)') = 0 BY <2>1, FS_EmptySet
      <4>. QED BY ONLY <4>1, <4>2
    <3>. QED BY <2>1, <3>1 DEF Supplied
  <2>4. Opens(action)' /\ ~Passed(action)' BY <1>5
  <2>. QED BY <2>3, <2>4 DEF Paired
<1>14. CallFits(f)'
  <2>1. \A kind \in Kinds : Holders(f.action, kind)' = {} BY <1>4, <1>5, <1>12
  <2>2. ASSUME NEW e \in Entries \ {r}, subs'[e].topic = <<action, "rejected">>
        PROVE  ~subs'[e].inUse /\ r < e
    <3>1. e # a BY ONLY <1>6, <2>2
    <3>2. subs[e].topic = <<action, "rejected">> BY ONLY <1>6, <2>2, <3>1
    <3>3. e \in FreeEntries
      BY <1>1, <1>2, <3>2 DEF EntriesOf, FreeEntries, Kinds
    <3>4. r <= e /\ r \in Nat /\ e \in Nat BY ONLY <1>2, <1>3, <2>2, <3>1, <3>3
    <3>5. r < e BY ONLY <2>2, <3>4
    <3>6. ~subs[e].inUse BY <3>3 DEF FreeEntries
    <3>. QED BY ONLY <1>6, <2>2, <3>1, <3>5, <3>6
  <2>3. subs'[a].inUse /\ subs'[r].inUse
        /\ subs'[a].topic = <<action, "accepted">>
    BY ONLY <1>3, <1>6
  <2>4. OpeningFits(f)'
    BY ONLY <1>2, <1>3, <1>4, <2>1, <2>2, <2>3 DEF OpeningFits, Waits
  <2>. QED BY ONLY <1>4, <2>4 DEF CallFits
<1>. QED BY <1>5, <1>8, <1>9, <1>10, <1>11, <1>13, <1>14 DEF Subscriptions

\* A request begins: its topics are shared, found free or taken anew.
LEMMA RequestSub ==
  ASSUME SubInv, RoomForAll, NEW action \in Actions, NEW sticky \in BOOLEAN,
         Request(action, sticky)
  PROVE  Subscriptions'
<1>1. /\ stack = <<>> /\ seq < MaxRequests /\ seq' = seq + 1
      /\ UNCHANGED <<acks, handlers, told>>
  BY DEF Request, RoomForAll
<1>2. CASE UNCHANGED <<stack, subs>> BY <1>1, <1>2, QuietSub
<1>3. CASE \E slot \in Slots :
             /\ SubscriptionPresent(action)
             /\ subs' = [e \in Entries |->
                  IF \E kind \in Kinds : e \in EntriesOf(<<action, kind>>)
                  THEN [subs[e] EXCEPT !.count = (@ + 1) % 256,
                                       !.sticky = sticky]
                  ELSE subs[e]]
             /\ stack' = Append(stack, NewRequest(action, sticky, slot))
  BY <1>1, <1>3, RequestCounts
<1>4. CASE \E slot \in Slots : \E a, r \in Entries \cup {0} :
             /\ ~SubscriptionPresent(action)
             /\ Finds(a, FreeEntries) /\ Finds(r, FreeEntries \ {a})
             /\ subs' = [e \in Entries |->
                  [subs[e] EXCEPT
                    !.inUse = @ \/ e \in {a, r},
                    !.topic = IF e = a /\ r # 0
                              THEN <<action, "accepted">> ELSE @]]
             /\ stack' = Append(stack,
                  [NewRequest(action, sticky, slot) EXCEPT
                    !.pc = IF r # 0 THEN "subscribe" ELSE "clear",
                    !.accepted = a, !.rejected = r])
  <2>1. PICK slot \in Slots, a \in Entries \cup {0}, r \in Entries \cup {0} :
          /\ ~SubscriptionPresent(action)
          /\ Finds(a, FreeEntries) /\ Finds(r, FreeEntries \ {a})
          /\ subs' = [e \in Entries |->
               [subs[e] EXCEPT
                 !.inUse = @ \/ e \in {a, r},
                 !.topic = IF e = a /\ r # 0
                           THEN <<action, "accepted">> ELSE @]]
          /\ stack' = Append(stack,
               [NewRequest(action, sticky, slot) EXCEPT
                 !.pc = IF r # 0 THEN "subscribe" ELSE "clear",
                 !.accepted = a, !.rejected = r])
    BY <1>4, Zenon
  <2>2. /\ stack = <<>> /\ seq < MaxRequests /\ seq' = seq + 1
        /\ UNCHANGED <<acks, handlers, told>> /\ ~SubscriptionPresent(action)
        /\ Finds(a, FreeEntries) /\ Finds(r, FreeEntries \ {a})
    BY <1>1, <2>1
  <2>3. subs' = Taken(action, a, r) BY <2>1, Zenon DEF Taken
  <2>4. stack' = Append(stack, Takes(action, sticky, slot, a, r))
    BY <2>1, Zenon DEF Takes
  <2>. QED BY ONLY SubInv, RoomForAll, action \in Actions, sticky \in BOOLEAN,
           slot \in Slots, a \in Entries \cup {0}, r \in Entries \cup {0},
           <2>2, <2>3, <2>4, RequestOpens
<1>. QED BY <1>2, <1>3, <1>4 DEF Request

-----------------------------------------------------------------------------
(* The invariant is inductive. *)

\* Nothing a request does fails before its publish.
LEMMA NeverClears ==
  ASSUME SubInv, RoomForAll
  PROVE  ~SubscribeFails /\ ~Clear /\ ~EndClear
<1>1. ~SubscribeFails BY DEF SubscribeFails, RoomForAll
<1>2. ASSUME At("clear") \/ At("waitClear") PROVE FALSE
  <2>1. /\ Top \in Calls /\ Top \in Frame /\ Top.pc \in {"clear", "waitClear"}
    BY <1>2, CallsAre DEF SubInv, At
  <2>2. Opening(Top) BY <2>1 DEF Frame, EndingPoints, Opening
  <2>. QED BY <2>1, <2>2 DEF SubInv, Subscriptions, CallFits, OpeningFits
<1>. QED BY <1>1, <1>2 DEF Clear, EndClear

\* At first nothing is subscribed.
LEMMA InitSub ==
  ASSUME Init
  PROVE  Subscriptions
<1>1. /\ Depths = {} /\ 1 .. Len(stack) - 1 = {}
  BY DEF Init, Depths
<1>2. Calls = {} BY <1>1 DEF Calls
<1>3. Unwritten = {} BY <1>2 DEF Unwritten
<1>4. Unready = {} BY <1>2, <1>3 DEF Unready
<1>5. /\ \A e \in Entries : ~subs[e].inUse /\ subs[e].count = 0
      /\ \A h \in Handlers : handlers[h] = 0
      /\ \A i \in Slots : ~acks[i].inUse
      /\ seq = 0
  BY DEF Init
<1>6. Written = {} BY <1>5 DEF Written
<1>7. \A topic : Live(topic) = {} BY <1>6 DEF Live
<1>8. \A action, kind : Holders(action, kind) = {}
  BY <1>2, <1>5 DEF Holders, Waiting
<1>9. \A action : Supplied(action) BY <1>7, <1>8 DEF Supplied
<1>10. \A action : Paired(action)
  <2>. TAKE action
  <2>1. ~Passed(action) BY <1>2 DEF Passed
  <2>. QED BY <1>7, <2>1 DEF Paired
<1>11. ActionsApart BY <1>1 DEF ActionsApart
<1>12. EntriesApart BY <1>6 DEF EntriesApart
<1>13. HandlersFit
  <2>1. {e \in Entries : subs[e].inUse} = {} BY <1>5
  <2>. QED BY <1>4, <1>5, <2>1 DEF HandlersFit
<1>14. CountsFit BY <1>5 DEF CountsFit
<1>. QED BY <1>2, <1>9, <1>10, <1>11, <1>12, <1>13, <1>14 DEF Subscriptions

\* The invariant is inductive.
LEMMA SubInduction ==
  ASSUME RoomForAll
  PROVE  /\ Init => SubInv
         /\ SubInv /\ [Next]_vars => SubInv'
<1>1. ~CallbackRequests /\ ~Reconnects BY DEF RoomForAll
<1>2. Init => SubInv BY <1>1, InitSub, ExactInduction DEF SubInv
<1>3. ASSUME SubInv, [Next]_vars PROVE Subscriptions'
  <2>1. CASE \E action \in Actions, sticky \in BOOLEAN : Request(action, sticky)
    BY <1>3, <2>1, RequestSub
  <2>2. CASE Continue
    BY <1>3, <2>2, SubscribeSub, SubscribedAcceptedSub, SubscribedRejectedSub,
       NeverClears, PublishSub, EndCallbackSub, UnsubscribeSub,
       EndUnsubscribeSub DEF Continue
  <2>3. CASE \E answer \in sent, kind \in Kinds : Deliver(answer, kind)
    BY <1>3, <2>3, DeliverSub
  <2>4. CASE Yield BY <1>3, <2>4, YieldSub
  <2>5. CASE \E slot \in Slots : TimeOut(slot)
    BY <1>3, <2>5, QuietSub DEF TimeOut
  <2>6. CASE UNCHANGED vars BY <1>3, <2>6, QuietSub DEF vars
  <2>7. CASE Reconnect BY <1>1, <2>7 DEF Reconnect
  <2>. QED BY <1>3, <2>1, <2>2, <2>3, <2>4, <2>5, <2>6, <2>7 DEF Next
<1>4. ASSUME SubInv, [Next]_vars PROVE SubInv'
  BY <1>1, <1>3, <1>4, ExactInduction DEF SubInv
<1>. QED BY <1>2, <1>4

\* While a request waits for its answer both of its answer topics have a handler:
\* counting the requests of a topic up and down, while answers interrupt the ends
\* of others, never unsubscribes it too early.
THEOREM WaitingIsSubscribedCorrect ==
  ASSUME RoomForAll
  PROVE  Spec => []WaitingIsSubscribed
<1>1. SubInv => WaitingIsSubscribed
  <2>. SUFFICES ASSUME SubInv, NEW i \in Slots, acks[i].inUse,
                       told[acks[i].token] = 0, NEW kind \in Kinds
                PROVE  HandlersOf(<<acks[i].action, kind>>) # {}
    BY DEF WaitingIsSubscribed
  <2>. PICK action : action = acks[i].action OBVIOUS
  <2>1. action \in Actions
    BY CallsAre DEF SubInv, TypeOK, Record
  <2>2. i \in Holders(action, kind) BY DEF Holders, Waiting
  <2>3. Live(<<action, kind>>) # {}
    BY <2>1, <2>2 DEF SubInv, Subscriptions, Supplied
  <2>4. ~Opens(action)
    <3>. SUFFICES ASSUME NEW f \in Calls, f.action = action, Opening(f)
                  PROVE  FALSE
      BY DEF Opens
    <3>1. Holders(action, kind) = {}
      BY DEF SubInv, Subscriptions, CallFits, OpeningFits
    <3>. QED BY <2>2, <3>1
  <2>. QED BY <2>3, <2>4, LiveHandled
<1>. QED BY SubInduction, <1>1, PTL DEF Spec

\* The handler table points at entries in use only: no entry is given back, to
\* be overwritten, while a handler points at its topic string.
THEOREM HandlersNameLiveEntriesCorrect ==
  ASSUME RoomForAll
  PROVE  Spec => []HandlersNameLiveEntries
<1>1. SubInv => HandlersNameLiveEntries
  <2>1. SubInv => \A h \in Handlers : handlers[h] # 0 => handlers[h] \in Written
    BY HandledLive
  <2>. QED BY <2>1 DEF HandlersNameLiveEntries, Written
<1>. QED BY SubInduction, <1>1, PTL DEF Spec
=============================================================================
