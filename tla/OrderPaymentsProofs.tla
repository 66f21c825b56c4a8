------------------------ MODULE OrderPaymentsProofs ------------------------
(***************************************************************************)
(* What OrderPayments guarantees for any number of orders, intents, calls, *)
(* deliveries and events.                                                  *)
(***************************************************************************)
EXTENDS OrderPayments, TLAPS

(* The structural half of the inductive invariant: types need to know      *)
(* which intents have a row, and that needs to know which calls own them.  *)
StructureInv == TypeOK /\ CallsOwnTheirRows /\ EventsHaveRows

LEMMA InitStructure == Init => StructureInv
<1> SUFFICES ASSUME Init PROVE StructureInv
  OBVIOUS
<1> USE DEF Init
<1>1. TypeOK
  <2>1. CreationLog \in Seq(LogRow)
    BY DEF CreationLog, Step, LogRow, Statuses
  <2>2. log \in [Orders -> Seq(LogRow)]
    BY <2>1
  <2>3. order \in [Orders -> [status : Statuses, channel : Channels]]
    BY DEF Statuses
  <2>4. QED
    BY <2>2, <2>3 DEF TypeOK
<1>2. CallsOwnTheirRows /\ EventsHaveRows
  BY DEF CallsOwnTheirRows, EventsHaveRows, NoRow, Idle, NoEvent, NotAsked
<1>3. QED
  BY <1>1, <1>2 DEF StructureInv

(* Records that the actions build.                                         *)
LEMMA NewRowType ==
  ASSUME NEW c \in PayCall
  PROVE  NewRow(c) \in IntentRow /\ NewRow(c) # NoRow /\ NewRow(c).status = "CREATED" /\ ~NewRow(c).known
BY DEF PayCall, NewRow, IntentRow, NoRow, IntentStatuses

LEMMA RowsHaveStatus ==
  ASSUME NEW r \in IntentRow
  PROVE  r # NoRow
BY DEF IntentRow, NoRow, IntentStatuses

LEMMA CallsAreTyped ==
  /\ \A c \in PayCall : c # Idle /\ c.pc \in {"started", "clear", "linked", "gateway"}
  /\ \A c \in HookCall : c # Idle /\ c.pc \in {"reserved", "seen", "read"} /\ c.event \in Events
  /\ \A c \in StaffCall : c # Idle /\ c.pc = "checked" /\ c.order \in Orders
                            /\ c.seen \in Statuses /\ c.target \in Statuses
  /\ Idle.pc = "idle"
BY DEF PayCall, HookCall, StaffCall, Idle

LEMMA MoveOrderType ==
  ASSUME TypeOK, NEW o \in Orders, NEW from \in Statuses, NEW to \in Statuses,
         NEW by \in Intents \cup {"staff"}, MoveOrder(o, from, to, by)
  PROVE  /\ order' \in [Orders -> [status : Statuses, channel : Channels]]
         /\ log' \in [Orders -> Seq(LogRow)]
         /\ paidBy' \in [Orders -> SUBSET (Intents \cup {"staff"})]
<1>1. order' \in [Orders -> [status : Statuses, channel : Channels]]
  <2>1. order \in [Orders -> [status : Statuses, channel : Channels]]
    BY DEF TypeOK
  <2>2. order' = [order EXCEPT ![o].status = to]
    BY DEF MoveOrder
  <2>3. QED
    BY <2>1, <2>2
<1> USE DEF TypeOK, MoveOrder
<1>2. Step(from, to) \in LogRow
  BY DEF Step, LogRow
<1>3. Append(log[o], Step(from, to)) \in Seq(LogRow)
  BY <1>2
<1>4. log' \in [Orders -> Seq(LogRow)]
  BY <1>3
<1>5. paidBy' \in [Orders -> SUBSET (Intents \cup {"staff"})]
  OBVIOUS
<1>6. QED
  BY <1>1, <1>4, <1>5

-----------------------------------------------------------------------------
(* Every action preserves the structure.                                   *)

LEMMA StaffStructure ==
  ASSUME StructureInv, Staff
  PROVE  StructureInv'
<1> USE DEF StructureInv, vars, db, calls, external
<1>0. PICK s \in StaffCalls :
        \/ \E o \in Orders, t \in StaffTargets : CheckUpdate(s, o, t)
        \/ \E o \in Orders : CheckDelete(s, o)
        \/ CommitUpdate(s)
        \/ CommitDelete(s)
        \/ StaffCallDies(s)
  BY DEF Staff
<1>1. ASSUME NEW o \in Orders, NEW t \in StaffTargets \cup {"DELETED"}, Check(s, o, t)
      PROVE  StructureInv'
  <2>1. [pc |-> "checked", order |-> o, seen |-> order[o].status, target |-> t] \in StaffCall
    BY ConstantsAssumption DEF TypeOK, StaffCall, Statuses
  <2>2. TypeOK'
    BY <1>1, <2>1 DEF TypeOK, Check
  <2>3. CallsOwnTheirRows' /\ EventsHaveRows'
    BY <1>1 DEF CallsOwnTheirRows, EventsHaveRows, Check
  <2>4. QED
    BY <2>2, <2>3
<1>2. ASSUME CommitMove(s)
      PROVE  StructureInv'
  <2>1. staffCall[s] \in StaffCall
    BY <1>2, CallsAreTyped DEF CommitMove, TypeOK
  <2>2. /\ order' \in [Orders -> [status : Statuses, channel : Channels]]
        /\ log' \in [Orders -> Seq(LogRow)]
        /\ paidBy' \in [Orders -> SUBSET (Intents \cup {"staff"})]
    <3>1. CASE StillAsSeen(s)
      BY <1>2, <2>1, <3>1, CallsAreTyped, MoveOrderType DEF CommitMove
    <3>2. CASE ~StillAsSeen(s)
      BY <1>2, <3>2 DEF CommitMove, KeepOrders, TypeOK
    <3>3. QED
      BY <3>1, <3>2
  <2>3. TypeOK'
    BY <1>2, <2>2 DEF TypeOK, CommitMove
  <2>4. CallsOwnTheirRows' /\ EventsHaveRows'
    BY <1>2 DEF CallsOwnTheirRows, EventsHaveRows, CommitMove
  <2>5. QED
    BY <2>3, <2>4
<1>3. ASSUME StaffCallDies(s)
      PROVE  StructureInv'
  BY <1>3 DEF StaffCallDies, TypeOK, CallsOwnTheirRows, EventsHaveRows
<1>4. QED
  BY <1>0, <1>1, <1>2, <1>3 DEF CheckUpdate, CheckDelete, CommitUpdate, CommitDelete

LEMMA StartStructure ==
  ASSUME StructureInv, NEW i \in Intents, NEW o \in Orders, NEW k \in RequestIds,
         NEW ch \in OnlineChannels, StartIntent(i, o, k, ch)
  PROVE  StructureInv'
<1> USE DEF StructureInv, db, external
<1>1. [pc |-> "started", order |-> o, key |-> k, channel |-> ch, number |-> account[ch].number] \in PayCall
  BY DEF TypeOK, PayCall
<1>2. TypeOK'
  BY <1>1 DEF TypeOK, StartIntent
<1>3. provider[i] = NotAsked
  BY DEF StartIntent, TypeOK, EventsHaveRows
<1>4. CallsOwnTheirRows'
  BY <1>3 DEF TypeOK, CallsOwnTheirRows, StartIntent
<1>5. EventsHaveRows'
  BY DEF EventsHaveRows, StartIntent
<1>6. QED
  BY <1>2, <1>4, <1>5

LEMMA CheckActiveStructure ==
  ASSUME StructureInv, NEW i \in Intents, CheckActive(i)
  PROVE  StructureInv'
<1> USE DEF StructureInv, db, external
<1>1. payCall[i] \in PayCall
  BY CallsAreTyped DEF CheckActive, TypeOK
<1>2. payCall' \in [Intents -> PayCall \cup {Idle}]
  BY <1>1 DEF CheckActive, TypeOK, PayCall
<1>3. TypeOK'
  BY <1>2 DEF TypeOK, CheckActive
<1>4. CallsOwnTheirRows'
  BY <1>1 DEF TypeOK, PayCall, Idle, CallsOwnTheirRows, CheckActive
<1>5. EventsHaveRows'
  BY DEF EventsHaveRows, CheckActive
<1>6. QED
  BY <1>3, <1>4, <1>5

LEMMA LinkChannelStructure ==
  ASSUME StructureInv, NEW i \in Intents, LinkChannel(i)
  PROVE  StructureInv'
<1> USE DEF StructureInv, external
<1>1. payCall[i] \in PayCall
  BY CallsAreTyped DEF LinkChannel, TypeOK
<1>2. payCall' \in [Intents -> PayCall \cup {Idle}]
  BY <1>1 DEF LinkChannel, TypeOK, PayCall
<1>3. order' \in [Orders -> [status : Statuses, channel : Channels]]
  <2>1. payCall[i].order \in Orders /\ payCall[i].channel \in Channels
    BY <1>1 DEF PayCall, Channels
  <2>2. order \in [Orders -> [status : Statuses, channel : Channels]]
    BY DEF TypeOK
  <2>3. CASE MayLink(i)
    <3>1. order' = [order EXCEPT ![payCall[i].order].channel = payCall[i].channel]
      BY <2>3 DEF LinkChannel
    <3>2. QED
      BY <2>1, <2>2, <3>1
  <2>4. CASE ~MayLink(i)
    BY <2>2, <2>4 DEF LinkChannel
  <2>5. QED
    BY <2>3, <2>4
<1>4. TypeOK'
  BY <1>2, <1>3 DEF TypeOK, LinkChannel
<1>5. CallsOwnTheirRows'
  BY <1>1 DEF TypeOK, PayCall, CallsOwnTheirRows, LinkChannel
<1>6. EventsHaveRows'
  BY DEF EventsHaveRows, LinkChannel
<1>7. QED
  BY <1>4, <1>5, <1>6

LEMMA InsertStructure ==
  ASSUME StructureInv, NEW i \in Intents, InsertIntent(i)
  PROVE  StructureInv'
<1> USE DEF StructureInv, external
<1>1. payCall[i] \in PayCall
  BY CallsAreTyped DEF InsertIntent, TypeOK
<1>2. CASE SameRequest(payCall[i].order, payCall[i].key) = {}
  <2>1. /\ intent' = [intent EXCEPT ![i] = NewRow(payCall[i])]
        /\ payCall' = [payCall EXCEPT ![i].pc = "gateway"]
        /\ provider' = [provider EXCEPT ![i] = [state |-> "asked", number |-> payCall[i].number]]
    BY <1>2 DEF InsertIntent
  <2>2. payCall' \in [Intents -> PayCall \cup {Idle}]
    BY <1>1, <2>1 DEF TypeOK, PayCall
  <2>3. intent' \in [Intents -> IntentRow \cup {NoRow}]
    BY <1>1, <2>1, NewRowType DEF TypeOK
  <2>4. provider' \in [Intents -> [state : {"asked", "open"}, number : AccountNumbers] \cup {NotAsked}]
    BY <1>1, <2>1 DEF TypeOK, PayCall
  <2>5. TypeOK'
    BY <2>2, <2>3, <2>4 DEF TypeOK, InsertIntent
  <2>6. CallsOwnTheirRows'
    BY <1>1, <2>1, NewRowType DEF TypeOK, PayCall, CallsOwnTheirRows, InsertIntent
  <2>7. \A j \in Intents : j # i => provider'[j] = provider[j] /\ intent'[j] = intent[j]
    BY <2>1 DEF TypeOK
  <2>8. provider[i] = NotAsked /\ provider[i].state = "none" /\ intent'[i] # NoRow
    BY <1>1, <2>1, NewRowType DEF TypeOK, CallsOwnTheirRows, InsertIntent, NotAsked
  <2>9. \A e \in Events : sent[e] # NoEvent => sent[e].intent \in Intents /\ sent[e].intent # i
    BY <2>8 DEF TypeOK, EventsHaveRows
  <2>10. EventsHaveRows'
    <3>1. \A j \in Intents : provider'[j].state # "none" => intent'[j] # NoRow
      BY <2>7, <2>8 DEF EventsHaveRows
    <3>2. \A e \in Events : sent'[e] # NoEvent => provider'[sent'[e].intent].state = "open"
      BY <2>7, <2>9 DEF EventsHaveRows, InsertIntent
    <3>3. \A d \in Deliveries : hookCall[d] # Idle => hookCall[d].event \in Events
      BY CallsAreTyped DEF TypeOK
    <3>4. \A d \in Deliveries : hookCall[d].pc \in {"seen", "read"} => hookCall[d] # Idle
      BY CallsAreTyped
    <3>5. \A d \in Deliveries : hookCall'[d].pc \in {"seen", "read"} => intent'[sent'[hookCall'[d].event].intent].known
      BY <2>7, <2>9, <3>3, <3>4 DEF EventsHaveRows, InsertIntent
    <3>6. QED
      BY <3>1, <3>2, <3>5 DEF EventsHaveRows, InsertIntent
  <2>11. QED
    BY <2>5, <2>6, <2>10
<1>3. CASE SameRequest(payCall[i].order, payCall[i].key) # {}
  <2>1. TypeOK'
    BY <1>3 DEF TypeOK, InsertIntent
  <2>2. CallsOwnTheirRows'
    <3>1. payCall \in [Intents -> PayCall \cup {Idle}]
      BY DEF TypeOK
    <3>2. UNCHANGED <<intent, provider>> /\ payCall' = [payCall EXCEPT ![i] = Idle]
      BY <1>3 DEF InsertIntent
    <3>3. Idle.pc = "idle"
      BY CallsAreTyped
    <3>4. QED
      BY <3>1, <3>2, <3>3 DEF CallsOwnTheirRows
  <2>3. UNCHANGED <<intent, provider, sent, event, hookCall>>
    BY <1>3 DEF InsertIntent
  <2>4. EventsHaveRows'
    BY <2>3 DEF EventsHaveRows
  <2>5. QED
    BY <2>1, <2>2, <2>4
<1>4. QED
  BY <1>2, <1>3

LEMMA AnswerStructure ==
  ASSUME StructureInv, NEW i \in Intents, EndPayCall(i),
         \/ \E status \in AnswerStatuses : GatewayAnswers(i, status)
         \/ GatewayMismatches(i)
         \/ GatewayFails(i)
  PROVE  StructureInv'
<1> USE DEF StructureInv, external
<1>1. intent[i] \in IntentRow
  BY DEF EndPayCall, TypeOK, CallsOwnTheirRows
<1>2. PICK row \in IntentRow : /\ intent' = [intent EXCEPT ![i] = row]
                               /\ intent[i].known => row.known
  <2>1. ASSUME NEW status \in AnswerStatuses, GatewayAnswers(i, status)
        PROVE  \E row \in IntentRow : /\ intent' = [intent EXCEPT ![i] = row]
                                      /\ intent[i].known => row.known
    <3>1. [intent[i] EXCEPT !.known = TRUE, !.status = status] \in IntentRow
      BY <1>1, ConstantsAssumption DEF IntentRow, IntentStatuses
    <3>2. intent' = [intent EXCEPT ![i] = [intent[i] EXCEPT !.known = TRUE, !.status = status]]
      BY <2>1 DEF GatewayAnswers, TypeOK
    <3>3. [intent[i] EXCEPT !.known = TRUE, !.status = status].known
      BY <1>1 DEF IntentRow
    <3>4. QED
      BY <3>1, <3>2, <3>3
  <2>2. ASSUME GatewayMismatches(i)
        PROVE  \E row \in IntentRow : /\ intent' = [intent EXCEPT ![i] = row]
                                      /\ intent[i].known => row.known
    <3>1. [intent[i] EXCEPT !.status = "FAILED", !.recon = "MANUAL_REVIEW"] \in IntentRow
      BY <1>1 DEF IntentRow, IntentStatuses
    <3>2. intent' = [intent EXCEPT ![i] = [intent[i] EXCEPT !.status = "FAILED", !.recon = "MANUAL_REVIEW"]]
      BY <2>2 DEF GatewayMismatches, TypeOK
    <3>3. [intent[i] EXCEPT !.status = "FAILED", !.recon = "MANUAL_REVIEW"].known = intent[i].known
      BY <1>1 DEF IntentRow
    <3>4. QED
      BY <3>1, <3>2, <3>3
  <2>3. ASSUME GatewayFails(i)
        PROVE  \E row \in IntentRow : /\ intent' = [intent EXCEPT ![i] = row]
                                      /\ intent[i].known => row.known
    <3>1. [intent[i] EXCEPT !.status = "FAILED"] \in IntentRow
      BY <1>1 DEF IntentRow, IntentStatuses
    <3>2. intent' = [intent EXCEPT ![i] = [intent[i] EXCEPT !.status = "FAILED"]]
      BY <2>3 DEF GatewayFails, TypeOK, EndPayCall, CallsOwnTheirRows
    <3>3. [intent[i] EXCEPT !.status = "FAILED"].known = intent[i].known
      BY <1>1 DEF IntentRow
    <3>4. QED
      BY <3>1, <3>2, <3>3
  <2>4. QED
    BY <2>1, <2>2, <2>3
<1>3. TypeOK'
  BY <1>2 DEF TypeOK, EndPayCall, KeepOrders
<1>4. \A j \in Intents : intent[j] # NoRow => intent'[j] # NoRow /\ (intent[j].known => intent'[j].known)
  BY <1>2, RowsHaveStatus DEF TypeOK
<1>5. CallsOwnTheirRows'
  BY <1>1, <1>2, RowsHaveStatus, CallsAreTyped DEF TypeOK, CallsOwnTheirRows, EndPayCall
<1>6. \A d \in Deliveries : hookCall[d].pc \in {"seen", "read"} => sent[hookCall[d].event].intent \in Intents
  BY CallsAreTyped DEF TypeOK, EventsHaveRows
<1>7. \A e \in Events : sent[e] # NoEvent => sent[e].intent \in Intents
  BY DEF TypeOK
<1>8. \A d \in Deliveries : hookCall[d].pc \in {"seen", "read"} => hookCall[d] # Idle /\ hookCall[d].event \in Events
  BY CallsAreTyped DEF TypeOK
<1>9. \A d \in Deliveries : hookCall[d].pc \in {"seen", "read"} => intent[sent[hookCall[d].event].intent] # NoRow
  BY <1>7, <1>8 DEF TypeOK, EventsHaveRows
<1>10. EventsHaveRows'
  BY <1>4, <1>6, <1>9 DEF EventsHaveRows, EndPayCall
<1>11. QED
  BY <1>3, <1>5, <1>10

LEMMA PayDiesStructure ==
  ASSUME StructureInv, NEW i \in Intents, PayCallDies(i)
  PROVE  StructureInv'
BY DEF StructureInv, db, external, PayCallDies, TypeOK, CallsOwnTheirRows, EventsHaveRows, Idle

LEMMA CreateIntentStructure ==
  ASSUME StructureInv, CreateIntent
  PROVE  StructureInv'
BY StartStructure, CheckActiveStructure, LinkChannelStructure, InsertStructure, AnswerStructure,
   PayDiesStructure
DEF CreateIntent, GatewayAnswers, GatewayMismatches, GatewayFails

LEMMA ConnectorStructure ==
  ASSUME StructureInv, Connector
  PROVE  StructureInv'
<1> USE DEF StructureInv, db, calls
<1>1. ASSUME NEW i \in Intents, ConnectorOpens(i)
      PROVE  StructureInv'
  <2>1. provider[i] \in [state : {"asked", "open"}, number : AccountNumbers]
    BY <1>1 DEF ConnectorOpens, TypeOK, NotAsked
  <2>2. TypeOK'
    BY <1>1, <2>1 DEF TypeOK, ConnectorOpens
  <2>3. \A j \in Intents : payCall[j].pc \in {"started", "clear", "linked"} => j # i
    BY <1>1 DEF CallsOwnTheirRows, ConnectorOpens, NotAsked
  <2>4. CallsOwnTheirRows'
    BY <1>1, <2>3 DEF TypeOK, CallsOwnTheirRows, ConnectorOpens
  <2>5. EventsHaveRows'
    BY <1>1, <2>1 DEF TypeOK, EventsHaveRows, ConnectorOpens
  <2>6. QED
    BY <2>2, <2>4, <2>5
<1>2. ASSUME NEW i \in Intents, NEW e \in Events, NEW type \in EventTypes, ConnectorSends(e, i, type)
      PROVE  StructureInv'
  <2>1. TypeOK'
    BY <1>2 DEF TypeOK, ConnectorSends
  <2>2. CallsOwnTheirRows'
    BY <1>2 DEF CallsOwnTheirRows, ConnectorSends
  <2>3. [intent |-> i, type |-> type] # NoEvent
    BY DEF NoEvent, EventTypes
  <2>4. \A d \in Deliveries : hookCall[d] # Idle => hookCall[d].event \in Events /\ hookCall[d].event # e
    BY <1>2, CallsAreTyped DEF TypeOK, EventsHaveRows, ConnectorSends
  <2>5. \A d \in Deliveries : hookCall[d].pc \in {"seen", "read"} => hookCall[d] # Idle
    BY CallsAreTyped
  <2>6. EventsHaveRows'
    BY <1>2, <2>3, <2>4, <2>5 DEF TypeOK, EventsHaveRows, ConnectorSends
  <2>7. QED
    BY <2>1, <2>2, <2>6
<1>3. QED
  BY <1>1, <1>2 DEF Connector

LEMMA AdminStructure ==
  ASSUME StructureInv, Admin
  PROVE  StructureInv'
BY ConstantsAssumption
DEF StructureInv, db, calls, external, Admin, UpsertAccount, TypeOK, CallsOwnTheirRows, EventsHaveRows

(* What a webhook call knows of the intent it works on.                    *)
LEMMA HookFacts ==
  ASSUME StructureInv, NEW d \in Deliveries, hookCall[d] # Idle
  PROVE  /\ hookCall[d] \in HookCall
         /\ hookCall[d].event \in Events
         /\ sent[hookCall[d].event] \in [intent : Intents, type : EventTypes]
         /\ sent[hookCall[d].event].intent \in Intents
         /\ intent[sent[hookCall[d].event].intent] \in IntentRow
         /\ intent[sent[hookCall[d].event].intent].order \in Orders
         /\ hookCall[d].pc \in {"seen", "read"} => intent[sent[hookCall[d].event].intent].known
<1> DEFINE e == hookCall[d].event
           i == sent[e].intent
<1>1. hookCall[d] \in HookCall /\ e \in Events
  BY CallsAreTyped DEF StructureInv, TypeOK
<1>2. sent[e] \in [intent : Intents, type : EventTypes] /\ i \in Intents
  BY <1>1 DEF StructureInv, TypeOK, EventsHaveRows
<1>3. intent[i] \in IntentRow
  BY <1>1, <1>2 DEF StructureInv, TypeOK, EventsHaveRows
<1>4. hookCall[d].pc \in {"seen", "read"} => intent[i].known
  BY DEF StructureInv, EventsHaveRows
<1>5. QED
  BY <1>1, <1>2, <1>3, <1>4 DEF IntentRow

(* A call past its checks works on a row the gateway has answered for, so  *)
(* no createIntent call owns it any more.                                  *)
LEMMA HookRowIsFree ==
  ASSUME StructureInv, NEW d \in Deliveries, hookCall[d].pc = "read"
  PROVE  payCall[sent[hookCall[d].event].intent].pc \notin {"started", "clear", "linked", "gateway"}
<1>1. hookCall[d] # Idle
  BY DEF Idle
<1>2. QED
  BY <1>1, HookFacts, RowsHaveStatus DEF StructureInv, CallsOwnTheirRows

LEMMA EndHookStructure ==
  ASSUME StructureInv, NEW d \in Deliveries, NEW type \in EventTypes, EndHookCall(d, type),
         intent' \in [Intents -> IntentRow \cup {NoRow}],
         \A j \in Intents : intent[j] # NoRow => intent'[j] # NoRow /\ (intent[j].known => intent'[j].known),
         \A j \in Intents : j # sent[hookCall[d].event].intent => intent'[j] = intent[j]
  PROVE  /\ CallsOwnTheirRows' /\ EventsHaveRows'
         /\ event' \in [Events -> [state : {"absent", "reserved", "processed"}, error : BOOLEAN]]
         /\ hookCall' \in [Deliveries -> HookCall \cup {Idle}]
<1> USE DEF EndHookCall, external
<1>1. hookCall[d] # Idle /\ hookCall[d].event \in Events
  BY HookFacts DEF Idle
<1>2. CallsOwnTheirRows'
  BY <1>1, HookRowIsFree DEF StructureInv, CallsOwnTheirRows
<1>3. event' \in [Events -> [state : {"absent", "reserved", "processed"}, error : BOOLEAN]]
  BY <1>1 DEF StructureInv, TypeOK
<1>4. hookCall' \in [Deliveries -> HookCall \cup {Idle}]
  BY DEF StructureInv, TypeOK
<1>5. \A f \in Deliveries : f # d => hookCall'[f] = hookCall[f]
  BY DEF StructureInv, TypeOK
<1>6. hookCall'[d] = Idle
  BY DEF StructureInv, TypeOK
<1>7. \A f \in Deliveries : hookCall[f].pc \in {"seen", "read"} =>
        /\ hookCall[f] # Idle
        /\ sent[hookCall[f].event].intent \in Intents
        /\ intent[sent[hookCall[f].event].intent].known
        /\ intent[sent[hookCall[f].event].intent] # NoRow
  BY HookFacts, RowsHaveStatus DEF Idle
<1>8. \A f \in Deliveries : hookCall'[f].pc \in {"seen", "read"} => intent'[sent'[hookCall'[f].event].intent].known
  BY <1>5, <1>6, <1>7 DEF Idle
<1>9. \A f \in Deliveries : hookCall'[f] # Idle => sent'[hookCall'[f].event] # NoEvent
  BY <1>5, <1>6 DEF StructureInv, EventsHaveRows
<1>10. \A e \in Events : event'[e].state # "absent" => sent'[e] # NoEvent
  BY <1>1 DEF StructureInv, TypeOK, EventsHaveRows
<1>11. EventsHaveRows'
  BY <1>8, <1>9, <1>10 DEF StructureInv, EventsHaveRows
<1>12. QED
  BY <1>2, <1>3, <1>4, <1>11

LEMMA SettleStructure ==
  ASSUME StructureInv, NEW d \in Deliveries, SettleIntent(d)
  PROVE  StructureInv'
<1> DEFINE e == hookCall[d].event
           i == sent[e].intent
           row == [intent[i] EXCEPT !.status = "SUCCEEDED",
                     !.recon = IF OrderCanBePaid(d) THEN "MATCHED" ELSE "LATE_PAYMENT"]
<1>1. /\ EndHookCall(d, "PAYMENT_SUCCEEDED")
      /\ hookCall[d] # Idle
  BY DEF SettleIntent, EndHookCall, Idle
<1>2. e \in Events /\ i \in Intents /\ intent[i] \in IntentRow /\ intent[i].order \in Orders
  BY <1>1, HookFacts
<1>3. row \in IntentRow /\ row.known = intent[i].known
  BY <1>2 DEF IntentRow, IntentStatuses
<1>4. intent' = [intent EXCEPT ![i] = row]
  BY DEF SettleIntent, StructureInv, TypeOK
<1> HIDE DEF row
<1>5. /\ intent' \in [Intents -> IntentRow \cup {NoRow}]
      /\ \A j \in Intents : intent[j] # NoRow => intent'[j] # NoRow /\ (intent[j].known => intent'[j].known)
      /\ \A j \in Intents : j # i => intent'[j] = intent[j]
  BY <1>2, <1>3, <1>4, RowsHaveStatus DEF StructureInv, TypeOK
<1>6. /\ CallsOwnTheirRows' /\ EventsHaveRows'
      /\ event' \in [Events -> [state : {"absent", "reserved", "processed"}, error : BOOLEAN]]
      /\ hookCall' \in [Deliveries -> HookCall \cup {Idle}]
  BY <1>1, <1>5, EndHookStructure DEF EventTypes
<1>7. /\ order' \in [Orders -> [status : Statuses, channel : Channels]]
      /\ log' \in [Orders -> Seq(LogRow)]
      /\ paidBy' \in [Orders -> SUBSET (Intents \cup {"staff"})]
  <2>1. CASE MoveOrder(intent[i].order, "PENDING_PAYMENT", "PAID", i)
    <3>1. TypeOK /\ "PENDING_PAYMENT" \in Statuses /\ "PAID" \in Statuses /\ i \in Intents \cup {"staff"}
      BY <1>2 DEF StructureInv, Statuses
    <3>2. QED
      BY <1>2, <2>1, <3>1, MoveOrderType
  <2>2. CASE KeepOrders
    BY <2>2 DEF KeepOrders, StructureInv, TypeOK
  <2>3. QED
    BY <2>1, <2>2 DEF SettleIntent, PayOrder
<1>8. txns' \subseteq [intent : Intents, event : Events]
  BY <1>2 DEF SettleIntent, StructureInv, TypeOK
<1>9. TypeOK'
  BY <1>1, <1>5, <1>6, <1>7, <1>8 DEF StructureInv, TypeOK, EndHookCall, external
<1>10. QED
  BY <1>6, <1>9 DEF StructureInv

LEMMA AcknowledgeStructure ==
  ASSUME StructureInv, NEW d \in Deliveries, AcknowledgeSettled(d)
  PROVE  StructureInv'
<1>1. EndHookCall(d, "PAYMENT_SUCCEEDED") /\ intent' = intent
  BY DEF AcknowledgeSettled
<1>2. /\ CallsOwnTheirRows' /\ EventsHaveRows'
      /\ event' \in [Events -> [state : {"absent", "reserved", "processed"}, error : BOOLEAN]]
      /\ hookCall' \in [Deliveries -> HookCall \cup {Idle}]
  BY <1>1, EndHookStructure DEF EventTypes, StructureInv, TypeOK
<1>3. TypeOK'
  BY <1>1, <1>2 DEF StructureInv, TypeOK, EndHookCall, AcknowledgeSettled, KeepOrders, external
<1>4. QED
  BY <1>2, <1>3 DEF StructureInv

LEMMA NoteProgressStructure ==
  ASSUME StructureInv, NEW d \in Deliveries, NEW type \in EventTypes, NoteProgress(d, type)
  PROVE  StructureInv'
<1> DEFINE e == hookCall[d].event
           i == sent[e].intent
           row == [intent[i] EXCEPT !.status = Progress(type)]
<1>1. EndHookCall(d, type) /\ hookCall[d] # Idle
  BY DEF NoteProgress, EndHookCall, Idle
<1>2. e \in Events /\ i \in Intents /\ intent[i] \in IntentRow
  BY <1>1, HookFacts
<1>3. row \in IntentRow /\ row.known = intent[i].known
  BY <1>2 DEF IntentRow, IntentStatuses, Progress
<1>4. intent' = intent \/ intent' = [intent EXCEPT ![i] = row]
  BY DEF NoteProgress, StructureInv, TypeOK
<1> HIDE DEF row
<1>5. /\ intent' \in [Intents -> IntentRow \cup {NoRow}]
      /\ \A j \in Intents : intent[j] # NoRow => intent'[j] # NoRow /\ (intent[j].known => intent'[j].known)
      /\ \A j \in Intents : j # i => intent'[j] = intent[j]
  BY <1>2, <1>3, <1>4, RowsHaveStatus DEF StructureInv, TypeOK
<1>6. /\ CallsOwnTheirRows' /\ EventsHaveRows'
      /\ event' \in [Events -> [state : {"absent", "reserved", "processed"}, error : BOOLEAN]]
      /\ hookCall' \in [Deliveries -> HookCall \cup {Idle}]
  BY <1>1, <1>5, EndHookStructure
<1>7. TypeOK'
  BY <1>1, <1>5, <1>6 DEF StructureInv, TypeOK, EndHookCall, NoteProgress, KeepOrders, external
<1>8. QED
  BY <1>6, <1>7 DEF StructureInv

LEMMA ReserveStructure ==
  ASSUME StructureInv, NEW d \in Deliveries, NEW e \in Events, ReserveEvent(d, e)
  PROVE  StructureInv'
<1> DEFINE i == sent[e].intent
           call == [pc |-> "reserved", event |-> e, number |-> account[intent[i].channel].number]
<1> USE DEF external
<1>1. i \in Intents /\ intent[i] \in IntentRow
  <2>1. sent[e] # NoEvent
    BY DEF ReserveEvent
  <2>2. i \in Intents
    BY <2>1 DEF StructureInv, TypeOK
  <2>3. intent[i] # NoRow
    BY <2>1, <2>2 DEF StructureInv, EventsHaveRows
  <2>4. QED
    BY <2>2, <2>3 DEF StructureInv, TypeOK
<1>2. account[intent[i].channel].number \in AccountNumbers
  BY <1>1 DEF StructureInv, TypeOK, IntentRow
<1>3. call \in HookCall /\ call.pc = "reserved" /\ call.event = e
  <2>1. call \in [pc : {"reserved"}, event : Events, number : AccountNumbers]
    BY <1>2
  <2>2. QED
    BY <2>1 DEF HookCall
<1>4. hookCall' = [hookCall EXCEPT ![d] = call]
  BY DEF ReserveEvent
<1> HIDE DEF call
<1>5. TypeOK'
  <2>1. hookCall' \in [Deliveries -> HookCall \cup {Idle}]
    BY <1>3, <1>4 DEF StructureInv, TypeOK
  <2>2. event' \in [Events -> [state : {"absent", "reserved", "processed"}, error : BOOLEAN]]
    BY DEF StructureInv, TypeOK, ReserveEvent
  <2>3. UNCHANGED <<order, log, paidBy, intent, txns, account, payCall, staffCall, provider, sent>>
    BY DEF ReserveEvent, KeepOrders
  <2>4. QED
    BY <2>1, <2>2, <2>3 DEF StructureInv, TypeOK
<1>6. CallsOwnTheirRows'
  BY DEF StructureInv, CallsOwnTheirRows, ReserveEvent
<1>7. EventsHaveRows'
  BY <1>3, <1>4 DEF StructureInv, TypeOK, EventsHaveRows, ReserveEvent
<1>8. QED
  BY <1>5, <1>6, <1>7 DEF StructureInv

(* A read keeps everything but its own call, which stays on its event.     *)
LEMMA ReadKeepsStructure ==
  ASSUME StructureInv, NEW d \in Deliveries, hookCall[d] # Idle,
         UNCHANGED <<order, log, paidBy, intent, txns, account, payCall, staffCall, external>>,
         NEW call \in HookCall \cup {Idle}, hookCall' = [hookCall EXCEPT ![d] = call],
         call # Idle => /\ call.event = hookCall[d].event
                        /\ intent[sent[hookCall[d].event].intent].known,
         NEW failed \in BOOLEAN,
         event' = IF failed THEN [event EXCEPT ![hookCall[d].event].error = TRUE] ELSE event
  PROVE  StructureInv'
<1> USE DEF external
<1>1. hookCall[d].event \in Events
  BY HookFacts
<1>2. TypeOK'
  BY <1>1 DEF StructureInv, TypeOK
<1>3. CallsOwnTheirRows'
  BY DEF StructureInv, CallsOwnTheirRows
<1>4. \A f \in Deliveries :
        /\ hookCall'[f] # Idle => sent[hookCall'[f].event] # NoEvent
        /\ hookCall'[f].pc \in {"seen", "read"} => intent[sent[hookCall'[f].event].intent].known
  <2>1. \A f \in Deliveries : hookCall'[f] = IF f = d THEN call ELSE hookCall[f]
    BY DEF StructureInv, TypeOK
  <2>2. QED
    BY <2>1 DEF StructureInv, EventsHaveRows, Idle
<1>5. \A e \in Events : event'[e].state = event[e].state
  BY <1>1 DEF StructureInv, TypeOK
<1>6. EventsHaveRows'
  BY <1>4, <1>5 DEF StructureInv, EventsHaveRows
<1>7. QED
  BY <1>2, <1>3, <1>6 DEF StructureInv

LEMMA ReadStructure ==
  ASSUME StructureInv, NEW d \in Deliveries, ReadIntent(d)
  PROVE  StructureInv'
<1> DEFINE e == hookCall[d].event
           call == [pc |-> "seen", event |-> e, intentStatus |-> intent[sent[e].intent].status]
<1>1. hookCall[d] # Idle /\ e \in Events
  BY HookFacts DEF ReadIntent, Idle
<1>2. intent[sent[e].intent] \in IntentRow
  BY <1>1, HookFacts
<1>3. call \in HookCall /\ call.event = e
  BY <1>1, <1>2 DEF HookCall, IntentRow
<1>4. UNCHANGED <<order, log, paidBy, intent, txns, account, payCall, staffCall, external>>
  BY DEF ReadIntent, KeepOrders
<1>5. CASE ReferencesMatch(e, hookCall[d].number)
  <2>1. hookCall' = [hookCall EXCEPT ![d] = call] /\ event' = event /\ intent[sent[e].intent].known
    BY <1>5 DEF ReadIntent, ReferencesMatch
  <2> HIDE DEF call
  <2>2. QED
    BY <1>1, <1>3, <1>4, <2>1, ReadKeepsStructure
<1>6. CASE ~ReferencesMatch(e, hookCall[d].number)
  <2>1. hookCall' = [hookCall EXCEPT ![d] = Idle] /\ event' = [event EXCEPT ![e].error = TRUE]
    BY <1>6 DEF ReadIntent
  <2>2. QED
    BY <1>1, <1>4, <2>1, ReadKeepsStructure
<1>7. QED
  BY <1>5, <1>6

LEMMA ReadOrderStructure ==
  ASSUME StructureInv, NEW d \in Deliveries, ReadOrder(d)
  PROVE  StructureInv'
<1> DEFINE e == hookCall[d].event
           call == [pc |-> "read", event |-> e, intentStatus |-> hookCall[d].intentStatus,
                    orderStatus |-> order[intent[sent[e].intent].order].status]
<1>1. hookCall[d] # Idle /\ e \in Events /\ hookCall[d] \in HookCall /\ hookCall[d].pc = "seen"
  BY HookFacts DEF ReadOrder, Idle
<1>2. intent[sent[e].intent].order \in Orders /\ intent[sent[e].intent].known
  BY <1>1, HookFacts
<1>3. hookCall[d].intentStatus \in IntentStatuses
  BY <1>1 DEF HookCall
<1>4. call \in HookCall /\ call.event = e
  BY <1>1, <1>2, <1>3 DEF HookCall, StructureInv, TypeOK
<1>5. hookCall' = [hookCall EXCEPT ![d] = call] /\ event' = event
  BY DEF ReadOrder, db
<1>6. UNCHANGED <<order, log, paidBy, intent, txns, account, payCall, staffCall, external>>
  BY DEF ReadOrder, db
<1> HIDE DEF call
<1>7. QED
  BY <1>1, <1>2, <1>4, <1>5, <1>6, ReadKeepsStructure

LEMMA HookDiesStructure ==
  ASSUME StructureInv, NEW d \in Deliveries, HookCallDies(d)
  PROVE  StructureInv'
BY DEF StructureInv, db, external, HookCallDies, TypeOK, CallsOwnTheirRows, EventsHaveRows, Idle

LEMMA WebhookStructure ==
  ASSUME StructureInv, Webhook
  PROVE  StructureInv'
BY ReserveStructure, ReadStructure, ReadOrderStructure, HookDiesStructure, SettleStructure, AcknowledgeStructure,
   NoteProgressStructure
DEF Webhook, CommitWebhook

LEMMA NextStructure == StructureInv /\ [Next]_vars => StructureInv'
<1> SUFFICES ASSUME StructureInv, [Next]_vars PROVE StructureInv'
  OBVIOUS
<1>1. CASE UNCHANGED vars
  BY <1>1 DEF vars, db, calls, external, StructureInv, TypeOK, CallsOwnTheirRows, EventsHaveRows
<1>2. QED
  BY <1>1, StaffStructure, CreateIntentStructure, ConnectorStructure, AdminStructure,
     WebhookStructure
  DEF Next

LEMMA StructureHolds == Spec => []StructureInv
BY InitStructure, NextStructure, PTL DEF Spec

(* Every row, call record and event keeps its type.                        *)
THEOREM TypeCorrect == Spec => []TypeOK
<1>1. StructureInv => TypeOK
  BY DEF StructureInv
<1>2. QED
  BY <1>1, StructureHolds, PTL

(* A call waiting for the connector owns its row: no webhook touches it.   *)
THEOREM RowsAreOwned == Spec => []CallsOwnTheirRows
<1>1. StructureInv => CallsOwnTheirRows
  BY DEF StructureInv
<1>2. QED
  BY <1>1, StructureHolds, PTL

-----------------------------------------------------------------------------
(* A succeeded intent stays succeeded (SuccessIsFinal).                    *)

LEMMA SuccessStep ==
  ASSUME StructureInv, Next, NEW i \in Intents, intent[i] # NoRow, intent[i].status = "SUCCEEDED"
  PROVE  intent'[i].status = "SUCCEEDED"
<1>1. CASE Staff
  BY <1>1 DEF Staff, CheckUpdate, CheckDelete, Check, CommitUpdate, CommitDelete, CommitMove,
              StaffCallDies, db
<1>2. CASE CreateIntent
  <2>1. PICK j \in Intents :
          \/ \E o \in Orders, k \in RequestIds, ch \in OnlineChannels : StartIntent(j, o, k, ch)
          \/ CheckActive(j)
          \/ LinkChannel(j)
          \/ InsertIntent(j)
          \/ \E status \in AnswerStatuses : GatewayAnswers(j, status)
          \/ GatewayMismatches(j)
          \/ GatewayFails(j)
          \/ PayCallDies(j)
    BY <1>2 DEF CreateIntent
  <2>2. payCall[i].pc \notin {"linked", "gateway"}
    BY DEF StructureInv, CallsOwnTheirRows
  <2>3. CASE j = i
    BY <2>1, <2>2, <2>3 DEF StartIntent, CheckActive, LinkChannel, InsertIntent, GatewayAnswers,
         GatewayMismatches, GatewayFails, EndPayCall, PayCallDies, db
  <2>4. CASE j # i
    <3>1. \A r : [intent EXCEPT ![j] = r][i] = intent[i]
      BY <2>4 DEF StructureInv, TypeOK
    <3>2. intent'[i] = intent[i]
      BY <2>1, <2>4, <3>1 DEF StructureInv, TypeOK, StartIntent, CheckActive, LinkChannel,
           InsertIntent, GatewayAnswers, GatewayMismatches, GatewayFails, EndPayCall, PayCallDies, db
    <3>3. QED
      BY <3>2
  <2>5. QED
    BY <2>3, <2>4
<1>3. CASE Connector \/ Admin
  BY <1>3 DEF Connector, ConnectorOpens, ConnectorSends, Admin, UpsertAccount, db
<1>4. CASE Webhook
  <2>1. PICK d \in Deliveries :
          \/ \E e \in Events : ReserveEvent(d, e)
          \/ ReadIntent(d)
          \/ ReadOrder(d)
          \/ CommitWebhook(d)
          \/ HookCallDies(d)
    BY <1>4 DEF Webhook
  <2>2. CASE (\E e \in Events : ReserveEvent(d, e)) \/ ReadIntent(d) \/ ReadOrder(d) \/ HookCallDies(d)
    BY <2>2 DEF ReserveEvent, ReadIntent, ReadOrder, HookCallDies, db
  <2>3. CASE AcknowledgeSettled(d)
    BY <2>3 DEF AcknowledgeSettled
  <2>4. CASE SettleIntent(d)
    <3>1. intent[i] \in IntentRow
      BY DEF StructureInv, TypeOK
    <3>2. QED
      BY <2>4, <3>1 DEF SettleIntent, StructureInv, TypeOK, IntentRow
  <2>5. ASSUME NEW type \in EventTypes, NoteProgress(d, type)
        PROVE  intent'[i].status = "SUCCEEDED"
    BY <2>5 DEF NoteProgress, MayNoteProgress, StructureInv, TypeOK
  <2>6. QED
    BY <2>1, <2>2, <2>3, <2>4, <2>5 DEF CommitWebhook
<1>5. QED
  BY <1>1, <1>2, <1>3, <1>4 DEF Next

(* No step of any handler downgrades a succeeded intent.                   *)
THEOREM SuccessIsNeverTakenBack == Spec => SuccessIsFinal
<1>1. StructureInv /\ [Next]_vars =>
        [\A i \in Intents : intent[i] # NoRow /\ intent[i].status = "SUCCEEDED"
           => intent'[i].status = "SUCCEEDED"]_intent
  BY SuccessStep DEF vars, db
<1>2. QED
  BY <1>1, StructureHolds, PTL DEF Spec, SuccessIsFinal

-----------------------------------------------------------------------------
(* Orders.  Everything that happens to an order is a move along the status *)
(* table that appends to its log, because a staff call decides on a status *)
(* and writes only while that status stands.                               *)

StaffPlansAreAllowed ==
  \A s \in StaffCalls : staffCall[s] # Idle =>
    staffCall[s].target \in Lifecycle!Allowed(staffCall[s].seen)

OrdersKept ==
  /\ log' = log /\ paidBy' = paidBy
  /\ \A o \in Orders : order'[o].status = order[o].status

OrderMoved(o, to, by) ==
  /\ to \in Lifecycle!Allowed(order[o].status)
  /\ MoveOrder(o, order[o].status, to, by)

LEMMA OrderStep ==
  ASSUME StructureInv, StaffPlansAreAllowed, Next
  PROVE  OrdersKept \/ \E o \in Orders, to \in Statuses, by \in Intents \cup {"staff"} : OrderMoved(o, to, by)
<1> DEFINE Moved == \E o \in Orders, to \in Statuses, by \in Intents \cup {"staff"} : OrderMoved(o, to, by)
<1>1. KeepOrders => OrdersKept
  BY DEF KeepOrders, OrdersKept
<1>2. CASE Staff
  <2>1. PICK s \in StaffCalls :
          \/ \E o \in Orders, t \in StaffTargets \cup {"DELETED"} : Check(s, o, t)
          \/ CommitMove(s)
          \/ StaffCallDies(s)
    BY <1>2 DEF Staff, CheckUpdate, CheckDelete, CommitUpdate, CommitDelete
  <2>2. CASE ~CommitMove(s)
    BY <1>1, <2>1, <2>2 DEF Check, StaffCallDies, db, KeepOrders
  <2>3. CASE CommitMove(s) /\ ~StillAsSeen(s)
    BY <1>1, <2>3 DEF CommitMove
  <2>4. CASE CommitMove(s) /\ StillAsSeen(s)
    <3>1. staffCall[s] # Idle /\ staffCall[s] \in StaffCall
      BY <2>4, CallsAreTyped DEF CommitMove, StructureInv, TypeOK
    <3>2. /\ staffCall[s].order \in Orders /\ staffCall[s].target \in Statuses
          /\ MoveOrder(staffCall[s].order, order[staffCall[s].order].status, staffCall[s].target, "staff")
      BY <2>4, <3>1, CallsAreTyped DEF CommitMove, StillAsSeen
    <3>3. staffCall[s].target \in Lifecycle!Allowed(order[staffCall[s].order].status)
      BY <2>4, <3>1 DEF StaffPlansAreAllowed, StillAsSeen
    <3>4. QED
      BY <3>2, <3>3 DEF OrderMoved
  <2>5. QED
    BY <2>2, <2>3, <2>4
<1>3. CASE CreateIntent
  <2>1. ASSUME NEW i \in Intents, LinkChannel(i)
        PROVE  OrdersKept
    BY <2>1 DEF LinkChannel, OrdersKept, StructureInv, TypeOK
  <2>2. CASE \A i \in Intents : ~LinkChannel(i)
    BY <1>1, <1>3, <2>2 DEF CreateIntent, StartIntent, CheckActive, InsertIntent, GatewayAnswers,
         GatewayMismatches, GatewayFails, EndPayCall, PayCallDies, db, KeepOrders
  <2>3. QED
    BY <2>1, <2>2
<1>4. CASE Connector \/ Admin
  BY <1>1, <1>4 DEF Connector, ConnectorOpens, ConnectorSends, Admin, UpsertAccount, db, KeepOrders
<1>5. CASE Webhook
  <2>1. PICK d \in Deliveries :
          \/ \E e \in Events : ReserveEvent(d, e)
          \/ ReadIntent(d)
          \/ ReadOrder(d)
          \/ CommitWebhook(d)
          \/ HookCallDies(d)
    BY <1>5 DEF Webhook
  <2>2. CASE ~SettleIntent(d)
    BY <1>1, <2>1, <2>2 DEF ReserveEvent, ReadIntent, ReadOrder, CommitWebhook, AcknowledgeSettled,
         NoteProgress, HookCallDies, db, KeepOrders
  <2>3. CASE SettleIntent(d)
    <3> DEFINE i == sent[hookCall[d].event].intent
               o == intent[i].order
    <3>1. KeepOrders \/ (AwaitsPayment(o) /\ MoveOrder(o, order[o].status, "PAID", i))
      BY <2>3 DEF SettleIntent, PayOrder, AwaitsPayment
    <3>2. hookCall[d] # Idle
      BY <2>3 DEF SettleIntent, EndHookCall, Idle
    <3>3. o \in Orders /\ i \in Intents
      BY <3>2, HookFacts
    <3>4. "PAID" \in Lifecycle!Allowed("PENDING_PAYMENT") /\ "PAID" \in Statuses
      BY DEF Lifecycle!Allowed, EditableTransitions, Statuses, Lifecycle!EditableTransitions
    <3>5. AwaitsPayment(o) => "PAID" \in Lifecycle!Allowed(order[o].status)
      BY <3>4 DEF AwaitsPayment
    <3>6. CASE KeepOrders
      BY <1>1, <3>6
    <3>7. CASE AwaitsPayment(o) /\ MoveOrder(o, order[o].status, "PAID", i)
      BY <3>3, <3>4, <3>5, <3>7 DEF OrderMoved
    <3>8. QED
      BY <3>1, <3>6, <3>7
  <2>4. QED
    BY <2>2, <2>3
<1>6. QED
  BY <1>2, <1>3, <1>4, <1>5 DEF Next

LEMMA StaffPlanStep ==
  ASSUME StructureInv, StaffPlansAreAllowed, Next
  PROVE  StaffPlansAreAllowed'
<1>1. CASE Staff
  <2>1. PICK s \in StaffCalls :
          \/ \E o \in Orders, t \in StaffTargets : CheckUpdate(s, o, t)
          \/ \E o \in Orders : CheckDelete(s, o)
          \/ CommitMove(s)
          \/ StaffCallDies(s)
    BY <1>1 DEF Staff, CommitUpdate, CommitDelete
  <2>2. \A r \in StaffCalls : r # s => staffCall'[r] = staffCall[r]
    BY <2>1 DEF CheckUpdate, CheckDelete, Check, CommitMove, StaffCallDies, StructureInv, TypeOK
  <2>3. staffCall'[s] # Idle => staffCall'[s].target \in Lifecycle!Allowed(staffCall'[s].seen)
    <3>1. CASE CommitMove(s) \/ StaffCallDies(s)
      BY <3>1 DEF CommitMove, StaffCallDies, StructureInv, TypeOK
    <3>2. ASSUME NEW o \in Orders, NEW t \in StaffTargets, CheckUpdate(s, o, t)
          PROVE  staffCall'[s].target \in Lifecycle!Allowed(staffCall'[s].seen)
      <4>1. staffCall'[s].target = t /\ staffCall'[s].seen = order[o].status
        BY <3>2 DEF CheckUpdate, Check, StructureInv, TypeOK
      <4>2. t \in EditableTransitions(order[o].status)
        BY <3>2 DEF CheckUpdate, CanUpdate
      <4>3. QED
        BY <4>1, <4>2 DEF Lifecycle!Allowed, EditableTransitions, Lifecycle!EditableTransitions
    <3>3. ASSUME NEW o \in Orders, CheckDelete(s, o)
          PROVE  staffCall'[s].target \in Lifecycle!Allowed(staffCall'[s].seen)
      <4>1. staffCall'[s].target = "DELETED" /\ staffCall'[s].seen = order[o].status
        BY <3>3 DEF CheckDelete, Check, StructureInv, TypeOK
      <4>2. order[o].status \in DeletableStatuses
        BY <3>3 DEF CheckDelete, CanDelete
      <4>3. QED
        BY <4>1, <4>2 DEF Lifecycle!Allowed, DeletableStatuses, Lifecycle!DeletableStatuses
    <3>4. QED
      BY <2>1, <3>1, <3>2, <3>3
  <2>4. QED
    BY <2>2, <2>3 DEF StaffPlansAreAllowed
<1>2. CASE staffCall' = staffCall
  BY <1>2 DEF StaffPlansAreAllowed
<1>3. CASE CreateIntent \/ Connector \/ Admin \/ Webhook
  <2>1. staffCall' = staffCall
    BY <1>3 DEF CreateIntent, StartIntent, CheckActive, LinkChannel, InsertIntent, GatewayAnswers,
         GatewayMismatches, GatewayFails, EndPayCall, PayCallDies, Connector, ConnectorOpens,
         ConnectorSends, Admin, UpsertAccount, Webhook, CommitWebhook, ReserveEvent, ReadIntent,
         ReadOrder, AcknowledgeSettled, SettleIntent, NoteProgress, EndHookCall, HookCallDies, calls
  <2>2. QED
    BY <1>2, <2>1
<1>4. QED
  BY <1>1, <1>3 DEF Next

LEMMA InitPlans == Init => StaffPlansAreAllowed
BY DEF Init, StaffPlansAreAllowed

LEMMA PlansHold == Spec => [](StructureInv /\ StaffPlansAreAllowed)
<1>1. StructureInv /\ StaffPlansAreAllowed /\ [Next]_vars => StaffPlansAreAllowed'
  BY StaffPlanStep DEF vars, calls, StaffPlansAreAllowed
<1>2. QED
  BY <1>1, InitPlans, StructureHolds, PTL DEF Spec

(* The detailed specification implements the abstract one.                 *)
LEMMA LifecycleInit == Init => Lifecycle!Init
BY DEF Init, Lifecycle!Init, CreationLog, Step, Lifecycle!CreationLog, Lifecycle!Step

LEMMA LifecycleStep ==
  ASSUME StructureInv, StaffPlansAreAllowed, [Next]_vars
  PROVE  [Lifecycle!Next]_(Lifecycle!vars)
<1> DEFINE st == [o \in Orders |-> order[o].status]
           st2 == [o \in Orders |-> order'[o].status]
<1>1. CASE OrdersKept
  BY <1>1 DEF OrdersKept, Lifecycle!vars
<1>2. ASSUME NEW o \in Orders, NEW to \in Statuses, NEW by \in Intents \cup {"staff"},
             OrderMoved(o, to, by)
      PROVE  Lifecycle!Next
  <2>1. st[o] = order[o].status /\ to \in Lifecycle!Allowed(st[o])
    BY <1>2 DEF OrderMoved
  <2>2. st2 = [st EXCEPT ![o] = to]
    <3>1. order' = [order EXCEPT ![o].status = to]
      BY <1>2 DEF OrderMoved, MoveOrder
    <3>2. \A q \in Orders : order'[q].status = IF q = o THEN to ELSE order[q].status
      BY <3>1 DEF StructureInv, TypeOK
    <3>3. QED
      BY <3>2
  <2>3. log' = [log EXCEPT ![o] = Append(@, Lifecycle!Step(st[o], to))]
    BY <1>2 DEF OrderMoved, MoveOrder, Step, Lifecycle!Step
  <2>4. Lifecycle!Move(o, to)
    BY <2>1, <2>2, <2>3 DEF Lifecycle!Move
  <2>5. QED
    BY <2>4 DEF Lifecycle!Next, Statuses, Lifecycle!Statuses
<1>3. CASE UNCHANGED vars
  BY <1>3 DEF vars, db, Lifecycle!vars
<1>4. QED
  BY <1>1, <1>2, <1>3, OrderStep

(* Whoever races, every order moves along the status table only, and every *)
(* move is in its audit chain.                                             *)
THEOREM OrdersFollowTheLifecycle == Spec => ImplementsLifecycle
BY LifecycleInit, LifecycleStep, PlansHold, PTL DEF Spec, ImplementsLifecycle, Lifecycle!Spec

-----------------------------------------------------------------------------
(* The order table: the audit chain, and at most one payment.              *)

OrderTableInv ==
  /\ \A o \in Orders : log[o] # <<>>
  /\ LogIsAuditChain
  /\ \A o \in Orders : order[o].status # "CREATING"
  /\ \A o \in Orders : AwaitsPayment(o) => PaidSteps(o) = {} /\ paidBy[o] = {}
  /\ PaidAtMostOnce

LEMMA AllowedFacts ==
  ASSUME NEW from \in Statuses, NEW to \in Lifecycle!Allowed(from)
  PROVE  /\ to # "CREATING"
         /\ to = "PENDING_PAYMENT" => from = "CREATING"
         /\ to = "PAID" => from = "PENDING_PAYMENT"
BY DEF Lifecycle!Allowed, EditableTransitions, Lifecycle!EditableTransitions, DeletableStatuses,
       Lifecycle!DeletableStatuses, Statuses

LEMMA InitOrderTable == Init => OrderTableInv
<1> SUFFICES ASSUME Init PROVE OrderTableInv
  OBVIOUS
<1>1. \A o \in Orders : log[o] = CreationLog /\ order[o].status = "PENDING_PAYMENT" /\ paidBy[o] = {}
  BY DEF Init
<1>2. Len(CreationLog) = 2 /\ CreationLog # <<>> /\ DOMAIN CreationLog = 1 .. 2
  BY DEF CreationLog
<1>3. /\ CreationLog[1].to = "CREATING" /\ CreationLog[2].from = "CREATING"
      /\ CreationLog[2].to = "PENDING_PAYMENT"
  BY DEF CreationLog, Step
<1>4. LogIsAuditChain
  BY <1>1, <1>2, <1>3 DEF LogIsAuditChain
<1>5. \A o \in Orders : PaidSteps(o) = {}
  BY <1>1, <1>2, <1>3 DEF PaidSteps
<1>6. QED
  BY <1>1, <1>2, <1>4, <1>5 DEF OrderTableInv, PaidAtMostOnce

LEMMA KeptOrderTable ==
  ASSUME OrderTableInv, OrdersKept
  PROVE  OrderTableInv'
BY DEF OrderTableInv, OrdersKept, LogIsAuditChain, PaidAtMostOnce, PaidSteps, AwaitsPayment

LEMMA MovedOrderTable ==
  ASSUME TypeOK, OrderTableInv, NEW p \in Orders, NEW to \in Statuses,
         NEW by \in Intents \cup {"staff"}, OrderMoved(p, to, by)
  PROVE  OrderTableInv'
<1> DEFINE row == Step(order[p].status, to)
<1>1. /\ order' = [order EXCEPT ![p].status = to]
      /\ log' = [log EXCEPT ![p] = Append(log[p], row)]
      /\ paidBy' = IF to = "PAID" THEN [paidBy EXCEPT ![p] = @ \cup {by}] ELSE paidBy
      /\ to \in Lifecycle!Allowed(order[p].status)
  BY DEF OrderMoved, MoveOrder
<1>2. order[p].status \in Statuses /\ log[p] \in Seq(LogRow) /\ row \in LogRow
  BY DEF TypeOK, Step, LogRow
<1>3. row.from = order[p].status /\ row.to = to
  BY DEF Step
<1>4. /\ order'[p].status = to /\ log'[p] = Append(log[p], row)
      /\ \A o \in Orders : o # p => log'[o] = log[o] /\ paidBy'[o] = paidBy[o] /\ order'[o] = order[o]
  BY <1>1 DEF TypeOK
<1> DEFINE n == Len(log[p])
<1>5. /\ n \in Nat /\ n # 0 /\ Len(log'[p]) = n + 1 /\ DOMAIN log'[p] = 1 .. n + 1 /\ DOMAIN log[p] = 1 .. n
      /\ \A m \in 1 .. n : log'[p][m] = log[p][m]
      /\ log'[p][n + 1] = row
  BY <1>2, <1>4 DEF OrderTableInv
<1> HIDE DEF row, n
<1>6. to # "CREATING" /\ to # "PENDING_PAYMENT" /\ (to = "PAID" => AwaitsPayment(p))
  BY <1>1, <1>2, AllowedFacts DEF OrderTableInv, AwaitsPayment
<1>7. LogIsAuditChain'
  <2>1. \A m \in 1 .. n : log'[p][m].to = log'[p][m + 1].from
    <3>1. ASSUME NEW m \in 1 .. n PROVE log'[p][m].to = log'[p][m + 1].from
      <4>1. CASE m = n
        BY <1>3, <1>5, <4>1 DEF OrderTableInv, LogIsAuditChain, n
      <4>2. CASE m # n
        <5>1. m \in 1 .. n - 1 /\ m + 1 \in 1 .. n
          BY <1>5, <4>2
        <5>2. log[p][m].to = log[p][m + 1].from
          BY <5>1 DEF OrderTableInv, LogIsAuditChain, n
        <5>3. QED
          BY <1>5, <5>1, <5>2
      <4>3. QED
        BY <4>1, <4>2
    <3>2. QED
      BY <3>1
  <2>2. log'[p][Len(log'[p])].to = order'[p].status
    BY <1>3, <1>4, <1>5
  <2>3. \A m \in 1 .. Len(log'[p]) - 1 : log'[p][m].to = log'[p][m + 1].from
    BY <1>5, <2>1
  <2>4. ASSUME NEW o \in Orders
        PROVE  /\ \A m \in 1 .. Len(log'[o]) - 1 : log'[o][m].to = log'[o][m + 1].from
               /\ log'[o][Len(log'[o])].to = order'[o].status
    <3>1. CASE o = p
      BY <2>2, <2>3, <3>1
    <3>2. CASE o # p
      <4>1. log'[o] = log[o] /\ order'[o] = order[o]
        BY <1>4, <3>2
      <4>2. QED
        BY <4>1 DEF OrderTableInv, LogIsAuditChain
    <3>3. QED
      BY <3>1, <3>2
  <2>5. QED
    BY <2>4 DEF LogIsAuditChain
<1>8. \A o \in Orders : o # p => PaidSteps(o)' = PaidSteps(o)
  BY <1>4 DEF PaidSteps
<1>9. PaidSteps(p)' = PaidSteps(p) \cup (IF to = "PAID" THEN {n + 1} ELSE {})
  BY <1>3, <1>5 DEF PaidSteps
<1>10. paidBy'[p] = paidBy[p] \cup (IF to = "PAID" THEN {by} ELSE {})
  BY <1>1 DEF TypeOK
<1>11. PaidAtMostOnce'
  <2>1. to = "PAID" => PaidSteps(p) = {} /\ paidBy[p] = {}
    BY <1>6 DEF OrderTableInv
  <2>2. /\ \A a, b \in PaidSteps(p)' : a = b
        /\ \A a, b \in paidBy'[p] : a = b
    BY <1>9, <1>10, <2>1 DEF OrderTableInv, PaidAtMostOnce
  <2>3. QED
    BY <1>4, <1>8, <2>2 DEF OrderTableInv, PaidAtMostOnce
<1>12. \A o \in Orders : AwaitsPayment(o)' => PaidSteps(o)' = {} /\ paidBy'[o] = {}
  BY <1>4, <1>6, <1>8 DEF OrderTableInv, AwaitsPayment
<1>13. \A o \in Orders : log'[o] # <<>> /\ order'[o].status # "CREATING"
  BY <1>4, <1>5, <1>6 DEF OrderTableInv
<1>14. QED
  BY <1>7, <1>11, <1>12, <1>13 DEF OrderTableInv

LEMMA OrderTableHolds == Spec => []OrderTableInv
<1>1. StructureInv /\ StaffPlansAreAllowed /\ OrderTableInv /\ [Next]_vars => OrderTableInv'
  <2> SUFFICES ASSUME StructureInv, StaffPlansAreAllowed, OrderTableInv, [Next]_vars
               PROVE  OrderTableInv'
    OBVIOUS
  <2>1. CASE UNCHANGED vars
    <3>1. OrdersKept
      BY <2>1 DEF vars, db, OrdersKept
    <3>2. QED
      BY <3>1, KeptOrderTable
  <2>2. CASE Next
    <3>1. TypeOK
      BY DEF StructureInv
    <3>2. QED
      BY <2>2, <3>1, OrderStep, KeptOrderTable, MovedOrderTable
  <2>3. QED
    BY <2>1, <2>2
<1>2. QED
  BY <1>1, InitOrderTable, PlansHold, PTL DEF Spec

(* The status log of every order is an unbroken chain up to its status.    *)
THEOREM AuditChainHolds == Spec => []LogIsAuditChain
<1>1. OrderTableInv => LogIsAuditChain
  BY DEF OrderTableInv
<1>2. QED
  BY <1>1, OrderTableHolds, PTL

(* However webhooks and staff race, an order is marked paid at most once.  *)
THEOREM OrdersArePaidOnce == Spec => []PaidAtMostOnce
<1>1. OrderTableInv => PaidAtMostOnce
  BY DEF OrderTableInv
<1>2. QED
  BY <1>1, OrderTableHolds, PTL

-----------------------------------------------------------------------------
(* Money.  The webhook's transaction acts on what it read before, so the   *)
(* invariant has to say how stale that may be (StaleReadsGoOneWay).        *)

MoneyInv ==
  WebhookPaymentIsBacked /\ MoneyIsRecordedOnce /\ ProcessedSuccessIsSettled /\ StaleReadsGoOneWay

AllInv == StructureInv /\ StaffPlansAreAllowed /\ OrderTableInv /\ MoneyInv

(* What a step may do to the rows that exist.                              *)
RowKept(i) ==
  /\ intent'[i] # NoRow
  /\ intent'[i].order = intent[i].order
  /\ intent[i].status = "SUCCEEDED" => intent'[i].status = "SUCCEEDED"

RowsKept == \A i \in Intents : intent[i] # NoRow => RowKept(i)

ClosedStaysClosed == \A o \in Orders : ~AwaitsPayment(o) => ~AwaitsPayment(o)'

LEMMA ClosedStep ==
  ASSUME StructureInv, StaffPlansAreAllowed, OrderTableInv, Next
  PROVE  ClosedStaysClosed
<1>1. CASE OrdersKept
  BY <1>1 DEF OrdersKept, ClosedStaysClosed, AwaitsPayment
<1>2. ASSUME NEW p \in Orders, NEW to \in Statuses, NEW by \in Intents \cup {"staff"}, OrderMoved(p, to, by)
      PROVE  ClosedStaysClosed
  <2>1. order[p].status \in Statuses /\ to # "PENDING_PAYMENT"
    BY <1>2, AllowedFacts DEF StructureInv, TypeOK, OrderMoved, OrderTableInv
  <2>2. \A o \in Orders : order'[o].status = IF o = p THEN to ELSE order[o].status
    BY <1>2 DEF StructureInv, TypeOK, OrderMoved, MoveOrder
  <2>3. QED
    BY <2>1, <2>2 DEF ClosedStaysClosed, AwaitsPayment
<1>3. QED
  BY <1>1, <1>2, OrderStep

SentKept == \A e \in Events : sent[e] # NoEvent => sent'[e] = sent[e]

StaleReadIsFine(d) ==
  LET i == sent[hookCall[d].event].intent
  IN /\ hookCall[d].pc \in {"seen", "read"} /\ SettledWhenRead(d) => intent[i].status = "SUCCEEDED"
     /\ hookCall[d].pc = "read" /\ ~OrderCanBePaid(d) => ~AwaitsPayment(intent[i].order)

LEMMA StaleReads == StaleReadsGoOneWay <=> \A d \in Deliveries : StaleReadIsFine(d)
BY DEF StaleReadsGoOneWay, StaleReadIsFine

LEMMA SuccessHasRow == \A i \in Intents : intent[i].status = "SUCCEEDED" => intent[i] # NoRow
BY DEF NoRow

(* What other calls have read, and the events already processed, survive a *)
(* step that keeps rows, closed orders and sent events.                    *)
LEMMA StaleFrame ==
  ASSUME AllInv, RowsKept, ClosedStaysClosed, SentKept
  PROVE  /\ \A d \in Deliveries : hookCall'[d] = hookCall[d] => StaleReadIsFine(d)'
         /\ \A e \in Events : event[e].state = "processed" /\ sent'[e].type = "PAYMENT_SUCCEEDED"
              => intent'[sent'[e].intent].status = "SUCCEEDED"
<1> USE DEF AllInv, MoneyInv
<1>1. ASSUME NEW d \in Deliveries, hookCall'[d] = hookCall[d], hookCall[d].pc \in {"seen", "read"}
      PROVE  StaleReadIsFine(d)'
  <2> DEFINE i == sent[hookCall[d].event].intent
  <2>1. hookCall[d] # Idle
    BY <1>1 DEF Idle
  <2>2. /\ i \in Intents /\ intent[i] # NoRow /\ intent[i].order \in Orders
        /\ sent'[hookCall[d].event] = sent[hookCall[d].event]
    BY <2>1, HookFacts, RowsHaveStatus DEF SentKept, StructureInv, EventsHaveRows
  <2>3. RowKept(i)
    BY <2>2 DEF RowsKept
  <2>4. StaleReadIsFine(d)
    BY StaleReads
  <2>5. QED
    BY <1>1, <2>2, <2>3, <2>4
    DEF StaleReadIsFine, RowKept, ClosedStaysClosed, SettledWhenRead, OrderCanBePaid
<1>2. \A d \in Deliveries : hookCall'[d] = hookCall[d] => StaleReadIsFine(d)'
  BY <1>1 DEF StaleReadIsFine
<1>3. ASSUME NEW e \in Events, event[e].state = "processed", sent'[e].type = "PAYMENT_SUCCEEDED"
      PROVE  intent'[sent'[e].intent].status = "SUCCEEDED"
  <2>1. sent[e] # NoEvent
    BY <1>3 DEF StructureInv, EventsHaveRows
  <2>2. sent'[e] = sent[e] /\ sent[e].intent \in Intents
    BY <2>1 DEF SentKept, StructureInv, TypeOK
  <2>3. intent[sent[e].intent].status = "SUCCEEDED"
    BY <1>3, <2>2 DEF ProcessedSuccessIsSettled
  <2>4. QED
    BY <2>2, <2>3, SuccessHasRow DEF RowsKept, RowKept
<1>4. QED
  BY <1>2, <1>3

(* A step that records no money keeps the money in order.                  *)
LEMMA MoneyFrame ==
  ASSUME AllInv, RowsKept, txns' = txns,
         \A o \in Orders : paidBy'[o] \subseteq paidBy[o] \cup {"staff"}
  PROVE  WebhookPaymentIsBacked' /\ MoneyIsRecordedOnce'
<1> USE DEF AllInv, MoneyInv
<1>1. WebhookPaymentIsBacked'
  <2>1. ASSUME NEW o \in Orders, NEW i \in paidBy'[o] \ {"staff"}
        PROVE  /\ intent'[i] # NoRow
               /\ intent'[i].order = o
               /\ intent'[i].status = "SUCCEEDED"
               /\ \E t \in txns' : t.intent = i
    <3>1. i \in paidBy[o] \ {"staff"} /\ i \in Intents
      BY <2>1 DEF StructureInv, TypeOK
    <3>2. QED
      BY <3>1 DEF WebhookPaymentIsBacked, RowsKept, RowKept
  <2>2. QED
    BY <2>1 DEF WebhookPaymentIsBacked
<1>2. MoneyIsRecordedOnce'
  <2>1. \A t \in txns : t.intent \in Intents /\ intent'[t.intent].status = "SUCCEEDED"
    BY SuccessHasRow DEF MoneyIsRecordedOnce, RowsKept, RowKept, StructureInv, TypeOK
  <2>2. QED
    BY <2>1 DEF MoneyIsRecordedOnce
<1>3. QED
  BY <1>1, <1>2

LEMMA MoneyFromParts ==
  ASSUME WebhookPaymentIsBacked', MoneyIsRecordedOnce',
         \A d \in Deliveries : StaleReadIsFine(d)',
         \A e \in Events : event'[e].state = "processed" /\ sent'[e].type = "PAYMENT_SUCCEEDED"
                             => intent'[sent'[e].intent].status = "SUCCEEDED"
  PROVE  MoneyInv'
BY DEF MoneyInv, ProcessedSuccessIsSettled, StaleReadsGoOneWay, StaleReadIsFine

LEMMA QuietMoney ==
  ASSUME AllInv, RowsKept, ClosedStaysClosed, SentKept,
         UNCHANGED <<txns, event, hookCall>>,
         \A o \in Orders : paidBy'[o] \subseteq paidBy[o] \cup {"staff"}
  PROVE  MoneyInv'
<1>1. WebhookPaymentIsBacked' /\ MoneyIsRecordedOnce'
  BY MoneyFrame
<1>2. QED
  BY <1>1, StaleFrame, MoneyFromParts

LEMMA StaffMoney ==
  ASSUME AllInv, Staff, ClosedStaysClosed
  PROVE  MoneyInv'
<1>1. UNCHANGED <<intent, txns, event, hookCall, sent>>
  BY DEF Staff, CheckUpdate, CheckDelete, Check, CommitUpdate, CommitDelete, CommitMove,
       StaffCallDies, db, external
<1>2. RowsKept /\ SentKept
  BY <1>1 DEF RowsKept, RowKept, SentKept
<1>3. paidBy \in [Orders -> SUBSET (Intents \cup {"staff"})]
  BY DEF AllInv, StructureInv, TypeOK
<1>4. paidBy' = paidBy \/ \E p \in Orders, from, to \in Statuses : MoveOrder(p, from, to, "staff")
  <2>1. ASSUME NEW s \in StaffCalls, CommitMove(s)
        PROVE  /\ staffCall[s].order \in Orders
               /\ staffCall[s].seen \in Statuses /\ staffCall[s].target \in Statuses
    BY <2>1, CallsAreTyped DEF AllInv, StructureInv, TypeOK, CommitMove
  <2>2. paidBy' = paidBy \/ \E s \in StaffCalls : CommitMove(s)
    BY DEF Staff, CheckUpdate, CheckDelete, Check, CommitUpdate, CommitDelete, StaffCallDies, db
  <2>3. QED
    BY <2>1, <2>2 DEF CommitMove, KeepOrders
<1>5. ASSUME NEW o \in Orders
      PROVE  paidBy'[o] \subseteq paidBy[o] \cup {"staff"}
  <2>1. ASSUME NEW p \in Orders, NEW from \in Statuses, NEW to \in Statuses, MoveOrder(p, from, to, "staff")
        PROVE  paidBy'[o] \subseteq paidBy[o] \cup {"staff"}
    <3>1. paidBy' = [paidBy EXCEPT ![p] = @ \cup {"staff"}] \/ paidBy' = paidBy
      BY <2>1 DEF MoveOrder
    <3>2. QED
      BY <1>3, <3>1
  <2>2. QED
    BY <1>4, <2>1
<1>6. QED
  BY <1>1, <1>2, <1>5, QuietMoney

LEMMA CreateIntentMoney ==
  ASSUME AllInv, CreateIntent, ClosedStaysClosed
  PROVE  MoneyInv'
<1>1. UNCHANGED <<txns, event, hookCall, sent, paidBy>>
  BY DEF CreateIntent, StartIntent, CheckActive, LinkChannel, InsertIntent, GatewayAnswers,
       GatewayMismatches, GatewayFails, EndPayCall, PayCallDies, KeepOrders, db, external
<1>2. SentKept
  BY <1>1 DEF SentKept
<1>3. ASSUME NEW i \in Intents, intent[i] # NoRow PROVE RowKept(i)
  <2>1. PICK j \in Intents :
          \/ \E o \in Orders, k \in RequestIds, ch \in OnlineChannels : StartIntent(j, o, k, ch)
          \/ CheckActive(j)
          \/ LinkChannel(j)
          \/ InsertIntent(j)
          \/ \E status \in AnswerStatuses : GatewayAnswers(j, status)
          \/ GatewayMismatches(j)
          \/ GatewayFails(j)
          \/ PayCallDies(j)
    BY DEF CreateIntent
  <2>2. intent \in [Intents -> IntentRow \cup {NoRow}] /\ intent[i] \in IntentRow
    BY <1>3 DEF AllInv, StructureInv, TypeOK
  <2>3. CASE intent'[i] = intent[i]
    BY <1>3, <2>3 DEF RowKept
  <2>4. CASE j # i
    <3>1. \A r : [intent EXCEPT ![j] = r][i] = intent[i]
      BY <2>2, <2>4
    <3>2. intent'[i] = intent[i]
      BY <2>1, <2>2, <2>4, <3>1 DEF StartIntent, CheckActive, LinkChannel,
           InsertIntent, GatewayAnswers, GatewayMismatches, GatewayFails, EndPayCall, PayCallDies, db
    <3>3. QED
      BY <2>3, <3>2
  <2>5. CASE j = i
    <3>1. ~(InsertIntent(i) /\ intent' # intent)
      BY <1>3 DEF AllInv, StructureInv, CallsOwnTheirRows, InsertIntent
    <3>2. CASE EndPayCall(i)
      <4>1. intent[i].status = "CREATED"
        BY <3>2 DEF EndPayCall, AllInv, StructureInv, CallsOwnTheirRows
      <4>2. intent'[i].order = intent[i].order /\ intent'[i] \in IntentRow
        <5>1. intent'[i] \in IntentRow \cup {NoRow}
          BY AnswerStructure, <2>1, <2>5, <3>2, CreateIntentStructure
          DEF AllInv, StructureInv, TypeOK
        <5>2. ASSUME NEW status, GatewayAnswers(i, status)
              PROVE  intent'[i].order = intent[i].order /\ intent'[i].status = status
          BY <2>2, <5>2 DEF GatewayAnswers, IntentRow
        <5>3. ASSUME GatewayMismatches(i) \/ GatewayFails(i)
              PROVE  intent'[i].order = intent[i].order /\ intent'[i].status = "FAILED"
          BY <2>2, <4>1, <5>3 DEF GatewayMismatches, GatewayFails, IntentRow
        <5>4. \/ \E status \in AnswerStatuses : GatewayAnswers(i, status)
              \/ GatewayMismatches(i)
              \/ GatewayFails(i)
              \/ intent' = intent
          BY <2>1, <2>5, <3>1 DEF StartIntent, CheckActive, LinkChannel, PayCallDies, db
        <5>5. intent'[i].order = intent[i].order /\ intent'[i] # NoRow
          BY <1>3, <5>2, <5>3, <5>4, ConstantsAssumption DEF NoRow
        <5>6. QED
          BY <5>1, <5>5
      <4>3. QED
        BY <4>1, <4>2, RowsHaveStatus DEF RowKept
    <3>3. CASE ~EndPayCall(i)
      <4>1. intent' = intent
        BY <2>1, <2>5, <3>1, <3>3 DEF StartIntent, CheckActive, LinkChannel, GatewayAnswers,
             GatewayMismatches, GatewayFails, PayCallDies, db
      <4>2. QED
        BY <2>3, <4>1
    <3>4. QED
      BY <3>2, <3>3
  <2>6. QED
    BY <2>4, <2>5
<1>4. RowsKept
  BY <1>3 DEF RowsKept
<1>5. QED
  BY <1>1, <1>2, <1>4, QuietMoney

LEMMA OutsideMoney ==
  ASSUME AllInv, Connector \/ Admin, ClosedStaysClosed
  PROVE  MoneyInv'
<1> USE DEF Connector, ConnectorOpens, ConnectorSends, Admin, UpsertAccount, db, calls, external
<1>1. UNCHANGED <<intent, txns, event, hookCall, paidBy>>
  OBVIOUS
<1>2. RowsKept
  BY <1>1 DEF RowsKept, RowKept
<1>3. SentKept
  BY DEF SentKept, AllInv, StructureInv, TypeOK
<1>4. QED
  BY <1>1, <1>2, <1>3, QuietMoney

(* A webhook call that reads, or dies, leaves rows and orders alone; what  *)
(* it has just read is fresh.                                              *)
LEMMA ReadingMoney ==
  ASSUME AllInv, NEW d \in Deliveries,
         \/ \E e \in Events : ReserveEvent(d, e)
         \/ ReadIntent(d)
         \/ ReadOrder(d)
         \/ HookCallDies(d)
  PROVE  MoneyInv'
<1>1. UNCHANGED <<order, paidBy, intent, txns, sent>>
  BY DEF ReserveEvent, ReadIntent, ReadOrder, HookCallDies, KeepOrders, db, external
<1>2. RowsKept /\ ClosedStaysClosed /\ SentKept
  BY <1>1 DEF RowsKept, RowKept, ClosedStaysClosed, AwaitsPayment, SentKept
<1>3. WebhookPaymentIsBacked' /\ MoneyIsRecordedOnce'
  BY <1>1, <1>2, MoneyFrame
<1>4. \A e \in Events : event'[e].state = "processed" => event[e].state = "processed"
  <2>1. CASE \E e \in Events : ReserveEvent(d, e)
    BY <2>1 DEF ReserveEvent, AllInv, StructureInv, TypeOK
  <2>2. CASE ReadIntent(d)
    <3>1. event \in [Events -> [state : {"absent", "reserved", "processed"}, error : BOOLEAN]]
      BY DEF AllInv, StructureInv, TypeOK
    <3>2. event' = event \/ event' = [event EXCEPT ![hookCall[d].event].error = TRUE]
      BY <2>2 DEF ReadIntent
    <3>3. QED
      BY <3>1, <3>2
  <2>3. CASE ReadOrder(d) \/ HookCallDies(d)
    BY <2>3 DEF ReadOrder, HookCallDies, db
  <2>4. QED
    BY <2>1, <2>2, <2>3
<1>5. \A f \in Deliveries : f # d => hookCall'[f] = hookCall[f]
  BY DEF ReserveEvent, ReadIntent, ReadOrder, HookCallDies, AllInv, StructureInv, TypeOK
<1>6. StaleReadIsFine(d)'
  <2>1. hookCall \in [Deliveries -> HookCall \cup {Idle}]
    BY DEF AllInv, StructureInv, TypeOK
  <2>2. CASE hookCall'[d].pc \notin {"seen", "read"}
    BY <2>2 DEF StaleReadIsFine
  <2>3. CASE ReadIntent(d) /\ hookCall'[d].pc = "seen"
    <3>1. hookCall'[d].intentStatus = intent[sent[hookCall'[d].event].intent].status
      BY <2>1, <2>3 DEF ReadIntent, Idle
    <3>2. QED
      BY <1>1, <2>3, <3>1 DEF StaleReadIsFine, SettledWhenRead
  <2>4. CASE ReadOrder(d)
    <3>1. /\ hookCall[d].pc = "seen"
          /\ hookCall'[d].event = hookCall[d].event
          /\ hookCall'[d].intentStatus = hookCall[d].intentStatus
          /\ hookCall'[d].orderStatus = order[intent[sent[hookCall[d].event].intent].order].status
      BY <2>1, <2>4 DEF ReadOrder
    <3>2. StaleReadIsFine(d)
      BY StaleReads DEF AllInv, MoneyInv
    <3>3. QED
      BY <1>1, <3>1, <3>2 DEF StaleReadIsFine, SettledWhenRead, OrderCanBePaid, AwaitsPayment
  <2>5. hookCall'[d].pc \in {"seen", "read"} => ReadOrder(d) \/ (ReadIntent(d) /\ hookCall'[d].pc = "seen")
    BY <2>1 DEF ReserveEvent, ReadIntent, HookCallDies, Idle
  <2>6. QED
    BY <2>2, <2>3, <2>4, <2>5
<1>7. \A f \in Deliveries : StaleReadIsFine(f)'
  BY <1>2, <1>5, <1>6, StaleFrame
<1>8. QED
  BY <1>2, <1>3, <1>4, <1>7, StaleFrame, MoneyFromParts

(* What every committing webhook does to the calls and the events.         *)
LEMMA CommitFrame ==
  ASSUME AllInv, NEW d \in Deliveries, NEW type \in EventTypes, EndHookCall(d, type),
         RowsKept, ClosedStaysClosed,
         WebhookPaymentIsBacked', MoneyIsRecordedOnce',
         type = "PAYMENT_SUCCEEDED" => intent'[sent[hookCall[d].event].intent].status = "SUCCEEDED"
  PROVE  MoneyInv'
<1>1. hookCall[d] # Idle /\ hookCall[d].event \in Events /\ sent[hookCall[d].event].type = type
  BY HookFacts DEF EndHookCall, Idle, AllInv
<1>2. SentKept /\ sent' = sent
  BY DEF EndHookCall, external, SentKept
<1>3. \A f \in Deliveries : hookCall'[f] = IF f = d THEN Idle ELSE hookCall[f]
  BY DEF EndHookCall, AllInv, StructureInv, TypeOK
<1>4. \A e \in Events : e # hookCall[d].event => event'[e] = event[e]
  BY <1>1 DEF EndHookCall, AllInv, StructureInv, TypeOK
<1>5. \A f \in Deliveries : StaleReadIsFine(f)'
  BY <1>2, <1>3, StaleFrame DEF StaleReadIsFine, Idle
<1>6. \A e \in Events : event'[e].state = "processed" /\ sent'[e].type = "PAYMENT_SUCCEEDED"
                            => intent'[sent'[e].intent].status = "SUCCEEDED"
  BY <1>1, <1>2, <1>4, StaleFrame
<1>7. QED
  BY <1>5, <1>6, MoneyFromParts

LEMMA AcknowledgeMoney ==
  ASSUME AllInv, NEW d \in Deliveries, AcknowledgeSettled(d), ClosedStaysClosed
  PROVE  MoneyInv'
<1>1. EndHookCall(d, "PAYMENT_SUCCEEDED") /\ SettledWhenRead(d) /\ UNCHANGED <<paidBy, intent, txns>>
  BY DEF AcknowledgeSettled, KeepOrders
<1>2. RowsKept
  BY <1>1 DEF RowsKept, RowKept
<1>3. WebhookPaymentIsBacked' /\ MoneyIsRecordedOnce'
  BY <1>1, <1>2, MoneyFrame
<1>4. intent[sent[hookCall[d].event].intent].status = "SUCCEEDED"
  BY <1>1, StaleReads DEF StaleReadIsFine, EndHookCall, AllInv, MoneyInv
<1>5. QED
  BY <1>1, <1>2, <1>3, <1>4, CommitFrame DEF EventTypes

LEMMA NoteProgressMoney ==
  ASSUME AllInv, NEW d \in Deliveries, NEW type \in EventTypes, NoteProgress(d, type), ClosedStaysClosed
  PROVE  MoneyInv'
<1> DEFINE i == sent[hookCall[d].event].intent
           row == [intent[i] EXCEPT !.status = Progress(type)]
<1>1. EndHookCall(d, type) /\ type # "PAYMENT_SUCCEEDED" /\ UNCHANGED <<paidBy, txns>>
  BY DEF NoteProgress, KeepOrders
<1>2. hookCall[d] # Idle
  BY <1>1 DEF EndHookCall, Idle
<1>3. i \in Intents /\ intent[i] \in IntentRow
  BY <1>2, HookFacts DEF AllInv
<1>4. row \in IntentRow /\ row.order = intent[i].order
  BY <1>3 DEF IntentRow, IntentStatuses, Progress
<1>5. intent' = intent \/ (intent' = [intent EXCEPT ![i] = row] /\ intent[i].status # "SUCCEEDED")
  BY DEF NoteProgress, MayNoteProgress, AllInv, StructureInv, TypeOK
<1> HIDE DEF row
<1>6. RowsKept
  BY <1>3, <1>4, <1>5, RowsHaveStatus DEF RowsKept, RowKept, AllInv, StructureInv, TypeOK
<1>7. WebhookPaymentIsBacked' /\ MoneyIsRecordedOnce'
  BY <1>1, <1>6, MoneyFrame
<1>8. QED
  BY <1>1, <1>6, <1>7, CommitFrame

LEMMA SettleMoney ==
  ASSUME AllInv, NEW d \in Deliveries, SettleIntent(d), ClosedStaysClosed
  PROVE  MoneyInv'
<1> DEFINE e == hookCall[d].event
           i == sent[e].intent
           o == intent[i].order
           row == [intent[i] EXCEPT !.status = "SUCCEEDED",
                     !.recon = IF OrderCanBePaid(d) THEN "MATCHED" ELSE "LATE_PAYMENT"]
           txn == [intent |-> i, event |-> e]
<1>1. EndHookCall(d, "PAYMENT_SUCCEEDED") /\ TransactionFits(i, e) /\ txns' = txns \cup {txn}
  BY DEF SettleIntent
<1>2. hookCall[d] # Idle
  BY <1>1 DEF EndHookCall, Idle
<1>3. e \in Events /\ i \in Intents /\ intent[i] \in IntentRow /\ o \in Orders
  BY <1>2, HookFacts DEF AllInv
<1>4. row \in IntentRow /\ row.status = "SUCCEEDED" /\ row.order = o /\ row # NoRow
  BY <1>3 DEF IntentRow, IntentStatuses, NoRow
<1>5. intent \in [Intents -> IntentRow \cup {NoRow}] /\ intent' = [intent EXCEPT ![i] = row]
  BY DEF SettleIntent, AllInv, StructureInv, TypeOK
<1> HIDE DEF row
<1>6. intent'[i] = row /\ \A j \in Intents : j # i => intent'[j] = intent[j]
  BY <1>3, <1>5
<1>7. RowsKept
  BY <1>4, <1>6 DEF RowsKept, RowKept
<1>8. \A p \in Orders : paidBy'[p] \subseteq paidBy[p] \cup (IF p = o THEN {i} ELSE {})
  <2>1. paidBy' = paidBy \/ paidBy' = [paidBy EXCEPT ![o] = @ \cup {i}]
    BY DEF SettleIntent, PayOrder, MoveOrder, KeepOrders
  <2>2. paidBy \in [Orders -> SUBSET (Intents \cup {"staff"})]
    BY DEF AllInv, StructureInv, TypeOK
  <2>3. QED
    BY <2>1, <2>2
<1>9. WebhookPaymentIsBacked'
  <2>1. ASSUME NEW p \in Orders, NEW j \in paidBy'[p] \ {"staff"}
        PROVE  /\ intent'[j] # NoRow
               /\ intent'[j].order = p
               /\ intent'[j].status = "SUCCEEDED"
               /\ \E t \in txns' : t.intent = j
    <3>1. CASE j \in paidBy[p]
      <4>1. j \in Intents
        BY <2>1, <3>1 DEF AllInv, StructureInv, TypeOK
      <4>2. /\ intent[j] # NoRow /\ intent[j].order = p /\ intent[j].status = "SUCCEEDED"
            /\ \E t \in txns : t.intent = j
        BY <2>1, <3>1 DEF AllInv, MoneyInv, WebhookPaymentIsBacked
      <4>3. RowKept(j)
        BY <1>7, <4>1, <4>2 DEF RowsKept
      <4>4. intent'[j] # NoRow /\ intent'[j].order = p /\ intent'[j].status = "SUCCEEDED"
        BY <4>2, <4>3 DEF RowKept
      <4>5. \E t \in txns' : t.intent = j
        BY <1>1, <4>2
      <4>6. QED
        BY <4>4, <4>5
    <3>2. CASE p = o /\ j = i
      <4>1. txn \in txns' /\ txn.intent = j
        BY <1>1, <3>2
      <4>2. intent'[j] # NoRow /\ intent'[j].order = p /\ intent'[j].status = "SUCCEEDED"
        BY <1>4, <1>6, <3>2
      <4>3. QED
        BY <4>1, <4>2
    <3>3. QED
      BY <1>8, <2>1, <3>1, <3>2
  <2>2. QED
    BY <2>1 DEF WebhookPaymentIsBacked
<1>10. MoneyIsRecordedOnce'
  <2>1. \A t \in txns : intent'[t.intent].status = "SUCCEEDED"
    BY <1>7, SuccessHasRow DEF AllInv, MoneyInv, MoneyIsRecordedOnce, RowsKept, RowKept, StructureInv, TypeOK
  <2>2. \A t \in txns : t.intent = i => t = txn
    BY <1>1 DEF TransactionFits, AllInv, StructureInv, TypeOK
  <2>3. \A t, u \in txns : t.intent = u.intent => t = u
    BY DEF AllInv, MoneyInv, MoneyIsRecordedOnce
  <2>4. txn.intent = i
    OBVIOUS
  <2>5. \A t, u \in txns' : t.intent = u.intent => t = u
    BY <1>1, <2>2, <2>3, <2>4
  <2>6. \A t \in txns' : intent'[t.intent].status = "SUCCEEDED"
    BY <1>1, <1>4, <1>6, <2>1, <2>4
  <2>7. QED
    BY <2>5, <2>6 DEF MoneyIsRecordedOnce
<1>11. QED
  BY <1>1, <1>4, <1>6, <1>7, <1>9, <1>10, CommitFrame DEF EventTypes

LEMMA InitMoney == Init => MoneyInv
BY DEF Init, MoneyInv, WebhookPaymentIsBacked, MoneyIsRecordedOnce, ProcessedSuccessIsSettled,
     StaleReadsGoOneWay, Idle

LEMMA MoneyStep == AllInv /\ [Next]_vars => MoneyInv'
<1> SUFFICES ASSUME AllInv, [Next]_vars PROVE MoneyInv'
  OBVIOUS
<1>1. CASE UNCHANGED vars
  <2>1. RowsKept /\ ClosedStaysClosed /\ SentKept
    BY <1>1 DEF vars, db, external, RowsKept, RowKept, ClosedStaysClosed, AwaitsPayment, SentKept
  <2>2. QED
    BY <1>1, <2>1, QuietMoney DEF vars, db, calls
<1>2. CASE Next
  <2>1. ClosedStaysClosed
    BY <1>2, ClosedStep DEF AllInv
  <2>2. CASE Webhook
    BY <2>1, <2>2, ReadingMoney, AcknowledgeMoney, SettleMoney, NoteProgressMoney DEF Webhook, CommitWebhook
  <2>3. QED
    BY <1>2, <2>1, <2>2, StaffMoney, CreateIntentMoney, OutsideMoney DEF Next
<1>3. QED
  BY <1>1, <1>2

LEMMA MoneyHolds == Spec => []MoneyInv
<1>1. StructureInv /\ StaffPlansAreAllowed /\ OrderTableInv /\ MoneyInv /\ [Next]_vars => MoneyInv'
  BY MoneyStep DEF AllInv
<1>2. QED
  BY <1>1, InitMoney, PlansHold, OrderTableHolds, PTL DEF Spec

(* Whatever races with it, an order paid by a webhook is backed by a       *)
(* succeeded intent of that order and its recorded transaction.            *)
THEOREM WebhookPaymentsAreBacked == Spec => []WebhookPaymentIsBacked
<1>1. MoneyInv => WebhookPaymentIsBacked
  BY DEF MoneyInv
<1>2. QED
  BY <1>1, MoneyHolds, PTL

(* Redelivered and concurrent webhooks record the money of an intent once. *)
THEOREM MoneyIsNeverRecordedTwice == Spec => []MoneyIsRecordedOnce
<1>1. MoneyInv => MoneyIsRecordedOnce
  BY DEF MoneyInv
<1>2. QED
  BY <1>1, MoneyHolds, PTL

(* An acknowledged success event stays a success.                          *)
THEOREM AcknowledgedSuccessStands == Spec => []ProcessedSuccessIsSettled
<1>1. MoneyInv => ProcessedSuccessIsSettled
  BY DEF MoneyInv
<1>2. QED
  BY <1>1, MoneyHolds, PTL

(* What a webhook read outside its transaction can only be stale one way.  *)
THEOREM WebhookReadsAreStaleOneWay == Spec => []StaleReadsGoOneWay
<1>1. MoneyInv => StaleReadsGoOneWay
  BY DEF MoneyInv
<1>2. QED
  BY <1>1, MoneyHolds, PTL

(* The connector and the webhooks only ever deal with intents that have a  *)
(* row, and a webhook past its checks with one whose reference is stored.  *)
THEOREM EventsAreBacked == Spec => []EventsHaveRows
<1>1. StructureInv => EventsHaveRows
  BY DEF StructureInv
<1>2. QED
  BY <1>1, StructureHolds, PTL

LEMMA ChannelStep ==
  ASSUME StructureInv, StaffPlansAreAllowed, Next, NEW o \in Orders, ~AwaitsPayment(o)
  PROVE  order'[o].channel = order[o].channel
<1>1. order \in [Orders -> [status : Statuses, channel : Channels]]
  BY DEF StructureInv, TypeOK
<1>2. \/ order' = order
      \/ \E i \in Intents : LinkChannel(i)
      \/ \E p, from, to, by : MoveOrder(p, from, to, by)
  BY DEF Next, Staff, CheckUpdate, CheckDelete, Check, CommitUpdate, CommitDelete, CommitMove,
       StaffCallDies, CreateIntent, StartIntent, CheckActive, InsertIntent, GatewayAnswers,
       GatewayMismatches, GatewayFails, EndPayCall, PayCallDies, Connector, ConnectorOpens,
       ConnectorSends, Admin, UpsertAccount, Webhook, CommitWebhook, ReserveEvent, ReadIntent,
       ReadOrder, AcknowledgeSettled, SettleIntent, PayOrder, NoteProgress, HookCallDies,
       KeepOrders, db
<1>3. ASSUME NEW i \in Intents, LinkChannel(i)
      PROVE  order'[o].channel = order[o].channel
  <2>1. order' = order \/ (AwaitsPayment(payCall[i].order)
          /\ order' = [order EXCEPT ![payCall[i].order].channel = payCall[i].channel])
    BY <1>3 DEF LinkChannel, MayLink
  <2>2. QED
    BY <1>1, <2>1
<1>4. ASSUME NEW p, NEW from, NEW to, NEW by, MoveOrder(p, from, to, by)
      PROVE  order'[o].channel = order[o].channel
  BY <1>1, <1>4 DEF MoveOrder
<1>5. QED
  BY <1>2, <1>3, <1>4

(* Once an order is paid or closed, no createIntent call still in flight   *)
(* changes the channel it was paid through.                                *)
THEOREM ChannelStaysFrozen == Spec => ChannelIsFrozenOncePaid
<1>1. StructureInv /\ StaffPlansAreAllowed /\ [Next]_vars =>
        [\A o \in Orders : ~AwaitsPayment(o) => order'[o].channel = order[o].channel]_order
  BY ChannelStep DEF vars, db
<1>2. QED
  BY <1>1, PlansHold, PTL DEF Spec, ChannelIsFrozenOncePaid
-----------------------------------------------------------------------------

(* With a connector that reports success by webhook only, whoever made an  *)
(* intent succeed has recorded its transaction.                            *)
SuccessIsRecorded ==
  \A i \in Intents : intent[i].status = "SUCCEEDED" => \E t \in txns : t.intent = i

LEMMA RecordStep ==
  ASSUME StructureInv, Next, SuccessIsRecorded, "SUCCEEDED" \notin AnswerStatuses
  PROVE  SuccessIsRecorded'
<1>1. intent \in [Intents -> IntentRow \cup {NoRow}]
  BY DEF StructureInv, TypeOK
<1>2. txns \subseteq txns'
  BY DEF Next, Staff, CheckUpdate, CheckDelete, Check, CommitUpdate, CommitDelete, CommitMove,
       StaffCallDies, CreateIntent, StartIntent, CheckActive, LinkChannel, InsertIntent, GatewayAnswers,
       GatewayMismatches, GatewayFails, EndPayCall, PayCallDies, Connector, ConnectorOpens,
       ConnectorSends, Admin, UpsertAccount, Webhook, CommitWebhook, ReserveEvent, ReadIntent,
       ReadOrder, AcknowledgeSettled, SettleIntent, NoteProgress, HookCallDies, db
<1>3. \/ intent' = intent
      \/ \E j \in Intents :
           InsertIntent(j) \/ GatewayMismatches(j) \/ GatewayFails(j) \/ \E a \in AnswerStatuses : GatewayAnswers(j, a)
      \/ \E d \in Deliveries : SettleIntent(d) \/ \E type \in EventTypes : NoteProgress(d, type)
  BY DEF Next, Staff, CheckUpdate, CheckDelete, Check, CommitUpdate, CommitDelete, CommitMove,
       StaffCallDies, CreateIntent, StartIntent, CheckActive, LinkChannel, PayCallDies, Connector,
       ConnectorOpens, ConnectorSends, Admin, UpsertAccount, Webhook, CommitWebhook, ReserveEvent,
       ReadIntent, ReadOrder, AcknowledgeSettled, HookCallDies, db
<1>4. ASSUME NEW i \in Intents, intent'[i].status = "SUCCEEDED"
      PROVE  intent[i].status = "SUCCEEDED" \/ \E t \in txns' : t.intent = i
  <2>1. CASE intent' = intent
    BY <1>4, <2>1
  <2>2. ASSUME NEW j \in Intents, InsertIntent(j) PROVE intent[i].status = "SUCCEEDED"
    <3>1. intent' = intent \/ intent' = [intent EXCEPT ![j] = NewRow(payCall[j])]
      BY <2>2 DEF InsertIntent
    <3>2. QED
      BY <1>1, <1>4, <3>1 DEF NewRow
  <2>3. ASSUME NEW j \in Intents, GatewayMismatches(j) \/ GatewayFails(j) PROVE intent[i].status = "SUCCEEDED"
    BY <1>1, <1>4, <2>3 DEF GatewayMismatches, GatewayFails, IntentRow, NoRow
  <2>4. ASSUME NEW j \in Intents, NEW a \in AnswerStatuses, GatewayAnswers(j, a)
        PROVE  intent[i].status = "SUCCEEDED"
    BY <1>1, <1>4, <2>4 DEF GatewayAnswers, IntentRow, NoRow
  <2>5. ASSUME NEW d \in Deliveries, NEW type \in EventTypes, NoteProgress(d, type)
        PROVE  intent[i].status = "SUCCEEDED"
    BY <1>1, <1>4, <2>5 DEF NoteProgress, Progress, IntentRow, NoRow
  <2>6. ASSUME NEW d \in Deliveries, SettleIntent(d)
        PROVE  intent[i].status = "SUCCEEDED" \/ \E t \in txns' : t.intent = i
    <3>1. CASE i = sent[hookCall[d].event].intent
      <4> DEFINE t == [intent |-> i, event |-> hookCall[d].event]
      <4>1. txns' = txns \cup {t}
        BY <2>6, <3>1 DEF SettleIntent
      <4>2. t.intent = i
        OBVIOUS
      <4> HIDE DEF t
      <4>3. QED
        BY <4>1, <4>2
    <3>2. CASE i # sent[hookCall[d].event].intent
      <4>1. intent'[i] = intent[i]
        BY <1>1, <2>6, <3>2 DEF SettleIntent
      <4>2. QED
        BY <1>4, <4>1
    <3>3. QED
      BY <3>1, <3>2
  <2>7. QED
    BY <1>3, <2>1, <2>2, <2>3, <2>4, <2>5, <2>6
<1>5. QED
  BY <1>2, <1>4 DEF SuccessIsRecorded

(* Every accepted success has a transaction, as long as the connector does *)
(* not answer createIntent with a success.                                 *)
THEOREM AcceptedMoneyIsOnRecord ==
  ASSUME "SUCCEEDED" \notin AnswerStatuses
  PROVE  Spec => []AcceptedSuccessHasTransaction
<1>1. Init => SuccessIsRecorded
  BY DEF Init, SuccessIsRecorded, NoRow
<1>2. StructureInv /\ SuccessIsRecorded /\ [Next]_vars => SuccessIsRecorded'
  BY RecordStep DEF SuccessIsRecorded, vars, db
<1>3. StructureInv /\ MoneyInv /\ SuccessIsRecorded => AcceptedSuccessHasTransaction
  <2>1. SUFFICES ASSUME StructureInv, MoneyInv, SuccessIsRecorded, NEW e \in Events,
                        event[e].state = "processed", sent[e].type = "PAYMENT_SUCCEEDED"
                 PROVE  \E t \in txns : t.intent = sent[e].intent
    BY DEF AcceptedSuccessHasTransaction
  <2>2. sent[e].intent \in Intents
    BY <2>1 DEF StructureInv, TypeOK, EventsHaveRows
  <2>3. QED
    BY <2>1, <2>2 DEF MoneyInv, ProcessedSuccessIsSettled, SuccessIsRecorded
<1>4. QED
  BY <1>1, <1>2, <1>3, StructureHolds, MoneyHolds, PTL DEF Spec
=============================================================================
