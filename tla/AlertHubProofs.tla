--------------------------- MODULE AlertHubProofs ---------------------------
(***************************************************************************)
(* Theorems about AlertHub, for any number of streams and readers and any  *)
(* capacities.                                                             *)
(***************************************************************************)
EXTENDS AlertHub, SequenceTheorems, TLAPS

\* Where each accepted alert is: stored, at the consumer, or in the channel, in
\* this order and without a gap.
Numbering ==
    /\ accepted = added + Len(alertChan) + (IF consumer = "lock" THEN 1 ELSE 0)
    /\ consumer = "lock" => cur = added + 1
    /\ consumer = "send" => cur = added /\ cur > 0
    /\ \A i \in 1..Len(alertChan) :
          alertChan[i] = accepted - Len(alertChan) + i
    /\ targets # {} => consumer = "send"

TypeInv == QueueTypeOK /\ LockTypeOK /\ StreamTypeOK /\ Numbering

LEMMA TypeInit == Init => TypeInv
  BY HubAssumption, EmptySeq DEF Init, TypeInv, QueueTypeOK, LockTypeOK,
     StreamTypeOK, Numbering, Readers, Writers

\* A step of the lock or of a stream leaves the alerts in their places.
LEMMA QueueFrame ==
  ASSUME TypeInv,
         UNCHANGED <<accepted, alertChan, consumer, cur, targets, added, alerts>>
  PROVE  QueueTypeOK' /\ Numbering'
  BY DEF TypeInv, QueueTypeOK, Numbering

\* Only the goroutine that has announced itself leaves its call of Lock, and it
\* takes the announcement back.
LEMMA UnlockType ==
  ASSUME TypeInv, Unlock
  PROVE  LockTypeOK'
  BY DEF TypeInv, LockTypeOK, Unlock

LEMMA TypeAccept == TypeInv /\ Accept => TypeInv'
<1> SUFFICES ASSUME TypeInv, Accept PROVE TypeInv'
  OBVIOUS
<1>0. /\ accepted < MaxAlerts
      /\ Len(alertChan) < ChanCap
      /\ accepted' = accepted + 1
      /\ alertChan' = Append(alertChan, accepted')
      /\ UNCHANGED <<consumer, cur, targets, added, alerts, writer, reader,
                     clients, stream, ch, sent, base, lost>>
  BY DEF Accept, consumerVars, storeVars, lockVars, streamVars
<1>1. accepted' \in 1..MaxAlerts
  BY <1>0, HubAssumption DEF TypeInv, QueueTypeOK
<1>2. /\ alertChan' \in Seq(1..MaxAlerts)
      /\ Len(alertChan) \in Nat
      /\ Len(alertChan') = Len(alertChan) + 1
      /\ \A i \in 1..Len(alertChan) : alertChan'[i] = alertChan[i]
      /\ alertChan'[Len(alertChan) + 1] = accepted'
  BY <1>0, <1>1, AppendProperties, LenProperties DEF TypeInv, QueueTypeOK
<1>3. QueueTypeOK'
  BY <1>0, <1>1, <1>2, HubAssumption DEF TypeInv, QueueTypeOK
<1>4. LockTypeOK'
  BY <1>0 DEF TypeInv, LockTypeOK, WantsLock, Readers, Writers
<1>5. StreamTypeOK'
  BY <1>0 DEF TypeInv, StreamTypeOK
<1>6. Numbering'
  <2>1. accepted' = accepted + 1 /\ UNCHANGED <<consumer, cur, targets, added>>
    BY <1>0
  <2>2. accepted \in Nat /\ added \in Nat
    BY DEF TypeInv, QueueTypeOK
  <2>3. \A i \in 1..Len(alertChan) :
          alertChan[i] = accepted - Len(alertChan) + i
    BY DEF TypeInv, Numbering
  <2>4. ASSUME NEW i \in 1..Len(alertChan')
        PROVE  alertChan'[i] = accepted' - Len(alertChan') + i
    <3>1. CASE i \in 1..Len(alertChan)
      BY <3>1, <1>2, <2>1, <2>2, <2>3
    <3>2. CASE i = Len(alertChan) + 1
      BY <3>2, <1>2, <2>1, <2>2
    <3> QED
      BY <3>1, <3>2, <1>2
  <2>5. accepted' = added' + Len(alertChan') + (IF consumer' = "lock" THEN 1 ELSE 0)
    BY <1>2, <2>1, <2>2 DEF TypeInv, Numbering
  <2> QED
    BY <2>1, <2>4, <2>5 DEF TypeInv, Numbering
<1> QED BY <1>3, <1>4, <1>5, <1>6 DEF TypeInv

LEMMA TypeLock ==
  ASSUME TypeInv,
         \/ \E w \in Writers : Announce(w)
         \/ \E r \in Readers : ReaderEnter(r) \/ ReaderLeave(r)
  PROVE  TypeInv'
<1>1. UNCHANGED <<accepted, alertChan, consumer, cur, targets, added, alerts,
                  clients, stream, ch, sent, base, lost>>
  BY DEF Announce, ReaderEnter, ReaderLeave, consumerVars, storeVars, streamVars
<1>2. QueueTypeOK' /\ Numbering'
  BY <1>1, QueueFrame
<1>3. StreamTypeOK'
  BY <1>1 DEF TypeInv, StreamTypeOK
<1>4. LockTypeOK'
  <2>1. CASE \E w \in Writers : Announce(w)
    BY <2>1, <1>1 DEF TypeInv, LockTypeOK, WantsLock, Announce, Readers
  <2>2. CASE \E r \in Readers : ReaderEnter(r) \/ ReaderLeave(r)
    BY <2>2, <1>1 DEF TypeInv, LockTypeOK, WantsLock, ReaderEnter, ReaderLeave,
       Readers, Writers
  <2> QED BY <2>1, <2>2
<1> QED BY <1>2, <1>3, <1>4 DEF TypeInv

LEMMA TypeStream ==
  ASSUME TypeInv, NEW c \in Streams,
         Connect(c) \/ Register(c) \/ Deliver(c) \/ Disconnect(c) \/ Unregister(c)
  PROVE  TypeInv'
<1>1. UNCHANGED <<accepted, alertChan, consumer, cur, targets, added, alerts>>
  BY DEF Connect, Register, Deliver, Disconnect, Unregister, consumerVars, storeVars
<1>2. QueueTypeOK' /\ Numbering'
  BY <1>1, QueueFrame
<1>3. LockTypeOK'
  <2>1. CASE Connect(c) \/ Deliver(c) \/ Disconnect(c)
    BY <2>1, <1>1, HubAssumption DEF TypeInv, LockTypeOK, StreamTypeOK, WantsLock,
       Connect, Deliver, Disconnect, Readers, Writers, lockVars
  <2>2. CASE Register(c) \/ Unregister(c)
    BY <2>2, UnlockType DEF Register, Unregister
  <2> QED BY <2>1, <2>2
<1>4. StreamTypeOK'
  <2>1. CASE Connect(c) \/ Disconnect(c) \/ Unregister(c)
    BY <2>1, <1>1 DEF TypeInv, StreamTypeOK, Connect, Disconnect, Unregister
  <2>2. CASE Register(c)
    BY <2>2, <1>1 DEF TypeInv, StreamTypeOK, QueueTypeOK, Register
  <2>3. CASE Deliver(c)
    <3>1. /\ ch[c] \in Seq(1..MaxAlerts)
          /\ ch[c] # << >>
      BY <2>3 DEF TypeInv, StreamTypeOK, Deliver
    <3>2. /\ Head(ch[c]) \in 1..MaxAlerts
          /\ Tail(ch[c]) \in Seq(1..MaxAlerts)
          /\ Len(Tail(ch[c])) = Len(ch[c]) - 1
      BY <3>1, HeadTailProperties
    <3>3. Written(Head(ch[c])) \in [id : 1..MaxAlerts, intact : BOOLEAN]
      BY <3>2 DEF Written
    <3>4. Append(sent[c], Written(Head(ch[c])))
             \in Seq([id : 1..MaxAlerts, intact : BOOLEAN])
      BY <3>3, AppendProperties DEF TypeInv, StreamTypeOK
    <3>5. Len(Tail(ch[c])) <= ClientCap
      BY <3>1, <3>2, LenProperties, HubAssumption DEF TypeInv, StreamTypeOK
    <3>6. /\ ch' = [ch EXCEPT ![c] = Tail(ch[c])]
          /\ sent' = [sent EXCEPT ![c] = Append(sent[c], Written(Head(ch[c])))]
          /\ UNCHANGED <<clients, targets, stream, base, lost>>
      BY <2>3, <1>1 DEF Deliver
    <3> QED BY <3>2, <3>4, <3>5, <3>6 DEF TypeInv, StreamTypeOK
  <2> QED BY <2>1, <2>2, <2>3
<1> QED BY <1>2, <1>3, <1>4 DEF TypeInv

LEMMA TypeReceive == TypeInv /\ Receive => TypeInv'
<1> SUFFICES ASSUME TypeInv, Receive PROVE TypeInv'
  OBVIOUS
<1>1. /\ consumer = "receive" /\ consumer' = "lock"
      /\ cur' = Head(alertChan)
      /\ alertChan' = Tail(alertChan)
      /\ UNCHANGED <<accepted, targets, added, alerts, writer, reader, clients,
                     stream, ch, sent, base, lost>>
  BY DEF Receive, storeVars, lockVars, streamVars
<1>2. /\ alertChan \in Seq(1..MaxAlerts)
      /\ alertChan # << >>
      /\ Len(alertChan) \in Nat
      /\ Len(alertChan) > 0
      /\ Head(alertChan) = alertChan[1]
  BY EmptySeq, LenProperties DEF Receive, TypeInv, QueueTypeOK
<1>3. /\ Head(alertChan) \in 1..MaxAlerts
      /\ alertChan' \in Seq(1..MaxAlerts)
      /\ Len(alertChan') = Len(alertChan) - 1
      /\ \A i \in 1..Len(alertChan') : alertChan'[i] = alertChan[i + 1]
  BY <1>1, <1>2, HeadTailProperties
<1>4. QueueTypeOK'
  BY <1>1, <1>2, <1>3, HubAssumption DEF TypeInv, QueueTypeOK
<1>5. LockTypeOK'
  BY <1>1, HubAssumption DEF TypeInv, LockTypeOK, WantsLock, Readers, Writers
<1>6. StreamTypeOK'
  BY <1>1 DEF TypeInv, StreamTypeOK
<1>7. Numbering'
  <2>1. accepted \in Nat /\ added \in Nat
    BY DEF TypeInv, QueueTypeOK
  <2>2. /\ accepted = added + Len(alertChan)
        /\ \A i \in 1..Len(alertChan) :
              alertChan[i] = accepted - Len(alertChan) + i
        /\ targets = {}
    BY <1>1, <2>1, <1>2 DEF TypeInv, Numbering
  <2>3. cur' = added + 1
    BY <1>1, <1>2, <2>1, <2>2
  <2>4. ASSUME NEW i \in 1..Len(alertChan')
        PROVE  alertChan'[i] = accepted' - Len(alertChan') + i
    <3>1. alertChan'[i] = alertChan[i + 1] /\ i + 1 \in 1..Len(alertChan)
      BY <1>2, <1>3
    <3> QED BY <3>1, <1>1, <1>2, <1>3, <2>1, <2>2
  <2>5. accepted' = added' + Len(alertChan') + 1
    BY <1>1, <1>2, <1>3, <2>1, <2>2
  <2> QED BY <1>1, <2>2, <2>3, <2>4, <2>5 DEF Numbering
<1> QED BY <1>4, <1>5, <1>6, <1>7 DEF TypeInv

\* What trimming leaves: the end of the sequence, at most StoreMax long and,
\* when anything was cut, StoreKeep long.
LEMMA TrimKeepsEnd ==
  ASSUME NEW S, NEW s \in Seq(S)
  PROVE  /\ Trim(s) \in Seq(S)
         /\ Len(Trim(s)) \in Nat
         /\ Len(Trim(s)) <= Len(s)
         /\ Len(Trim(s)) <= StoreMax
         /\ Trim(s) = s \/ Len(Trim(s)) = StoreKeep
         /\ \A i \in 1..Len(Trim(s)) : Trim(s)[i] = s[Len(s) - Len(Trim(s)) + i]
<1>1. Len(s) \in Nat /\ \A i \in 1..Len(s) : s[i] \in S
  BY LenProperties, ElementOfSeq
<1>2. CASE Len(s) <= StoreMax
  BY <1>1, <1>2, HubAssumption DEF Trim
<1>3. CASE Len(s) > StoreMax
  <2> DEFINE m == Len(s) - StoreKeep + 1
  <2>1. m \in Int /\ m \in 2..Len(s)
    BY <1>1, <1>3, HubAssumption
  <2>2. Trim(s) = SubSeq(s, m, Len(s))
    BY <1>3, <1>1, HubAssumption DEF Trim
  <2>3. \A i \in m..Len(s) : s[i] \in S
    BY <1>1, <2>1
  <2> HIDE DEF m
  <2>4. /\ SubSeq(s, m, Len(s)) \in Seq(S)
        /\ Len(SubSeq(s, m, Len(s))) = Len(s) - m + 1
        /\ \A i \in 1..(Len(s) - m + 1) : SubSeq(s, m, Len(s))[i] = s[m + i - 1]
    BY <1>1, <2>1, <2>3, SubSeqProperties
  <2>5. Len(Trim(s)) = StoreKeep
    BY <2>2, <2>4, <1>1, HubAssumption DEF m
  <2>6. ASSUME NEW i \in 1..Len(Trim(s))
        PROVE  Trim(s)[i] = s[Len(s) - Len(Trim(s)) + i]
    <3>1. m + i - 1 = Len(s) - Len(Trim(s)) + i
      BY <2>5, <1>1, HubAssumption DEF m
    <3>2. Trim(s)[i] = s[m + i - 1]
      BY <2>2, <2>4, <2>5, <1>1, <2>1
    <3> QED BY <3>1, <3>2
  <2> QED BY <2>2, <2>4, <2>5, <2>6, <1>1, <1>3, HubAssumption
<1> QED BY <1>1, <1>2, <1>3, HubAssumption

\* The consumer holds the lock only at its call of Lock, with the number after
\* the last one stored.
LEMMA AddAlertFacts ==
  ASSUME TypeInv, AddAlert
  PROVE  /\ consumer = "lock" /\ consumer' = "send"
         /\ cur = added + 1 /\ cur' = cur /\ added' = added + 1
         /\ cur \in 1..MaxAlerts
         /\ alerts' = Trim(Append(alerts, cur))
         /\ targets' = clients
         /\ UNCHANGED <<accepted, alertChan, clients, stream, ch, sent, base, lost>>
<1>1. /\ writer = Hub
      /\ consumer' = "send" /\ cur' = cur /\ added' = added + 1
      /\ alerts' = Trim(Append(alerts, cur))
      /\ targets' = clients
      /\ UNCHANGED <<accepted, alertChan, clients, stream, ch, sent, base, lost>>
  BY DEF AddAlert, HoldsLock, streamVars
<1>2. consumer = "lock"
  BY <1>1, HubAssumption DEF TypeInv, LockTypeOK, WantsLock
<1>3. cur = added + 1 /\ cur \in 1..MaxAlerts
  BY <1>2, HubAssumption DEF TypeInv, Numbering, QueueTypeOK
<1> QED BY <1>1, <1>2, <1>3

LEMMA TypeAddAlert == TypeInv /\ AddAlert => TypeInv'
<1> SUFFICES ASSUME TypeInv, AddAlert PROVE TypeInv'
  OBVIOUS
<1>1. /\ consumer = "lock" /\ consumer' = "send"
      /\ cur = added + 1 /\ cur' = cur /\ added' = added + 1
      /\ cur \in 1..MaxAlerts
      /\ alerts' = Trim(Append(alerts, cur))
      /\ targets' = clients
      /\ UNCHANGED <<accepted, alertChan, clients, stream, ch, sent, base, lost>>
  BY AddAlertFacts
<1>2. alerts' \in Seq(1..MaxAlerts)
  <2>1. Append(alerts, cur) \in Seq(1..MaxAlerts)
    BY <1>1, AppendProperties DEF TypeInv, QueueTypeOK
  <2> QED BY <2>1, <1>1, TrimKeepsEnd
<1>3. QueueTypeOK'
  BY <1>1, <1>2 DEF TypeInv, QueueTypeOK
<1>4. LockTypeOK'
  BY UnlockType DEF AddAlert
<1>5. StreamTypeOK'
  BY <1>1 DEF TypeInv, StreamTypeOK
<1>6. Numbering'
  <2>1. Len(alertChan) \in Nat /\ accepted \in Nat /\ added \in Nat
    BY LenProperties DEF TypeInv, QueueTypeOK
  <2> QED BY <1>1, <2>1 DEF TypeInv, Numbering
<1> QED BY <1>3, <1>4, <1>5, <1>6 DEF TypeInv

\* A send puts the alert at the end of the channel, or turns it away.
LEMMA SendToFacts ==
  ASSUME TypeInv, NEW c \in Streams, SendTo(c)
  PROVE  /\ consumer = "send" /\ c \in targets /\ cur \in 1..MaxAlerts
         /\ targets' = targets \ {c}
         /\ \/ /\ Len(ch[c]) < ClientCap
               /\ ch' = [ch EXCEPT ![c] = Append(ch[c], cur)]
               /\ Append(ch[c], cur) \in Seq(1..MaxAlerts)
               /\ Len(Append(ch[c], cur)) <= ClientCap
               /\ lost' = lost
            \/ ch' = ch /\ lost' = [lost EXCEPT ![c] = lost[c] \cup {cur}]
         /\ UNCHANGED <<accepted, alertChan, consumer, cur, added, alerts, writer,
                        reader, clients, stream, sent, base>>
<1>1. /\ consumer = "send" /\ c \in targets
      /\ targets' = targets \ {c}
      /\ \/ /\ Len(ch[c]) < ClientCap
            /\ ch' = [ch EXCEPT ![c] = Append(ch[c], cur)]
            /\ lost' = lost
         \/ ch' = ch /\ lost' = [lost EXCEPT ![c] = lost[c] \cup {cur}]
      /\ UNCHANGED <<accepted, alertChan, consumer, cur, added, alerts, writer,
                     reader, clients, stream, sent, base>>
  BY DEF SendTo, storeVars, lockVars
<1>2. cur \in 1..MaxAlerts
  BY <1>1, HubAssumption DEF TypeInv, Numbering, QueueTypeOK
<1>3. ch[c] \in Seq(1..MaxAlerts) /\ Len(ch[c]) \in Nat
  BY LenProperties DEF TypeInv, StreamTypeOK
<1>4. /\ Append(ch[c], cur) \in Seq(1..MaxAlerts)
      /\ Len(Append(ch[c], cur)) = Len(ch[c]) + 1
  BY <1>2, <1>3, AppendProperties
<1> QED BY <1>1, <1>2, <1>3, <1>4, HubAssumption

LEMMA TypeSendTo ==
  ASSUME TypeInv, NEW c \in Streams, SendTo(c)
  PROVE  TypeInv'
<1>1. QueueTypeOK'
  BY SendToFacts DEF TypeInv, QueueTypeOK
<1>2. LockTypeOK'
  BY SendToFacts DEF TypeInv, LockTypeOK, WantsLock, Readers, Writers
<1>3. StreamTypeOK'
  <2>1. CASE /\ ch' = [ch EXCEPT ![c] = Append(ch[c], cur)]
             /\ Append(ch[c], cur) \in Seq(1..MaxAlerts)
             /\ Len(Append(ch[c], cur)) <= ClientCap
             /\ lost' = lost
    BY <2>1, SendToFacts DEF TypeInv, StreamTypeOK
  <2>2. CASE ch' = ch /\ lost' = [lost EXCEPT ![c] = lost[c] \cup {cur}]
    <3>1. cur \in 1..MaxAlerts /\ targets' \subseteq targets
      BY SendToFacts
    <3>2. lost' \in [Streams -> SUBSET (1..MaxAlerts)]
      BY <2>2, <3>1 DEF TypeInv, StreamTypeOK
    <3>3. UNCHANGED <<clients, stream, sent, base>>
      BY SendToFacts
    <3> QED BY <2>2, <3>1, <3>2, <3>3 DEF TypeInv, StreamTypeOK
  <2> QED BY <2>1, <2>2, SendToFacts
<1>4. Numbering'
  BY SendToFacts DEF TypeInv, Numbering
<1> QED BY <1>1, <1>2, <1>3, <1>4 DEF TypeInv

LEMMA TypeSent == TypeInv /\ Sent => TypeInv'
  BY DEF Sent, TypeInv, QueueTypeOK, LockTypeOK, StreamTypeOK, Numbering,
     WantsLock, Readers, Writers, storeVars, lockVars, streamVars

LEMMA TypeStep == TypeInv /\ [Next]_vars => TypeInv'
<1> SUFFICES ASSUME TypeInv, [Next]_vars PROVE TypeInv'
  OBVIOUS
<1>1. CASE Accept
  BY <1>1, TypeAccept
<1>2. CASE ConsumerStep
  BY <1>2, TypeReceive, TypeAddAlert, TypeSendTo, TypeSent, TypeLock
     DEF ConsumerStep, Writers
<1>3. CASE \E r \in Readers : ReaderEnter(r) \/ ReaderLeave(r)
  BY <1>3, TypeLock
<1>4. CASE \E c \in Streams :
              StreamLockStep(c) \/ Connect(c) \/ Deliver(c) \/ Disconnect(c)
  BY <1>4, TypeLock, TypeStream DEF StreamLockStep, Writers
<1>5. CASE UNCHANGED vars
  BY <1>5 DEF vars, consumerVars, storeVars, lockVars, streamVars, TypeInv,
     QueueTypeOK, LockTypeOK, StreamTypeOK, Numbering, WantsLock, Readers, Writers
<1> QED BY <1>1, <1>2, <1>3, <1>4, <1>5 DEF Next

\* The inductive invariant behind the types: each accepted alert is stored, at
\* the consumer or in the channel, in this order and without a gap.
THEOREM TypeInvariant == Spec => []TypeInv
  BY TypeInit, TypeStep, PTL DEF Spec

\* The variables of the hub keep their types, and nobody is announced to s.mu
\* who is not at one of its calls of Lock.
THEOREM HubTypeCorrect == Spec => []TypeOK
<1>1. TypeInv => TypeOK
  BY DEF TypeInv, TypeOK
<1> QED BY <1>1, TypeInvariant, PTL

-----------------------------------------------------------------------------
(* The store. *)

\* Of all the steps, the locked part of AddAlert alone writes the store.
LEMMA OnlyAddAlertStores ==
  ASSUME [Next]_vars
  PROVE  AddAlert \/ UNCHANGED storeVars
<1>1. CASE Accept
  BY <1>1 DEF Accept
<1>2. CASE ConsumerStep
  BY <1>2 DEF ConsumerStep, Receive, Announce, SendTo, Sent
<1>3. CASE \E r \in Readers : ReaderEnter(r) \/ ReaderLeave(r)
  BY <1>3 DEF ReaderEnter, ReaderLeave
<1>4. CASE \E c \in Streams :
              StreamLockStep(c) \/ Connect(c) \/ Deliver(c) \/ Disconnect(c)
  BY <1>4 DEF StreamLockStep, Announce, Register, Unregister, Connect, Deliver,
     Disconnect
<1>5. CASE UNCHANGED vars
  BY <1>5 DEF vars
<1> QED BY <1>1, <1>2, <1>3, <1>4, <1>5 DEF Next

\* An append at the end continues the numbering, and a trim keeps the end.
LEMMA AddAlertRecent ==
  ASSUME TypeInv, StoreIsRecent, AddAlert
  PROVE  StoreIsRecent'
<1> DEFINE s == Append(alerts, cur)
<1>1. /\ alerts \in Seq(1..MaxAlerts) /\ Len(alerts) \in Nat
      /\ added \in Nat /\ added' = added + 1
      /\ cur = added + 1 /\ cur \in 1..MaxAlerts
      /\ alerts' = Trim(s)
  BY AddAlertFacts, LenProperties DEF TypeInv, QueueTypeOK
<1>2. /\ s \in Seq(1..MaxAlerts)
      /\ Len(s) = Len(alerts) + 1
      /\ \A i \in 1..Len(alerts) : s[i] = alerts[i]
      /\ s[Len(alerts) + 1] = cur
  BY <1>1, AppendProperties
<1>3. \A i \in 1..Len(s) : s[i] = added' - Len(s) + i
  <2>1. ASSUME NEW i \in 1..Len(alerts) PROVE s[i] = added' - Len(s) + i
    <3>1. alerts[i] = added - Len(alerts) + i
      BY <1>1 DEF StoreIsRecent
    <3>2. s[i] = alerts[i]
      BY <1>2
    <3> QED BY <1>1, <1>2, <3>1, <3>2
  <2>2. s[Len(alerts) + 1] = added' - Len(s) + (Len(alerts) + 1)
    BY <1>1, <1>2
  <2> QED BY <1>1, <1>2, <2>1, <2>2
<1>4. Len(s) >= IF added' < StoreKeep THEN added' ELSE StoreKeep
  BY <1>1, <1>2, HubAssumption DEF StoreIsRecent
<1> HIDE DEF s
<1>5. /\ Trim(s) \in Seq(1..MaxAlerts)
      /\ Len(Trim(s)) <= Len(s)
      /\ Len(Trim(s)) <= StoreMax
      /\ Trim(s) = s \/ Len(Trim(s)) = StoreKeep
      /\ \A i \in 1..Len(Trim(s)) : Trim(s)[i] = s[Len(s) - Len(Trim(s)) + i]
  BY <1>2, TrimKeepsEnd
<1>6. Len(Trim(s)) \in Nat /\ DOMAIN Trim(s) = 1..Len(Trim(s)) /\ Len(s) \in Nat
  BY <1>2, <1>5, LenProperties
<1>7. ASSUME NEW i \in 1..Len(Trim(s))
      PROVE  Trim(s)[i] = added' - Len(Trim(s)) + i
  <2>1. Len(s) - Len(Trim(s)) + i \in 1..Len(s)
    BY <1>5, <1>6
  <2>2. Trim(s)[i] = added' - Len(s) + (Len(s) - Len(Trim(s)) + i)
    BY <1>3, <1>5, <2>1
  <2> QED BY <1>1, <1>6, <2>2
<1>8. Len(Trim(s)) >= IF added' < StoreKeep THEN added' ELSE StoreKeep
  BY <1>1, <1>4, <1>5, <1>6, HubAssumption
<1> QED BY <1>1, <1>5, <1>6, <1>7, <1>8 DEF StoreIsRecent

\* The store is the latest alerts, in order and without a gap, at every trim
\* (AddAlert, loader/api_server.go), for every limit and every kept length.
THEOREM StoreKeepsLatest == Spec => []StoreIsRecent
<1>1. Init => StoreIsRecent
  BY HubAssumption DEF Init, StoreIsRecent
<1>2. TypeInv /\ StoreIsRecent /\ [Next]_vars => StoreIsRecent'
  BY OnlyAddAlertStores, AddAlertRecent DEF StoreIsRecent, storeVars
<1> QED BY <1>1, <1>2, TypeInvariant, PTL DEF Spec

\* The writers wait for every reader inside, so no answer of handleAlerts is
\* written from a store that changes under it.
THEOREM AnswersAreStable == Spec => AnswerIsStable
<1>1. [Next]_vars => [(\E r \in Readers : reader[r] = "in") => UNCHANGED alerts]_vars
  BY OnlyAddAlertStores DEF AddAlert, HoldsLock, storeVars
<1> QED BY <1>1, PTL DEF Spec, AnswerIsStable

-----------------------------------------------------------------------------
(* The streams. *)

Unregistered(c) == stream[c] \in {"off", "registering"}

\* What c has been sent, then what its channel holds, rises from base[c] to
\* added, and stays below the alert the consumer is about to send it.
SentRises(c) ==
    /\ \A i \in 1..Len(sent[c]) : sent[c][i].id \in (base[c] + 1)..added
    /\ \A i, j \in 1..Len(sent[c]) : i < j => sent[c][i].id < sent[c][j].id

ChanRises(c) ==
    /\ \A i \in 1..Len(ch[c]) : ch[c][i] \in (base[c] + 1)..added
    /\ \A i, j \in 1..Len(ch[c]) : i < j => ch[c][i] < ch[c][j]
    /\ \A i \in 1..Len(sent[c]), j \in 1..Len(ch[c]) : sent[c][i].id < ch[c][j]

SendRises(c) ==
    c \in targets => /\ base[c] < cur
                     /\ \A i \in 1..Len(sent[c]) : sent[c][i].id < cur
                     /\ \A i \in 1..Len(ch[c]) : ch[c][i] < cur

StreamInv(c) ==
    /\ base[c] <= added
    /\ SentRises(c)
    /\ ChanRises(c)
    /\ SendRises(c)
    /\ Unregistered(c) => /\ sent[c] = << >> /\ ch[c] = << >>
                          /\ c \notin clients /\ c \notin targets

HubInv == TypeInv /\ \A c \in Streams : StreamInv(c)

\* The values of one stream.
LEMMA StreamValues ==
  ASSUME TypeInv, NEW c \in Streams
  PROVE  /\ added \in Nat /\ cur \in Nat /\ base[c] \in Nat
         /\ ch[c] \in Seq(1..MaxAlerts) /\ Len(ch[c]) \in Nat
         /\ sent[c] \in Seq([id : 1..MaxAlerts, intact : BOOLEAN])
         /\ Len(sent[c]) \in Nat
         /\ \A i \in 1..Len(ch[c]) : ch[c][i] \in Nat
         /\ \A i \in 1..Len(sent[c]) : sent[c][i].id \in Nat
<1>1. /\ added \in Nat /\ cur \in Nat /\ base[c] \in Nat
      /\ ch[c] \in Seq(1..MaxAlerts)
      /\ sent[c] \in Seq([id : 1..MaxAlerts, intact : BOOLEAN])
  <2>1. added \in Nat /\ cur \in Nat
    BY DEF TypeInv, QueueTypeOK
  <2>2. base[c] \in Nat /\ ch[c] \in Seq(1..MaxAlerts)
    BY DEF TypeInv, StreamTypeOK
  <2>3. sent[c] \in Seq([id : 1..MaxAlerts, intact : BOOLEAN])
    BY DEF TypeInv, StreamTypeOK
  <2> QED BY <2>1, <2>2, <2>3
<1>2. Len(ch[c]) \in Nat /\ Len(sent[c]) \in Nat
  BY <1>1, LenProperties
<1>3. \A i \in 1..Len(ch[c]) : ch[c][i] \in 1..MaxAlerts
  BY <1>1, ElementOfSeq
<1>4. \A i \in 1..Len(sent[c]) : sent[c][i] \in [id : 1..MaxAlerts, intact : BOOLEAN]
  BY <1>1, ElementOfSeq
<1>5. \A i \in 1..Len(sent[c]) : sent[c][i].id \in Nat
  BY <1>4
<1>6. \A i \in 1..Len(ch[c]) : ch[c][i] \in Nat
  BY <1>3
<1> QED BY <1>1, <1>2, <1>5, <1>6

\* A step that gives c nothing new keeps its order.
LEMMA StreamKept ==
  ASSUME TypeInv, NEW c \in Streams, StreamInv(c),
         added' \in Nat, added' >= added,
         ch'[c] = ch[c], sent'[c] = sent[c], base'[c] = base[c],
         c \in targets' => c \in targets /\ cur' = cur,
         Unregistered(c)' => Unregistered(c) /\ (c \in clients' => c \in clients)
  PROVE  StreamInv(c)'
<1>1. SentRises(c)'
  <2>1. SentRises(c) /\ base[c] \in Nat /\ added \in Nat
    BY StreamValues DEF StreamInv
  <2>2. \A i \in 1..Len(sent'[c]) : sent'[c][i].id \in (base'[c] + 1)..added'
    BY <2>1 DEF SentRises
  <2> QED BY <2>1, <2>2 DEF SentRises
<1>2. ChanRises(c)'
  <2>1. ChanRises(c) /\ base[c] \in Nat /\ added \in Nat
    BY StreamValues DEF StreamInv
  <2>2. \A i \in 1..Len(ch'[c]) : ch'[c][i] \in (base'[c] + 1)..added'
    BY <2>1 DEF ChanRises
  <2> QED BY <2>1, <2>2 DEF ChanRises
<1>3. SendRises(c)'
  BY DEF StreamInv, SendRises
<1> QED BY <1>1, <1>2, <1>3, StreamValues DEF StreamInv

LEMMA InitInOrder == Init => \A c \in Streams : StreamInv(c)
  BY EmptySeq DEF Init, StreamInv, SentRises, ChanRises, SendRises

\* AddAlert gives every registered client a number above all it has seen.
LEMMA AddAlertInOrder ==
  ASSUME TypeInv, NEW c \in Streams, StreamInv(c), AddAlert
  PROVE  StreamInv(c)'
<1>1. /\ cur = added + 1 /\ cur' = cur /\ added' = added + 1
      /\ targets' = clients
      /\ UNCHANGED <<clients, stream, ch, sent, base>>
  BY AddAlertFacts
<1>0. /\ SentRises(c) /\ ChanRises(c) /\ base[c] <= added
      /\ base[c] \in Nat /\ added \in Nat
  BY StreamValues DEF StreamInv
<1>2. SentRises(c)'
  <2>1. \A i \in 1..Len(sent[c]) : sent[c][i].id \in (base[c] + 1)..(added + 1)
    BY <1>0 DEF SentRises
  <2> QED BY <1>0, <1>1, <2>1 DEF SentRises
<1>3. ChanRises(c)'
  <2>1. \A i \in 1..Len(ch[c]) : ch[c][i] \in (base[c] + 1)..(added + 1)
    BY <1>0 DEF ChanRises
  <2> QED BY <1>0, <1>1, <2>1 DEF ChanRises
<1>4. SendRises(c)'
  <2>1. base[c] < cur
    BY <1>0, <1>1
  <2>2. \A i \in 1..Len(sent[c]) : sent[c][i].id < cur
    BY <1>0, <1>1 DEF SentRises
  <2>3. \A i \in 1..Len(ch[c]) : ch[c][i] < cur
    BY <1>0, <1>1 DEF ChanRises
  <2> QED BY <1>1, <2>1, <2>2, <2>3 DEF SendRises
<1> QED BY <1>1, <1>2, <1>3, <1>4, StreamValues DEF StreamInv, Unregistered

\* The alert sent is above all that was sent, and c is a target no more.
LEMMA SendToInOrder ==
  ASSUME TypeInv, NEW c \in Streams, StreamInv(c), SendTo(c),
         ch' = [ch EXCEPT ![c] = Append(ch[c], cur)]
  PROVE  StreamInv(c)'
<1>1. /\ consumer = "send" /\ c \in targets /\ c \notin targets'
      /\ UNCHANGED <<cur, added, stream, sent, base>>
  BY SendToFacts
<1>2. cur = added /\ base[c] < cur /\ ~Unregistered(c)
  BY <1>1 DEF TypeInv, Numbering, StreamInv, SendRises
<1>3. /\ ch'[c] = Append(ch[c], cur)
      /\ Len(ch'[c]) = Len(ch[c]) + 1
      /\ \A i \in 1..Len(ch[c]) : ch'[c][i] = ch[c][i]
      /\ ch'[c][Len(ch[c]) + 1] = cur
  <2>1. ch'[c] = Append(ch[c], cur)
    BY DEF TypeInv, StreamTypeOK
  <2>2. cur \in 1..MaxAlerts
    BY SendToFacts
  <2> QED BY <2>1, <2>2, StreamValues, AppendProperties
<1>4. SentRises(c)'
  BY <1>1 DEF StreamInv, SentRises
<1>5. \A i \in 1..Len(ch[c]) : ch[c][i] < cur
  BY <1>1 DEF StreamInv, SendRises
<1>6. ChanRises(c)'
  <2>1. \A i \in 1..Len(ch'[c]) : i \in 1..Len(ch[c]) \/ i = Len(ch[c]) + 1
    BY <1>3, StreamValues
  <2>2. \A i \in 1..Len(ch'[c]) : ch'[c][i] \in (base[c] + 1)..added
    BY <1>2, <1>3, <2>1, StreamValues DEF StreamInv, ChanRises
  <2>3. ASSUME NEW i \in 1..Len(ch'[c]), NEW j \in 1..Len(ch'[c]), i < j
        PROVE  ch'[c][i] < ch'[c][j]
    <3>1. i \in 1..Len(ch[c])
      BY <1>3, <2>3, StreamValues
    <3>2. CASE j \in 1..Len(ch[c])
      BY <1>3, <2>3, <3>1, <3>2 DEF StreamInv, ChanRises
    <3>3. CASE j = Len(ch[c]) + 1
      BY <1>3, <1>5, <3>1, <3>3
    <3> QED BY <2>1, <3>2, <3>3
  <2>4. ASSUME NEW i \in 1..Len(sent[c]), NEW j \in 1..Len(ch'[c])
        PROVE  sent[c][i].id < ch'[c][j]
    <3>1. CASE j \in 1..Len(ch[c])
      BY <1>3, <3>1 DEF StreamInv, ChanRises
    <3>2. CASE j = Len(ch[c]) + 1
      BY <1>1, <1>3, <3>2 DEF StreamInv, SendRises
    <3> QED BY <2>1, <3>1, <3>2
  <2> QED BY <1>1, <2>2, <2>3, <2>4 DEF ChanRises
<1>7. SendRises(c)'
  BY <1>1 DEF SendRises
<1> QED BY <1>1, <1>2, <1>4, <1>6, <1>7, StreamValues DEF StreamInv, Unregistered

\* A stream is registered with nothing sent, and starts from added.
LEMMA RegisterInOrder ==
  ASSUME TypeInv, NEW c \in Streams, StreamInv(c), Register(c)
  PROVE  StreamInv(c)'
<1>1. /\ stream[c] = "registering" /\ stream'[c] = "serving"
      /\ base'[c] = added
      /\ UNCHANGED <<targets, added, cur, ch, sent>>
  BY DEF Register, TypeInv, StreamTypeOK, storeVars, consumerVars
<1>2. sent[c] = << >> /\ ch[c] = << >> /\ c \notin targets
  BY <1>1 DEF StreamInv, Unregistered
<1>3. Len(sent'[c]) = 0 /\ Len(ch'[c]) = 0
  BY <1>1, <1>2, EmptySeq
<1> QED BY <1>1, <1>2, <1>3, StreamValues
    DEF StreamInv, SentRises, ChanRises, SendRises, Unregistered

\* The head of the channel is above all that was sent and below what is left.
LEMMA DeliverInOrder ==
  ASSUME TypeInv, NEW c \in Streams, StreamInv(c), Deliver(c)
  PROVE  StreamInv(c)'
<1> DEFINE m == Written(Head(ch[c]))
<1>1. /\ stream[c] = "serving" /\ ch[c] # << >>
      /\ sent'[c] = Append(sent[c], m)
      /\ ch'[c] = Tail(ch[c])
      /\ UNCHANGED <<targets, added, cur, clients, stream, base>>
  BY DEF Deliver, TypeInv, StreamTypeOK, storeVars, consumerVars
<1>2. /\ Len(ch[c]) > 0 /\ Head(ch[c]) = ch[c][1]
      /\ Len(ch'[c]) = Len(ch[c]) - 1
      /\ \A i \in 1..Len(ch'[c]) : ch'[c][i] = ch[c][i + 1]
      /\ Head(ch[c]) \in 1..MaxAlerts
  <2>1. ch[c] \in Seq(1..MaxAlerts) /\ Len(ch[c]) \in Nat
    BY StreamValues
  <2>2. Len(ch[c]) > 0
    BY <1>1, <2>1, EmptySeq
  <2>3. /\ Len(Tail(ch[c])) = Len(ch[c]) - 1
        /\ \A i \in 1..Len(Tail(ch[c])) : Tail(ch[c])[i] = ch[c][i + 1]
        /\ Head(ch[c]) \in 1..MaxAlerts
    BY <1>1, <2>1, HeadTailProperties
  <2>4. Head(ch[c]) = ch[c][1]
    BY <2>1, <2>2
  <2> QED BY <1>1, <2>2, <2>3, <2>4
<1>3. m \in [id : 1..MaxAlerts, intact : BOOLEAN] /\ m.id = ch[c][1]
  BY <1>2 DEF Written
<1> HIDE DEF m
<1>4. /\ Len(sent'[c]) = Len(sent[c]) + 1
      /\ \A i \in 1..Len(sent[c]) : sent'[c][i] = sent[c][i]
      /\ sent'[c][Len(sent[c]) + 1] = m
  BY <1>1, <1>3, StreamValues, AppendProperties
<1>5. \A i \in 1..Len(sent'[c]) : i \in 1..Len(sent[c]) \/ i = Len(sent[c]) + 1
  BY <1>4, StreamValues
<1>6. \A j \in 1..Len(ch'[c]) : j + 1 \in 1..Len(ch[c]) /\ 1 < j + 1
  BY <1>2, StreamValues
<1>7. 1 \in 1..Len(ch[c])
  BY <1>2, StreamValues
<1>8. \A i \in 1..Len(sent[c]) : sent[c][i].id < m.id
  BY <1>3, <1>7 DEF StreamInv, ChanRises
<1>9. m.id \in (base[c] + 1)..added
  BY <1>3, <1>7 DEF StreamInv, ChanRises
<1>10. \A j \in 1..Len(ch'[c]) : m.id < ch'[c][j]
  BY <1>2, <1>3, <1>6, <1>7 DEF StreamInv, ChanRises
<1>11. SentRises(c)'
  <2>1. \A i \in 1..Len(sent'[c]) : sent'[c][i].id \in (base[c] + 1)..added
    BY <1>4, <1>5, <1>9 DEF StreamInv, SentRises
  <2>2. ASSUME NEW i \in 1..Len(sent'[c]), NEW j \in 1..Len(sent'[c]), i < j
        PROVE  sent'[c][i].id < sent'[c][j].id
    <3>1. i \in 1..Len(sent[c])
      BY <1>4, <2>2, StreamValues
    <3>2. CASE j \in 1..Len(sent[c])
      BY <1>4, <2>2, <3>1, <3>2 DEF StreamInv, SentRises
    <3>3. CASE j = Len(sent[c]) + 1
      BY <1>4, <1>8, <3>1, <3>3
    <3> QED BY <1>5, <3>2, <3>3
  <2> QED BY <1>1, <2>1, <2>2 DEF SentRises
<1>12. ChanRises(c)'
  <2>1. \A j \in 1..Len(ch'[c]) : ch'[c][j] \in (base[c] + 1)..added
    BY <1>2, <1>6 DEF StreamInv, ChanRises
  <2>2. ASSUME NEW i \in 1..Len(ch'[c]), NEW j \in 1..Len(ch'[c]), i < j
        PROVE  ch'[c][i] < ch'[c][j]
    <3>1. i + 1 \in 1..Len(ch[c]) /\ j + 1 \in 1..Len(ch[c]) /\ i + 1 < j + 1
      BY <1>6, <2>2
    <3> QED BY <1>2, <3>1 DEF StreamInv, ChanRises
  <2>3. ASSUME NEW i \in 1..Len(sent'[c]), NEW j \in 1..Len(ch'[c])
        PROVE  sent'[c][i].id < ch'[c][j]
    <3>1. CASE i \in 1..Len(sent[c])
      BY <1>2, <1>4, <1>6, <3>1 DEF StreamInv, ChanRises
    <3>2. CASE i = Len(sent[c]) + 1
      BY <1>4, <1>10, <3>2
    <3> QED BY <1>5, <3>1, <3>2
  <2> QED BY <1>1, <2>1, <2>2, <2>3 DEF ChanRises
<1>13. SendRises(c)'
  <2>1. SUFFICES ASSUME c \in targets
                 PROVE  /\ \A i \in 1..Len(sent'[c]) : sent'[c][i].id < cur
                        /\ \A j \in 1..Len(ch'[c]) : ch'[c][j] < cur
    BY <1>1 DEF StreamInv, SendRises
  <2>2. m.id < cur
    BY <1>3, <1>7, <2>1 DEF StreamInv, SendRises
  <2>3. \A i \in 1..Len(sent'[c]) : sent'[c][i].id < cur
    BY <1>4, <1>5, <2>1, <2>2 DEF StreamInv, SendRises
  <2>4. \A j \in 1..Len(ch'[c]) : ch'[c][j] < cur
    BY <1>2, <1>6, <2>1 DEF StreamInv, SendRises
  <2> QED BY <2>3, <2>4
<1> QED BY <1>1, <1>11, <1>12, <1>13, StreamValues DEF StreamInv, Unregistered

LEMMA StreamStep ==
  ASSUME TypeInv, [Next]_vars, NEW c \in Streams, StreamInv(c)
  PROVE  StreamInv(c)'
<1> USE DEF storeVars, consumerVars, lockVars, streamVars
<1>0. added \in Nat /\ added >= added
  BY DEF TypeInv, QueueTypeOK
<1>1. CASE Accept
  BY <1>0, <1>1, StreamKept DEF Accept, Unregistered
<1>2. CASE Receive
  <2>1. c \notin targets /\ targets' = targets
    BY <1>2 DEF Receive, TypeInv, Numbering
  <2> QED BY <1>0, <1>2, <2>1, StreamKept DEF Receive, Unregistered
<1>3. CASE \E w \in Writers : Announce(w)
  BY <1>0, <1>3, StreamKept DEF Announce, Unregistered
<1>4. CASE AddAlert
  BY <1>4, AddAlertInOrder
<1>5. ASSUME NEW d \in Streams, SendTo(d)
      PROVE  StreamInv(c)'
  <2>1. /\ targets' \subseteq targets
        /\ UNCHANGED <<cur, added, clients, stream, sent, base>>
    BY <1>5 DEF SendTo
  <2>2. CASE ch' = [ch EXCEPT ![d] = Append(ch[d], cur)] /\ d # c
    <3>1. ch'[c] = ch[c]
      BY <2>2 DEF TypeInv, StreamTypeOK
    <3> QED BY <1>0, <2>1, <3>1, StreamKept DEF Unregistered
  <2>3. CASE ch' = [ch EXCEPT ![d] = Append(ch[d], cur)] /\ d = c
    BY <1>5, <2>3, SendToInOrder
  <2>4. CASE ch' = ch
    BY <1>0, <2>1, <2>4, StreamKept DEF Unregistered
  <2> QED BY <1>5, <2>2, <2>3, <2>4 DEF SendTo
<1>6. CASE Sent
  BY <1>0, <1>6, StreamKept DEF Sent, Unregistered
<1>7. CASE \E r \in Readers : ReaderEnter(r) \/ ReaderLeave(r)
  BY <1>0, <1>7, StreamKept DEF ReaderEnter, ReaderLeave, Unregistered
<1>8. ASSUME NEW d \in Streams, Register(d)
      PROVE  StreamInv(c)'
  <2>1. CASE d = c
    BY <1>8, <2>1, RegisterInOrder
  <2>2. CASE d # c
    <3>1. /\ base'[c] = base[c] /\ stream'[c] = stream[c]
          /\ c \in clients' => c \in clients
          /\ UNCHANGED <<cur, added, targets, ch, sent>>
      BY <1>8, <2>2 DEF Register, TypeInv, StreamTypeOK
    <3> QED BY <1>0, <3>1, StreamKept DEF Unregistered
  <2> QED BY <2>1, <2>2
<1>9. ASSUME NEW d \in Streams, Unregister(d) \/ Disconnect(d) \/ Connect(d)
      PROVE  StreamInv(c)'
  <2>1. /\ stream'[c] \in {"off", "registering"} =>
              stream[c] \in {"off", "registering"}
        /\ clients' \subseteq clients
        /\ UNCHANGED <<cur, added, targets, ch, sent, base>>
    BY <1>9 DEF Unregister, Disconnect, Connect, TypeInv, StreamTypeOK
  <2> QED BY <1>0, <2>1, StreamKept DEF Unregistered
<1>10. ASSUME NEW d \in Streams, Deliver(d)
       PROVE  StreamInv(c)'
  <2>1. CASE d = c
    BY <1>10, <2>1, DeliverInOrder
  <2>2. CASE d # c
    <3>1. /\ sent'[c] = sent[c] /\ ch'[c] = ch[c]
          /\ UNCHANGED <<cur, added, targets, clients, stream, base>>
      BY <1>10, <2>2 DEF Deliver, TypeInv, StreamTypeOK
    <3> QED BY <1>0, <3>1, StreamKept DEF Unregistered
  <2> QED BY <2>1, <2>2
<1>11. CASE UNCHANGED vars
  BY <1>0, <1>11, StreamKept DEF vars, Unregistered
<1> QED BY <1>1, <1>2, <1>3, <1>4, <1>5, <1>6, <1>7, <1>8, <1>9, <1>10, <1>11
    DEF Next, ConsumerStep, StreamLockStep, Writers

\* No step of the hub, of a reader or of a stream breaks the order of a stream.
THEOREM HubInvariant == Spec => []HubInv
<1>1. Init => HubInv
  BY TypeInit, InitInOrder DEF HubInv
<1>2. HubInv /\ [Next]_vars => HubInv'
  BY TypeStep, StreamStep DEF HubInv
<1> QED BY <1>1, <1>2, PTL DEF Spec

\* The numbers of a sequence of messages.
Messages == [id : 1..MaxAlerts, intact : BOOLEAN]
Ids(s) == [i \in DOMAIN s |-> s[i].id]

LEMMA IdsValues ==
  ASSUME NEW s \in Seq(Messages)
  PROVE  /\ Ids(s) \in Seq(Nat)
         /\ Len(Ids(s)) = Len(s)
         /\ \A i \in 1..Len(s) : Ids(s)[i] = s[i].id
<1> DEFINE n == Len(s)
<1>1. n \in Nat /\ DOMAIN s = 1..n
  BY LenProperties
<1>2. Ids(s) = [i \in 1..n |-> s[i].id]
  BY <1>1 DEF Ids
<1>3. \A i \in 1..n : s[i] \in Messages
  BY ElementOfSeq
<1>4. \A i \in 1..n : s[i].id \in Nat
  BY <1>3 DEF Messages
<1> HIDE DEF n
<1>5. Ids(s) \in [1..n -> Nat]
  BY <1>2, <1>4
<1>6. Ids(s) \in UNION {[1..k -> Nat] : k \in Nat}
  BY <1>1, <1>5, Zenon
<1>7. Ids(s) \in Seq(Nat)
  BY <1>6, SeqDef, Zenon
<1>8. Len(Ids(s)) = n
  BY <1>1, <1>5, <1>7, LenProperties
<1> QED BY <1>2, <1>7, <1>8 DEF n

LEMMA IdsAppend ==
  ASSUME NEW s \in Seq(Messages), NEW m \in Messages
  PROVE  Ids(Append(s, m)) = Append(Ids(s), m.id)
<1> DEFINE t == Append(s, m)
<1>1. /\ t \in Seq(Messages) /\ Len(s) \in Nat
      /\ Len(t) = Len(s) + 1
      /\ \A i \in 1..Len(s) : t[i] = s[i]
      /\ t[Len(s) + 1] = m
  BY AppendProperties, LenProperties
<1>2. m.id \in Nat
  BY DEF Messages
<1>3. /\ Ids(s) \in Seq(Nat) /\ Len(Ids(s)) = Len(s)
      /\ \A i \in 1..Len(s) : Ids(s)[i] = s[i].id
  BY IdsValues
<1> HIDE DEF t
<1>4. /\ Ids(t) \in Seq(Nat) /\ Len(Ids(t)) = Len(t)
      /\ \A i \in 1..Len(t) : Ids(t)[i] = t[i].id
  BY <1>1, IdsValues
<1> DEFINE u == Append(Ids(s), m.id)
<1>5. /\ u \in Seq(Nat) /\ Len(u) = Len(s) + 1
      /\ \A i \in 1..Len(s) : u[i] = s[i].id
      /\ u[Len(s) + 1] = m.id
  BY <1>2, <1>3, AppendProperties
<1> HIDE DEF u
<1>6. \A i \in 1..Len(t) : Ids(t)[i] = u[i]
  <2> SUFFICES ASSUME NEW i \in 1..Len(t) PROVE Ids(t)[i] = u[i]
    OBVIOUS
  <2>1. CASE i \in 1..Len(s)
    BY <1>1, <1>4, <1>5, <2>1
  <2>2. CASE i = Len(s) + 1
    BY <1>1, <1>4, <1>5, <2>2
  <2> QED BY <1>1, <2>1, <2>2
<1>7. Ids(t) = u
  BY <1>1, <1>4, <1>5, <1>6, SeqEqual
<1> QED BY <1>7 DEF t, u

LEMMA SentIdsValues ==
  ASSUME TypeInv, NEW c \in Streams
  PROVE  /\ sent[c] \in Seq(Messages)
         /\ SentIds(c) = Ids(sent[c])
         /\ SentIds(c) \in Seq(Nat)
         /\ Len(SentIds(c)) = Len(sent[c])
         /\ \A i \in 1..Len(sent[c]) : SentIds(c)[i] = sent[c][i].id
<1>1. sent[c] \in Seq(Messages)
  BY StreamValues DEF Messages
<1>2. SentIds(c) = Ids(sent[c])
  BY DEF SentIds, Ids
<1> QED BY <1>1, <1>2, IdsValues

\* What a client of handleSSE has been sent or has buffered are alerts stored
\* since it was registered, each at most once, in order: whatever the limits,
\* the number of clients and the pace of each.
THEOREM StreamsAreInOrder == Spec => []StreamInOrder
<1>1. HubInv => StreamInOrder
  <2> SUFFICES ASSUME HubInv, NEW c \in Streams
               PROVE  /\ Increasing(Pipeline(c))
                      /\ \A i \in DOMAIN Pipeline(c) :
                            Pipeline(c)[i] \in (base[c] + 1)..added
    BY DEF StreamInOrder
  <2>1. TypeInv /\ SentRises(c) /\ ChanRises(c)
    BY DEF HubInv, StreamInv
  <2> DEFINE a == SentIds(c)
             b == ch[c]
             n == Len(a)
             m == Len(b)
  <2>2. a \in Seq(Nat) /\ n \in Nat /\ n = Len(sent[c])
    BY <2>1, SentIdsValues, StreamValues
  <2>3. b \in Seq(Nat) /\ m \in Nat
    <3>1. b \in Seq(1..MaxAlerts) /\ 1..MaxAlerts \subseteq Nat
      BY <2>1, StreamValues, HubAssumption
    <3> QED BY <3>1, <2>1, StreamValues
  <2>4. /\ \A i \in 1..n : a[i] \in (base[c] + 1)..added
        /\ \A i, j \in 1..n : i < j => a[i] < a[j]
    BY <2>1, SentIdsValues DEF SentRises
  <2>5. /\ \A i \in 1..m : b[i] \in (base[c] + 1)..added
        /\ \A i, j \in 1..m : i < j => b[i] < b[j]
        /\ \A i \in 1..n, j \in 1..m : a[i] < b[j]
    BY <2>1, SentIdsValues DEF ChanRises
  <2>6. Pipeline(c) = a \o b
    BY DEF Pipeline
  <2> HIDE DEF a, b
  <2>7. /\ Pipeline(c) \in Seq(Nat)
        /\ Len(Pipeline(c)) = n + m
        /\ \A i \in 1..(n + m) :
              Pipeline(c)[i] = IF i <= n THEN a[i] ELSE b[i - n]
    <3>1. /\ a \o b \in Seq(Nat)
          /\ Len(a \o b) = Len(a) + Len(b)
          /\ \A i \in 1..(Len(a) + Len(b)) :
                (a \o b)[i] = IF i <= Len(a) THEN a[i] ELSE b[i - Len(a)]
      BY <2>2, <2>3, ConcatProperties, Zenon
    <3> QED BY <2>6, <3>1
  <2>8. DOMAIN Pipeline(c) = 1..(n + m)
    BY <2>7, LenProperties
  <2> HIDE DEF n, m
  <2>9. \A i \in 1..(n + m) :
           \/ i \in 1..n /\ Pipeline(c)[i] = a[i]
           \/ i > n /\ i - n \in 1..m /\ Pipeline(c)[i] = b[i - n]
    BY <2>2, <2>3, <2>7
  <2>10. \A i \in DOMAIN Pipeline(c) : Pipeline(c)[i] \in (base[c] + 1)..added
    BY <2>4, <2>5, <2>8, <2>9
  <2>11. ASSUME NEW i \in 1..(n + m), NEW j \in 1..(n + m), i < j
         PROVE  Pipeline(c)[i] < Pipeline(c)[j]
    <3>1. CASE j \in 1..n /\ Pipeline(c)[j] = a[j]
      <4>1. i \in 1..n /\ Pipeline(c)[i] = a[i]
        BY <2>2, <2>3, <2>9, <2>11, <3>1
      <4> QED BY <2>4, <2>11, <3>1, <4>1
    <3>2. CASE j > n /\ j - n \in 1..m /\ Pipeline(c)[j] = b[j - n]
      <4>1. CASE i \in 1..n /\ Pipeline(c)[i] = a[i]
        BY <2>5, <3>2, <4>1
      <4>2. CASE i > n /\ i - n \in 1..m /\ Pipeline(c)[i] = b[i - n]
        <5>1. i - n < j - n
          BY <2>2, <2>3, <2>11
        <5> QED BY <2>5, <3>2, <4>2, <5>1
      <4> QED BY <2>9, <4>1, <4>2
    <3> QED BY <2>9, <3>1, <3>2
  <2> QED BY <2>8, <2>10, <2>11 DEF Increasing
<1> QED BY <1>1, HubInvariant, PTL

-----------------------------------------------------------------------------
(* The hub implements AlertFeed. *)

phases == [c \in Streams |-> Phase(c)]
seens == [c \in Streams |-> SentIds(c)]

\* A step that publishes nothing and shows nothing leaves the feed alone.
LEMMA FeedStutters ==
  ASSUME UNCHANGED <<added, base, sent>>,
         \A c \in Streams : Phase(c)' = Phase(c)
  PROVE  UNCHANGED Feed!feedVars
<1>1. phases' = phases
  BY DEF phases
<1>2. seens' = seens
  BY DEF seens, SentIds
<1> QED BY <1>1, <1>2 DEF Feed!feedVars, phases, seens

LEMMA FeedInit == Init => Feed!Init
<1> SUFFICES ASSUME Init PROVE Feed!Init
  OBVIOUS
<1>1. phases = [c \in Streams |-> "off"]
  BY DEF Init, phases, Phase
<1>2. ASSUME NEW c \in Streams PROVE SentIds(c) = << >>
  <2>1. TypeInv /\ sent[c] = << >>
    BY TypeInit DEF Init
  <2>2. SentIds(c) \in Seq(Nat) /\ Len(SentIds(c)) = 0
    BY <2>1, SentIdsValues, EmptySeq
  <2> QED BY <2>2, EmptySeq
<1>3. seens = [c \in Streams |-> << >>]
  BY <1>2 DEF seens
<1> QED BY <1>1, <1>3 DEF Init, Feed!Init, phases, seens

\* The message delivered is one published since, and later than any before it.
LEMMA DeliverShows ==
  ASSUME HubInv, NEW c \in Streams, Deliver(c)
  PROVE  Feed!Show(c)
<1> DEFINE id == Head(ch[c])
<1>1. /\ stream[c] = "serving" /\ ch[c] # << >>
      /\ sent' = [sent EXCEPT ![c] = Append(sent[c], Written(id))]
      /\ UNCHANGED <<added, stream, base>>
  BY DEF Deliver, storeVars
<1>2. TypeInv /\ ChanRises(c)
  BY DEF HubInv, StreamInv
<1>3. id = ch[c][1] /\ 1 \in 1..Len(ch[c]) /\ id \in 1..MaxAlerts
  <2>1. ch[c] \in Seq(1..MaxAlerts) /\ Len(ch[c]) \in Nat
    BY <1>2, StreamValues
  <2>2. Len(ch[c]) > 0
    BY <1>1, <2>1, EmptySeq
  <2>3. id = ch[c][1]
    BY <2>1, <2>2
  <2>4. 1 \in 1..Len(ch[c])
    BY <2>1, <2>2
  <2>5. ch[c][1] \in 1..MaxAlerts
    BY <2>1, <2>4, ElementOfSeq
  <2> QED BY <2>3, <2>4, <2>5
<1>4. id \in (base[c] + 1)..added
  BY <1>2, <1>3 DEF ChanRises
<1>5. \A i \in 1..Len(sent[c]) : sent[c][i].id < id
  BY <1>2, <1>3 DEF ChanRises
<1>6. Written(id) \in Messages /\ Written(id).id = id
  BY <1>3 DEF Written, Messages
<1> HIDE DEF id
<1>7. /\ sent'[c] = Append(sent[c], Written(id))
      /\ \A d \in Streams : d # c => sent'[d] = sent[d]
  BY <1>1, <1>2 DEF TypeInv, StreamTypeOK
<1>8. SentIds(c)' = Append(SentIds(c), id)
  <2>1. SentIds(c)' = Ids(sent'[c])
    BY DEF SentIds, Ids
  <2> QED BY <1>2, <1>6, <1>7, <2>1, SentIdsValues, IdsAppend
<1>9. \A d \in Streams : d # c => SentIds(d)' = SentIds(d)
  BY <1>7 DEF SentIds
<1>10. seens' = [seens EXCEPT ![c] = Append(seens[c], id)]
  BY <1>8, <1>9 DEF seens
<1>11. phases[c] = "on" /\ phases' = phases
  BY <1>1 DEF phases, Phase
<1>12. \A i \in DOMAIN seens[c] : seens[c][i] < id
  <2>1. seens[c] = SentIds(c) /\ DOMAIN SentIds(c) = 1..Len(sent[c])
    BY <1>2, SentIdsValues, LenProperties DEF seens
  <2> QED BY <1>2, <1>5, <2>1, SentIdsValues
<1> QED BY <1>1, <1>4, <1>10, <1>11, <1>12 DEF Feed!Show, phases, seens

LEMMA FeedStep == HubInv /\ [Next]_vars => [Feed!Next]_Feed!feedVars
<1> SUFFICES ASSUME HubInv, [Next]_vars PROVE [Feed!Next]_Feed!feedVars
  OBVIOUS
<1>0. TypeInv
  BY DEF HubInv
<1>1. CASE AddAlert
  <2>1. added' = added + 1 /\ UNCHANGED <<stream, sent, base>>
    BY <1>0, <1>1, AddAlertFacts
  <2>2. phases' = phases /\ seens' = seens
    BY <2>1 DEF phases, Phase, seens, SentIds
  <2> QED BY <2>1, <2>2 DEF Feed!Next, Feed!Publish, phases, seens
<1>2. ASSUME NEW c \in Streams, Register(c)
      PROVE  Feed!Subscribe(c)
  <2>1. /\ stream[c] = "registering"
        /\ stream' = [stream EXCEPT ![c] = "serving"]
        /\ base' = [base EXCEPT ![c] = added]
        /\ UNCHANGED <<added, sent>>
    BY <1>2 DEF Register, storeVars
  <2>2. phases[c] = "off"
    BY <2>1 DEF phases, Phase
  <2>3. phases' = [phases EXCEPT ![c] = "on"]
    BY <1>0, <2>1 DEF phases, Phase, TypeInv, StreamTypeOK
  <2>4. seens' = seens
    BY <2>1 DEF seens, SentIds
  <2> QED BY <2>1, <2>2, <2>3, <2>4 DEF Feed!Subscribe, phases, seens
<1>3. ASSUME NEW c \in Streams, Disconnect(c)
      PROVE  Feed!Close(c)
  <2>1. /\ stream[c] = "serving"
        /\ stream' = [stream EXCEPT ![c] = "leaving"]
        /\ UNCHANGED <<added, sent, base>>
    BY <1>3 DEF Disconnect, storeVars
  <2>2. phases[c] = "on"
    BY <2>1 DEF phases, Phase
  <2>3. phases' = [phases EXCEPT ![c] = "closed"]
    BY <1>0, <2>1 DEF phases, Phase, TypeInv, StreamTypeOK
  <2>4. seens' = seens
    BY <2>1 DEF seens, SentIds
  <2> QED BY <2>1, <2>2, <2>3, <2>4 DEF Feed!Close, phases, seens
<1>4. ASSUME NEW c \in Streams, Connect(c) \/ Unregister(c)
      PROVE  UNCHANGED Feed!feedVars
  <2>1. UNCHANGED <<added, sent, base>>
    BY <1>4 DEF Connect, Unregister, storeVars
  <2>2. \A d \in Streams : Phase(d)' = Phase(d)
    BY <1>0, <1>4 DEF Connect, Unregister, Phase, TypeInv, StreamTypeOK
  <2> QED BY <2>1, <2>2, FeedStutters
<1>5. CASE UNCHANGED <<added, base, sent, stream>>
  <2>1. \A d \in Streams : Phase(d)' = Phase(d)
    BY <1>5 DEF Phase
  <2> QED BY <1>5, <2>1, FeedStutters
<1>6. \/ AddAlert
      \/ \E c \in Streams : Register(c) \/ Deliver(c) \/ Disconnect(c)
                            \/ Connect(c) \/ Unregister(c)
      \/ UNCHANGED <<added, base, sent, stream>>
  <2> USE DEF storeVars, streamVars
  <2>1. CASE Accept
    BY <2>1 DEF Accept
  <2>2. CASE ConsumerStep
    BY <2>2 DEF ConsumerStep, Receive, Announce, SendTo, Sent
  <2>3. CASE \E r \in Readers : ReaderEnter(r) \/ ReaderLeave(r)
    BY <2>3 DEF ReaderEnter, ReaderLeave
  <2>4. CASE \E c \in Streams :
                StreamLockStep(c) \/ Connect(c) \/ Deliver(c) \/ Disconnect(c)
    BY <2>4 DEF StreamLockStep, Announce
  <2>5. CASE UNCHANGED vars
    BY <2>5 DEF vars
  <2> QED BY <2>1, <2>2, <2>3, <2>4, <2>5 DEF Next
<1> QED BY <1>1, <1>2, <1>3, <1>4, <1>5, <1>6, DeliverShows DEF Feed!Next

\* AddAlert, the client channels and handleSSE keep the promise of AlertFeed:
\* each step of the hub is a step of the feed or leaves it as it is.
THEOREM HubImplementsFeed == Spec => ImplementsFeed
<1>1. Spec => Feed!Spec
  BY FeedInit, FeedStep, HubInvariant, PTL DEF Spec, Feed!Spec
<1> QED BY <1>1 DEF ImplementsFeed

-----------------------------------------------------------------------------
(* No gap. *)

\* The alerts c was sent, has buffered or had turned away.
Has(c) ==
    {sent[c][i].id : i \in 1..Len(sent[c])} \cup {ch[c][i] : i \in 1..Len(ch[c])}
    \cup lost[c]

Registered(c) == stream[c] \in {"serving", "leaving"}

Gapless(c) ==
    Registered(c) =>
       /\ c \in clients
       /\ \A id \in (base[c] + 1)..added : id \in Has(c) \/ (c \in targets /\ id = cur)

\* A step that takes nothing from c leaves no gap.
LEMMA GapKept ==
  ASSUME NEW c \in Streams, Gapless(c), added' = added,
         Registered(c)' =>
            /\ Registered(c) /\ base'[c] = base[c]
            /\ c \in clients => c \in clients'
            /\ Has(c) \subseteq Has(c)'
            /\ c \in targets => (c \in targets' /\ cur' = cur) \/ cur \in Has(c)'
  PROVE  Gapless(c)'
  BY DEF Gapless

LEMMA HasKept ==
  ASSUME NEW c \in Streams, ch'[c] = ch[c], sent'[c] = sent[c],
         lost[c] \subseteq lost'[c]
  PROVE  Has(c) \subseteq Has(c)'
  BY DEF Has

\* The new alert is the one the consumer is about to send to all of clients.
LEMMA AddAlertGap ==
  ASSUME TypeInv, NEW c \in Streams, Gapless(c), AddAlert
  PROVE  Gapless(c)'
<1>1. /\ consumer = "lock" /\ cur = added + 1 /\ cur' = cur /\ added' = added + 1
      /\ targets' = clients /\ UNCHANGED <<clients, stream, ch, sent, base, lost>>
  BY AddAlertFacts
<1>2. targets = {} /\ added \in Nat /\ base[c] \in Nat
  BY <1>1, StreamValues DEF TypeInv, Numbering
<1>3. Has(c)' = Has(c)
  BY <1>1 DEF Has
<1>4. \A id \in (base[c] + 1)..(added + 1) :
         id \in (base[c] + 1)..added \/ id = added + 1
  BY <1>2
<1> QED BY <1>1, <1>2, <1>3, <1>4 DEF Gapless, Registered

\* The alert goes into the channel of c, or is turned away.
LEMMA SendToGap ==
  ASSUME TypeInv, NEW c \in Streams, Gapless(c), NEW d \in Streams, SendTo(d)
  PROVE  Gapless(c)'
<1>1. /\ targets' = targets \ {d} /\ cur \in 1..MaxAlerts
      /\ UNCHANGED <<cur, added, clients, stream, sent, base>>
      /\ \/ ch' = [ch EXCEPT ![d] = Append(ch[d], cur)] /\ lost' = lost
         \/ ch' = ch /\ lost' = [lost EXCEPT ![d] = lost[d] \cup {cur}]
  BY SendToFacts
<1>2. CASE d # c
  <2>1. ch'[c] = ch[c] /\ lost'[c] = lost[c]
    BY <1>1, <1>2 DEF TypeInv, StreamTypeOK
  <2>2. Has(c) \subseteq Has(c)'
    BY <1>1, <2>1, HasKept
  <2> QED BY <1>1, <1>2, <2>2, GapKept DEF Registered
<1>3. CASE d = c /\ ch' = [ch EXCEPT ![d] = Append(ch[d], cur)] /\ lost' = lost
  <2>1. ch'[c] = Append(ch[c], cur)
    BY <1>3 DEF TypeInv, StreamTypeOK
  <2>2. /\ Len(ch'[c]) = Len(ch[c]) + 1 /\ Len(ch[c]) \in Nat
        /\ \A i \in 1..Len(ch[c]) : ch'[c][i] = ch[c][i]
        /\ ch'[c][Len(ch[c]) + 1] = cur
    BY <1>1, <2>1, StreamValues, AppendProperties
  <2>3. \A i \in 1..Len(ch[c]) : i \in 1..Len(ch'[c])
    BY <2>2
  <2>4. Len(ch[c]) + 1 \in 1..Len(ch'[c])
    BY <2>2
  <2>5. {ch[c][i] : i \in 1..Len(ch[c])} \subseteq {ch'[c][i] : i \in 1..Len(ch'[c])}
        /\ cur \in {ch'[c][i] : i \in 1..Len(ch'[c])}
    BY <2>2, <2>3, <2>4
  <2>6. Has(c) \subseteq Has(c)' /\ cur \in Has(c)'
    BY <1>1, <1>3, <2>5 DEF Has
  <2> QED BY <1>1, <2>6, GapKept DEF Registered
<1>4. CASE d = c /\ ch' = ch /\ lost' = [lost EXCEPT ![d] = lost[d] \cup {cur}]
  <2>1. lost'[c] = lost[c] \cup {cur}
    BY <1>4 DEF TypeInv, StreamTypeOK
  <2>2. Has(c) \subseteq Has(c)'
    BY <1>1, <1>4, <2>1, HasKept
  <2>3. cur \in Has(c)'
    BY <2>1 DEF Has
  <2> QED BY <1>1, <2>2, <2>3, GapKept DEF Registered
<1> QED BY <1>1, <1>2, <1>3, <1>4

\* The head of the channel is written.
LEMMA DeliverGap ==
  ASSUME TypeInv, NEW c \in Streams, Gapless(c), Deliver(c)
  PROVE  Gapless(c)'
<1> DEFINE m == Written(Head(ch[c]))
           k == Len(sent[c])
           n == Len(ch[c])
<1>1. /\ ch[c] # << >>
      /\ sent'[c] = Append(sent[c], m) /\ ch'[c] = Tail(ch[c])
      /\ UNCHANGED <<targets, added, cur, clients, stream, base, lost>>
  BY DEF Deliver, TypeInv, StreamTypeOK, storeVars, consumerVars
<1>2. /\ ch[c] \in Seq(1..MaxAlerts) /\ n \in Nat /\ k \in Nat
      /\ sent[c] \in Seq([id : 1..MaxAlerts, intact : BOOLEAN])
  BY StreamValues
<1>3. n > 0 /\ Head(ch[c]) = ch[c][1] /\ Head(ch[c]) \in 1..MaxAlerts
      /\ Len(ch'[c]) = n - 1 /\ \A i \in 1..Len(ch'[c]) : ch'[c][i] = ch[c][i + 1]
  <2>1. n > 0
    BY <1>1, <1>2, EmptySeq
  <2>2. Head(ch[c]) = ch[c][1]
    BY <1>2, <2>1
  <2>3. /\ Head(ch[c]) \in 1..MaxAlerts /\ Len(Tail(ch[c])) = Len(ch[c]) - 1
        /\ \A i \in 1..Len(Tail(ch[c])) : Tail(ch[c])[i] = ch[c][i + 1]
    BY <1>1, <1>2, HeadTailProperties
  <2> QED BY <1>1, <2>1, <2>2, <2>3
<1>4. m \in [id : 1..MaxAlerts, intact : BOOLEAN] /\ m.id = ch[c][1]
  BY <1>3 DEF Written
<1> HIDE DEF m
<1>5. Len(sent'[c]) = k + 1 /\ sent'[c][k + 1] = m
      /\ \A i \in 1..k : sent'[c][i] = sent[c][i]
  BY <1>1, <1>2, <1>4, AppendProperties
<1> HIDE DEF k, n
<1>6. \A i \in 1..k : sent[c][i].id \in Has(c)'
  <2>1. \A i \in 1..k : i \in 1..Len(sent'[c])
    BY <1>2, <1>5
  <2> QED BY <1>5, <2>1 DEF Has
<1>7. \A i \in 1..n : ch[c][i] \in Has(c)'
  <2> SUFFICES ASSUME NEW i \in 1..n PROVE ch[c][i] \in Has(c)'
    OBVIOUS
  <2>1. CASE i = 1
    <3>1. k + 1 \in 1..Len(sent'[c])
      BY <1>2, <1>5
    <3>2. sent'[c][k + 1].id = ch[c][1]
      BY <1>4, <1>5
    <3> QED BY <2>1, <3>1, <3>2 DEF Has
  <2>2. CASE i # 1
    <3>1. i - 1 \in 1..Len(ch'[c]) /\ (i - 1) + 1 = i
      BY <1>2, <1>3, <2>2
    <3>2. ch'[c][i - 1] = ch[c][i]
      BY <1>3, <3>1
    <3> QED BY <3>1, <3>2 DEF Has
  <2> QED BY <2>1, <2>2
<1>8. Has(c) \subseteq Has(c)'
  <2>1. lost[c] \subseteq Has(c)'
    BY <1>1 DEF Has
  <2> QED BY <1>6, <1>7, <2>1 DEF Has, k, n
<1> QED BY <1>1, <1>8, GapKept DEF Registered

LEMMA GapStep ==
  ASSUME TypeInv, [Next]_vars, NEW c \in Streams, Gapless(c)
  PROVE  Gapless(c)'
<1> USE DEF storeVars, consumerVars, lockVars, streamVars
<1>1. CASE AddAlert
  BY <1>1, AddAlertGap
<1>2. ASSUME NEW d \in Streams, SendTo(d) PROVE Gapless(c)'
  BY <1>2, SendToGap
<1>3. ASSUME NEW d \in Streams, Deliver(d) PROVE Gapless(c)'
  <2>1. CASE d = c
    BY <1>3, <2>1, DeliverGap
  <2>2. CASE d # c
    <3>1. /\ sent'[c] = sent[c] /\ ch'[c] = ch[c]
          /\ UNCHANGED <<cur, added, targets, clients, stream, base, lost>>
      BY <1>3, <2>2 DEF Deliver, TypeInv, StreamTypeOK
    <3> QED BY <3>1, HasKept, GapKept DEF Registered
  <2> QED BY <2>1, <2>2
<1>4. CASE Receive
  <2>1. targets = {} /\ UNCHANGED <<added, targets, clients, stream, ch, sent, base, lost>>
    BY <1>4 DEF Receive, TypeInv, Numbering
  <2> QED BY <2>1, HasKept, GapKept DEF Registered
<1>5. ASSUME NEW d \in Streams, Register(d) PROVE Gapless(c)'
  <2>1. CASE d = c
    <3>1. c \in clients' /\ base'[c] = added /\ added' = added /\ added \in Nat
      BY <1>5, <2>1 DEF Register, TypeInv, StreamTypeOK, QueueTypeOK
    <3>2. (added + 1)..added = {}
      BY <3>1
    <3> QED BY <3>1, <3>2 DEF Gapless
  <2>2. CASE d # c
    <3>1. /\ base'[c] = base[c] /\ stream'[c] = stream[c] /\ clients \subseteq clients'
          /\ UNCHANGED <<cur, added, targets, ch, sent, lost>>
      BY <1>5, <2>2 DEF Register, TypeInv, StreamTypeOK
    <3> QED BY <3>1, HasKept, GapKept DEF Registered
  <2> QED BY <2>1, <2>2
<1>6. ASSUME NEW d \in Streams, Unregister(d) \/ Disconnect(d) \/ Connect(d)
      PROVE  Gapless(c)'
  <2>1. /\ Registered(c)' => Registered(c) /\ (c \in clients => c \in clients')
        /\ UNCHANGED <<cur, added, targets, ch, sent, base, lost>>
    BY <1>6 DEF Unregister, Disconnect, Connect, TypeInv, StreamTypeOK, Registered
  <2> QED BY <2>1, HasKept, GapKept
<1>7. CASE \/ Accept \/ Sent \/ UNCHANGED vars
           \/ \E w \in Writers : Announce(w)
           \/ \E r \in Readers : ReaderEnter(r) \/ ReaderLeave(r)
  <2>1. UNCHANGED <<cur, added, targets, clients, stream, ch, sent, base, lost>>
    BY <1>7 DEF Accept, Sent, vars, Announce, ReaderEnter, ReaderLeave
  <2> QED BY <2>1, HasKept, GapKept DEF Registered
<1> QED BY <1>1, <1>2, <1>3, <1>4, <1>5, <1>6, <1>7
    DEF Next, ConsumerStep, StreamLockStep, Writers

\* A registered stream misses an alert only by its own full channel, however
\* the consumer's sends, the registrations and the deliveries interleave.
THEOREM HubLeavesNoGap == Spec => []NoGap
<1> DEFINE GapInv == \A c \in Streams : Gapless(c)
<1>1. Init => GapInv
  BY DEF Init, Gapless, Registered
<1>2. TypeInv /\ GapInv /\ [Next]_vars => GapInv'
  BY GapStep
<1>3. TypeInv /\ GapInv => NoGap
  <2> SUFFICES ASSUME TypeInv, NEW c \in Streams, Registered(c), Gapless(c),
                      NEW id \in (base[c] + 1)..added,
                      ~(c \in targets /\ id = cur)
               PROVE  id \in Range(Pipeline(c)) \cup lost[c]
    BY DEF NoGap, Registered
  <2> DEFINE a == SentIds(c)
             b == ch[c]
             n == Len(a)
             m == Len(b)
             p == Pipeline(c)
  <2>1. /\ a \in Seq(Nat) /\ n \in Nat /\ n = Len(sent[c])
        /\ \A i \in 1..n : a[i] = sent[c][i].id
    BY SentIdsValues, StreamValues
  <2>2. b \in Seq(Nat) /\ m \in Nat
    <3>1. b \in Seq(1..MaxAlerts) /\ 1..MaxAlerts \subseteq Nat
      BY StreamValues, HubAssumption
    <3>2. b \in Seq(Nat)
      <4> HIDE DEF b
      <4> QED BY <3>1, SeqMonotonic
    <3> QED BY <3>2, LenProperties
  <2>3. id \in Has(c)
    BY DEF Gapless
  <2>4. p = a \o b
    BY DEF Pipeline
  <2>5. \/ \E i \in 1..n : id = a[i]
        \/ \E i \in 1..m : id = b[i]
        \/ id \in lost[c]
    BY <2>1, <2>3 DEF Has
  <2> HIDE DEF a, b, p
  <2>6. /\ p \in Seq(Nat) /\ Len(p) = n + m
        /\ \A i \in 1..(n + m) : p[i] = IF i <= n THEN a[i] ELSE b[i - n]
    <3>1. /\ a \o b \in Seq(Nat) /\ Len(a \o b) = Len(a) + Len(b)
          /\ \A i \in 1..(Len(a) + Len(b)) :
                (a \o b)[i] = IF i <= Len(a) THEN a[i] ELSE b[i - Len(a)]
      BY <2>1, <2>2, ConcatProperties, Zenon
    <3> QED BY <2>4, <3>1
  <2>7. DOMAIN p = 1..(n + m)
    BY <2>6, LenProperties
  <2> HIDE DEF n, m
  <2>8. \A i \in 1..(n + m) : p[i] \in Range(p)
    BY <2>7 DEF Range
  <2>9. ASSUME NEW i \in 1..n PROVE a[i] \in Range(p)
    <3>1. i \in 1..(n + m) /\ i <= n
      BY <2>1, <2>2
    <3> QED BY <2>6, <2>8, <3>1
  <2>10. ASSUME NEW i \in 1..m PROVE b[i] \in Range(p)
    <3>1. n + i \in 1..(n + m) /\ ~(n + i <= n) /\ (n + i) - n = i
      BY <2>1, <2>2
    <3>2. p[n + i] = b[i]
      BY <2>6, <3>1
    <3> QED BY <2>8, <3>1, <3>2
  <2> QED BY <2>5, <2>9, <2>10 DEF p
<1> QED BY <1>1, <1>2, <1>3, TypeInvariant, PTL DEF Spec
=============================================================================
