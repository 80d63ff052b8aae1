-------------------------- MODULE StreamCall_proofs --------------------------
(***************************************************************************)
(* Theorems about StreamCall, for any set of senders and any number of     *)
(* inbound messages.  The safety properties follow from the inductive      *)
(* invariant IInv; its conjuncts are shown to be preserved one lemma each. *)
(***************************************************************************)
EXTENDS StreamCall, SequenceTheorems, FiniteSetTheorems, TLAPS

\* The callers' steps and the timer: none of them touches the store, the
\* channel, the senders or the body's place.
CallerStep == \/ Timer \/ HalfCloseTake \/ HalfCloseNotify \/ CancelFlag \/ CancelNotify
              \/ Release \/ DropCall \/ Finished

SenderStep == \E s \in Senders : SendCall(s) \/ SendStep(s)
TransportStep == TransportPoll \/ ReceiverDrop

LEMMA NextCases ==
  ASSUME [Next]_vars
  PROVE  Body \/ CallerStep \/ SenderStep \/ TransportStep \/ UNCHANGED vars
  BY DEF Next, CallerStep, SenderStep, TransportStep

-----------------------------------------------------------------------------
(* Frames: what each kind of step leaves alone. *)

LEMMA BodyFrame ==
  ASSUME Body
  PROVE  /\ UNCHANGED <<kind, timed, cancelled, aborted, free, chan, rxOpen, wire, spc, ack,
                        late, cpc, hpc, registered>>
         /\ tx' = tx \/ tx' = FALSE
         /\ store' = store \/ store' = Append(store, In)
  <1> USE DEF bodyVars, flagVars, chanVars, senderVars, callerVars
  <1>1. CASE SeeCancel \/ PollOn \/ Start \/ PollDeadline
    BY <1>1 DEF SeeCancel, PollOn, Start, PollDeadline
  <1>2. CASE Take \/ Park \/ StoreInbound \/ TakeEnd
    BY <1>2 DEF Take, Park, StoreInbound, TakeEnd
  <1>3. CASE EmitCheck \/ Deliver \/ AbortTaken
    BY <1>3 DEF EmitCheck, Deliver, AbortTaken
  <1>4. CASE Terminate
    BY <1>4 DEF Terminate, TerminateDropTx, TerminateFlag, TerminateWake
  <1>5. QED BY <1>1, <1>2, <1>3, <1>4 DEF Body

LEMMA CallerFrame ==
  ASSUME CallerStep
  PROVE  UNCHANGED <<kind, timed, bpc, item, pending, count, events, store, terminated,
                     free, chan, rxOpen, wire, spc, ack, woken, late, lateRows>>
  BY DEF CallerStep, Timer, HalfCloseTake, HalfCloseNotify, CancelFlag, CancelNotify, Release,
         DropCall, Finished, vars, bodyVars, flagVars, chanVars, senderVars, callerVars

LEMMA SenderFrame ==
  ASSUME SenderStep
  PROVE  UNCHANGED <<kind, timed, bpc, item, pending, count, deadline, events, cancelled,
                     cancelPermit, aborted, halfPermit, tx, terminated, rxOpen, wire, woken,
                     cpc, hpc, registered, lateRows>>
  <1> PICK s \in Senders : SendCall(s) \/ SendStep(s)
    BY DEF SenderStep
  <1> USE DEF sendFrame, bodyVars, flagVars, chanVars, callerVars
  <1>1. CASE SendCall(s) \/ SendOpen(s) \/ SendEncode(s) \/ SendCheck(s)
    BY <1>1 DEF SendCall, SendOpen, SendEncode, SendCheck
  <1>2. CASE SendWoken(s) \/ SendReserve(s) \/ SendNoReceiver(s) \/ SendRecheck(s)
    BY <1>2 DEF SendWoken, SendReserve, SendNoReceiver, SendRecheck
  <1>3. CASE SendStore(s) \/ SendCommit(s)
    BY <1>3 DEF SendStore, SendCommit
  <1>4. QED BY <1>1, <1>2, <1>3 DEF SendStep

LEMMA TransportFrame ==
  ASSUME TransportStep
  PROVE  UNCHANGED <<kind, timed, bpc, item, pending, count, deadline, events, store, cancelled,
                     cancelPermit, aborted, halfPermit, tx, terminated, spc, ack, woken, late,
                     cpc, hpc, registered, lateRows>>
  BY DEF TransportStep, TransportPoll, ReceiverDrop, bodyVars, flagVars, senderVars, callerVars

-----------------------------------------------------------------------------
(* TypeOK: the Boolean flags first, then the rest. *)

LEMMA FlagsStep ==
  ASSUME FlagsOK, [Next]_vars
  PROVE  FlagsOK'
  <1> USE DEF FlagsOK
  <1>1. CASE Body
    <2> USE DEF bodyVars, flagVars, chanVars, senderVars, callerVars
    <2>1. CASE SeeCancel BY <2>1, Zenon DEF SeeCancel
    <2>2. CASE PollOn BY <2>2, Zenon DEF PollOn
    <2>3. CASE Start BY <2>3, Zenon DEF Start
    <2>4. CASE PollDeadline BY <2>4, Zenon DEF PollDeadline
    <2>5. CASE Take BY <2>5, Zenon DEF Take
    <2>6. CASE Park BY <2>6, Zenon DEF Park
    <2>7. CASE StoreInbound BY <2>7, Zenon DEF StoreInbound
    <2>8. CASE TakeEnd BY <2>8, Zenon DEF TakeEnd
    <2>9. CASE EmitCheck BY <2>9, Zenon DEF EmitCheck
    <2>10. CASE Deliver BY <2>10, Zenon DEF Deliver
    <2>11. CASE AbortTaken BY <2>11, Zenon DEF AbortTaken
    <2>12. CASE TerminateDropTx BY <2>12, Zenon DEF TerminateDropTx
    <2>13. CASE TerminateFlag BY <2>13, Zenon DEF TerminateFlag
    <2>14. CASE TerminateWake BY <2>14, Zenon DEF TerminateWake
    <2>15. QED
      BY <1>1, <2>1, <2>2, <2>3, <2>4, <2>5, <2>6, <2>7, <2>8, <2>9, <2>10, <2>11, <2>12, <2>13,
         <2>14, Zenon DEF Body, Terminate
  <1>2. CASE CallerStep
    <2> USE DEF bodyVars, flagVars, chanVars, senderVars, callerVars
    <2>1. CASE Timer BY <2>1, Zenon DEF Timer
    <2>2. CASE HalfCloseTake BY <2>2, Zenon DEF HalfCloseTake
    <2>3. CASE HalfCloseNotify BY <2>3, Zenon DEF HalfCloseNotify
    <2>4. CASE CancelFlag BY <2>4, Zenon DEF CancelFlag
    <2>5. CASE CancelNotify BY <2>5, Zenon DEF CancelNotify
    <2>6. CASE Release BY <2>6, Zenon DEF Release
    <2>7. CASE DropCall BY <2>7, Zenon DEF DropCall
    <2>8. CASE Finished BY <2>8, Zenon DEF Finished, vars
    <2>9. QED
      BY <1>2, <2>1, <2>2, <2>3, <2>4, <2>5, <2>6, <2>7, <2>8, Zenon DEF CallerStep
  <1>3. CASE SenderStep BY <1>3, SenderFrame, Zenon
  <1>4. CASE TransportStep
    <2>1. rxOpen' \in BOOLEAN
      BY <1>4, Zenon DEF TransportStep, TransportPoll, ReceiverDrop
    <2>2. QED BY <1>4, <2>1, TransportFrame, Zenon
  <1>5. CASE UNCHANGED vars
    BY <1>5, Zenon DEF vars, bodyVars, flagVars, chanVars, senderVars, callerVars
  <1>6. QED BY <1>1, <1>2, <1>3, <1>4, <1>5, NextCases, Zenon

LEMMA BodyTypeOK ==
  ASSUME TypeOK, ItemInv, EventInv, FlagsOK', Body
  PROVE  TypeOK'
  <1> USE MaxInboundAssumption DEF TypeOK, BodyPCs, StreamEvents, None, NoItem, Items, Exit, Emit,
          AfterEmit, Opened, Headers, Fault, Message, End, bodyVars, flagVars, chanVars, senderVars,
          callerVars
  <1>1. CASE SeeCancel BY <1>1 DEF SeeCancel
  <1>2. CASE PollOn BY <1>2 DEF PollOn
  <1>3. CASE Start BY <1>3 DEF Start
  <1>4. CASE PollDeadline BY <1>4 DEF PollDeadline
  <1>5. CASE Take BY <1>5 DEF Take
  <1>6. CASE Park BY <1>6 DEF Park
  <1>7. CASE StoreInbound BY <1>7 DEF StoreInbound, Rows, In, ItemInv
  <1>8. CASE TakeEnd BY <1>8 DEF TakeEnd
  <1>9. CASE EmitCheck BY <1>9 DEF EmitCheck
  <1>10. CASE Deliver BY <1>10 DEF Deliver, EventInv
  <1>11. CASE AbortTaken BY <1>11 DEF AbortTaken
  <1>12. CASE Terminate
    BY <1>12 DEF Terminate, TerminateDropTx, TerminateFlag, TerminateWake
  <1>13. QED BY <1>1, <1>2, <1>3, <1>4, <1>5, <1>6, <1>7, <1>8, <1>9, <1>10, <1>11, <1>12
             DEF Body

LEMMA SenderTypeOK ==
  ASSUME TypeOK, SlotInv, FlagsOK', SenderStep
  PROVE  TypeOK'
  <1> PICK s \in Senders : SendCall(s) \/ SendStep(s)
    BY DEF SenderStep
  <1> USE SenderFrame DEF TypeOK, SenderPCs, Goto, OUTBOUND_CAPACITY
  <1>1. CASE SendCall(s) BY <1>1 DEF SendCall, chanVars
  <1>2. CASE SendOpen(s) BY <1>2 DEF SendOpen, chanVars
  <1>3. CASE SendEncode(s) BY <1>3 DEF SendEncode, chanVars
  <1>4. CASE SendCheck(s) BY <1>4 DEF SendCheck, chanVars
  <1>5. CASE SendWoken(s) BY <1>5 DEF SendWoken, chanVars
  <1>6. CASE SendReserve(s) BY <1>6 DEF SendReserve
  <1>7. CASE SendNoReceiver(s) BY <1>7 DEF SendNoReceiver, chanVars
  <1>8. CASE SendRecheck(s)
    <2>1. free = 0 BY <1>8 DEF SendRecheck, SlotInv, HoldsPermit
    <2>2. \/ Goto(s, "refused") /\ free' = free + 1
          \/ Goto(s, "push") /\ free' = free
      BY <1>8 DEF SendRecheck
    <2>3. UNCHANGED <<store, chan, ack, late>>
      BY <1>8 DEF SendRecheck
    <2>4. free' \in 0..1
      BY <2>1, <2>2
    <2>5. spc' \in [Senders -> SenderPCs]
      BY <2>2
    <2>6. QED BY <2>3, <2>4, <2>5
  <1>9. CASE SendStore(s) BY <1>9 DEF SendStore, chanVars, Rows, Out
  <1>10. CASE SendCommit(s) BY <1>10 DEF SendCommit
  <1>11. QED
    BY <1>1, <1>2, <1>3, <1>4, <1>5, <1>6, <1>7, <1>8, <1>9, <1>10 DEF SendStep

LEMMA TypeStep ==
  ASSUME TypeOK, SlotInv, ItemInv, EventInv, [Next]_vars
  PROVE  TypeOK'
  <1>0. FlagsOK' BY FlagsStep DEF TypeOK
  <1>1. CASE Body BY <1>0, <1>1, BodyTypeOK
  <1>2. CASE CallerStep
    <2>1. /\ deadline' \in {"waitHalf", "sleeping", "elapsed"}
          /\ cpc' \in {"idle", "flagged", "returned"}
          /\ hpc' \in {"idle", "taken", "returned"}
      BY <1>2 DEF TypeOK, CallerStep, Timer, HalfCloseTake, HalfCloseNotify, CancelFlag,
         CancelNotify, Release, DropCall, Finished, vars, bodyVars, callerVars
    <2>2. QED BY <1>0, <1>2, <2>1, CallerFrame DEF TypeOK
  <1>3. CASE SenderStep BY <1>0, <1>3, SenderTypeOK
  <1>4. CASE TransportStep
    <2>1. CASE TransportPoll
      <3>1. free = 0 /\ free' = 1 BY <2>1 DEF TransportPoll, SlotInv
      <3>2. chan' \in Seq(Nat) /\ wire' \in Seq(Nat) BY <2>1 DEF TransportPoll, TypeOK
      <3>3. QED BY <1>0, <1>4, <3>1, <3>2, TransportFrame DEF TypeOK, OUTBOUND_CAPACITY
    <2>2. CASE ReceiverDrop
      BY <1>0, <1>4, <2>2, TransportFrame DEF TypeOK, ReceiverDrop
    <2>3. QED BY <1>4, <2>1, <2>2 DEF TransportStep
  <1>5. CASE UNCHANGED vars
    BY <1>5 DEF TypeOK, FlagsOK, vars, bodyVars, flagVars, chanVars, senderVars, callerVars
  <1>6. QED BY <1>1, <1>2, <1>3, <1>4, <1>5, NextCases

-----------------------------------------------------------------------------
LEMMA SlotStep ==
  ASSUME TypeOK, SlotInv, [Next]_vars
  PROVE  SlotInv'
  <1>1. CASE Body \/ CallerStep \/ UNCHANGED vars
    <2>1. UNCHANGED <<free, chan, rxOpen, spc>>
      BY <1>1, BodyFrame, CallerFrame DEF vars, chanVars, senderVars
    <2>2. QED BY <2>1 DEF SlotInv, HoldsPermit
  <1>2. CASE SenderStep
    <2> PICK s \in Senders : SendCall(s) \/ SendStep(s)
      BY <1>2 DEF SenderStep
    <2>0. rxOpen' = rxOpen BY <1>2, SenderFrame
    <2> USE <2>0 DEF TypeOK, SlotInv, HoldsPermit, Goto, chanVars, OUTBOUND_CAPACITY
    <2>1. CASE SendCall(s) BY <2>1 DEF SendCall
    <2>2. CASE SendOpen(s) BY <2>2 DEF SendOpen
    <2>3. CASE SendEncode(s) BY <2>3 DEF SendEncode
    <2>4. CASE SendCheck(s) BY <2>4 DEF SendCheck
    <2>5. CASE SendWoken(s) BY <2>5 DEF SendWoken
    <2>6. CASE SendReserve(s) BY <2>6 DEF SendReserve
    <2>7. CASE SendNoReceiver(s) BY <2>7 DEF SendNoReceiver
    <2>8. CASE SendRecheck(s) BY <2>8 DEF SendRecheck
    <2>9. CASE SendStore(s) BY <2>9 DEF SendStore
    <2>10. CASE SendCommit(s) BY <2>10 DEF SendCommit
    <2>11. QED
      BY <2>1, <2>2, <2>3, <2>4, <2>5, <2>6, <2>7, <2>8, <2>9, <2>10 DEF SendStep
  <1>3. CASE TransportPoll
    <2>1. spc' = spc /\ rxOpen' = rxOpen BY <1>3, TransportFrame DEF TransportStep, TransportPoll
    <2>2. chan' = <<>> /\ ~(\E s \in Senders : HoldsPermit(s))
      BY <1>3 DEF TransportPoll, SlotInv, TypeOK
    <2>3. QED BY <2>1, <2>2 DEF SlotInv, HoldsPermit
  <1>4. CASE ReceiverDrop
    <2>1. spc' = spc BY <1>4, TransportFrame DEF TransportStep
    <2>2. chan' = <<>> /\ free' = free BY <1>4 DEF ReceiverDrop
    <2>3. QED BY <2>1, <2>2 DEF SlotInv, HoldsPermit
  <1>5. QED BY <1>1, <1>2, <1>3, <1>4, NextCases DEF TransportStep

LEMMA ItemStep ==
  ASSUME TypeOK, ItemInv, [Next]_vars
  PROVE  ItemInv'
  <1>1. CASE CallerStep \/ SenderStep \/ TransportStep \/ UNCHANGED vars
    BY <1>1, CallerFrame, SenderFrame, TransportFrame DEF ItemInv, vars, bodyVars
  <1>2. CASE Take
    BY <1>2 DEF Take, ItemInv
  <1>3. CASE Body /\ ~Take
    <2>1. bpc' # "taken"
      BY <1>3 DEF Body, Terminate, SeeCancel, PollOn, Start, PollDeadline, Park, StoreInbound,
         TakeEnd, EmitCheck, Deliver, AbortTaken, TerminateDropTx, TerminateFlag, TerminateWake,
         Exit, Emit, AfterEmit
    <2>2. QED BY <2>1 DEF ItemInv
  <1>4. QED BY <1>1, <1>2, <1>3, NextCases

LEMMA InNotOut == \A s \in Senders : In # Out(s)
  <1> TAKE s \in Senders
  <1>1. In.dir = "in" /\ Out(s).dir = "out" BY DEF In, Out
  <1>2. QED BY <1>1

LEMMA OutInjective == \A s, t \in Senders : Out(s) = Out(t) => s = t
  <1> TAKE s, t \in Senders
  <1>1. Out(s).by = s /\ Out(t).by = t BY DEF Out
  <1>2. QED BY <1>1

LEMMA RowStep ==
  ASSUME TypeOK, RowInv, [Next]_vars
  PROVE  RowInv'
  <1>1. CASE CallerStep \/ TransportStep \/ UNCHANGED vars
    <2>1. UNCHANGED <<store, spc, ack>>
      BY <1>1, CallerFrame, TransportFrame DEF vars, senderVars
    <2>2. QED BY <2>1 DEF RowInv
  <1>2. CASE Body
    <2>1. UNCHANGED <<spc, ack>> BY <1>2, BodyFrame
    <2>2. CASE store' = store BY <2>1, <2>2 DEF RowInv
    <2>3. CASE store' = Append(store, In)
      <3>1. /\ Len(store') = Len(store) + 1 /\ store'[Len(store')] = In
            /\ \A i \in DOMAIN store : i \in DOMAIN store' /\ store'[i] = store[i]
            /\ \A i \in DOMAIN store' : i \in DOMAIN store \/ i = Len(store')
        BY <2>3 DEF TypeOK
      <3>2. \A s \in Senders : In # Out(s) BY InNotOut
      <3>3. QED BY <2>1, <3>1, <3>2 DEF RowInv
    <2>4. QED BY <1>2, <2>2, <2>3, BodyFrame
  <1>3. CASE SenderStep
    <2> PICK s \in Senders : SendCall(s) \/ SendStep(s)
      BY <1>3 DEF SenderStep
    <2>1. CASE SendStore(s)
      <3>1. /\ Len(store') = Len(store) + 1 /\ store'[Len(store')] = Out(s)
            /\ \A i \in DOMAIN store : i \in DOMAIN store' /\ store'[i] = store[i]
            /\ \A i \in DOMAIN store' : i \in DOMAIN store \/ i = Len(store')
            /\ Len(store') \in DOMAIN store'
        BY <2>1 DEF SendStore, TypeOK
      <3>2. /\ spc[s] = "push" /\ spc' = [spc EXCEPT ![s] = "stored"]
            /\ ack' = [ack EXCEPT ![s] = Len(store')]
        BY <2>1 DEF SendStore, Goto
      <3>3. \A t \in Senders : Out(t) = Out(s) => t = s BY OutInjective
      <3>4. \A i \in DOMAIN store : store[i] # Out(s) BY <3>2 DEF RowInv
      <3>5. QED BY <3>1, <3>2, <3>3, <3>4 DEF RowInv, TypeOK
    <2>2. CASE SendCommit(s)
      BY <2>2 DEF SendCommit, RowInv, TypeOK, Goto
    <2>3. CASE ~SendStore(s) /\ ~SendCommit(s)
      <3>1. /\ UNCHANGED <<store, ack>>
            /\ spc[s] \notin {"stored", "acked"}
            /\ \E pc \in SenderPCs \ {"stored", "acked"} : spc' = [spc EXCEPT ![s] = pc]
        BY <2>3 DEF SendStep, SendCall, SendOpen, SendEncode, SendCheck, SendWoken, SendReserve,
           SendNoReceiver, SendRecheck, Goto, SenderPCs
      <3>2. QED BY <3>1 DEF RowInv, TypeOK
    <2>4. QED BY <2>1, <2>2, <2>3
  <1>4. QED BY <1>1, <1>2, <1>3, NextCases

\* What Append does to a sequence's domain and values.
LEMMA AppendFacts ==
  ASSUME NEW S, NEW q \in Seq(S), NEW e \in S
  PROVE  /\ Append(q, e) \in Seq(S)
         /\ Len(Append(q, e)) = Len(q) + 1
         /\ DOMAIN Append(q, e) = 1..(Len(q) + 1)
         /\ \A i \in 1..Len(q) : Append(q, e)[i] = q[i]
         /\ Append(q, e)[Len(q) + 1] = e
  OBVIOUS

LEMMA OutRowsStay ==
  ASSUME TypeOK, [Next]_vars
  PROVE  /\ Len(store') >= Len(store)
         /\ \A i : IsOut(i) => IsOut(i)'
  <1>1. CASE CallerStep \/ TransportStep \/ UNCHANGED vars
    <2>1. store' = store BY <1>1, CallerFrame, TransportFrame DEF vars
    <2>2. QED BY <2>1 DEF IsOut, TypeOK
  <1>2. CASE Body
    <2>1. store' = store \/ store' = Append(store, In) BY <1>2, BodyFrame
    <2>2. In \in Rows /\ store \in Seq(Rows) BY DEF Rows, TypeOK
    <2>3. QED BY <2>1, <2>2, AppendFacts DEF IsOut
  <1>3. CASE SenderStep
    <2>1. store' = store \/ \E s \in Senders : store' = Append(store, Out(s))
      BY <1>3 DEF SenderStep, SendStep, SendCall, SendOpen, SendEncode, SendCheck, SendWoken,
         SendReserve, SendNoReceiver, SendRecheck, SendStore, SendCommit
    <2>2. store \in Seq(Rows) /\ \A s \in Senders : Out(s) \in Rows BY DEF Rows, TypeOK
    <2>3. QED BY <2>1, <2>2, AppendFacts DEF IsOut
  <1>4. QED BY <1>1, <1>2, <1>3, NextCases

LEMMA WireStep ==
  ASSUME TypeOK, SlotInv, RowInv, WireInv, [Next]_vars
  PROVE  WireInv'
  <1>0. \A i : IsOut(i) => IsOut(i)' BY OutRowsStay
  <1>1. CASE Body \/ CallerStep \/ UNCHANGED vars
    <2>1. UNCHANGED <<chan, wire, spc, ack>>
      BY <1>1, BodyFrame, CallerFrame DEF vars, chanVars, senderVars
    <2>2. QED BY <1>0, <2>1 DEF WireInv
  <1>2. CASE SenderStep
    <2> PICK s \in Senders : SendCall(s) \/ SendStep(s)
      BY <1>2 DEF SenderStep
    <2>0. wire' = wire BY <1>2, SenderFrame
    <2>1. CASE SendStore(s)
      <3>1. /\ spc' = [spc EXCEPT ![s] = "stored"] /\ chan' = chan
            /\ ack' = [ack EXCEPT ![s] = Len(store) + 1]
        BY <2>1 DEF SendStore, Goto, chanVars, TypeOK
      <3>2. \A i \in DOMAIN wire : wire[i] < Len(store) + 1
        BY DEF WireInv, IsOut, TypeOK
      <3>3. QED BY <1>0, <2>0, <3>1, <3>2 DEF WireInv, TypeOK
    <2>2. CASE SendCommit(s)
      <3>1. /\ chan' = chan \/ chan' = Append(chan, ack[s])
            /\ spc[s] = "stored" /\ spc' = [spc EXCEPT ![s] = "acked"] /\ ack' = ack
        BY <2>2 DEF SendCommit, Goto
      <3>2. chan = <<>> BY <3>1 DEF SlotInv, HoldsPermit
      <3>3. IsOut(ack[s])
        BY <3>1, InNotOut DEF RowInv, IsOut
      <3>4. \A j \in DOMAIN chan' : chan'[j] = ack[s]
        BY <3>1, <3>2 DEF TypeOK
      <3>5. QED BY <1>0, <2>0, <3>1, <3>3, <3>4 DEF WireInv, TypeOK
    <2>3. CASE ~SendStore(s) /\ ~SendCommit(s)
      <3>1. /\ UNCHANGED <<chan, ack>>
            /\ \E pc \in SenderPCs \ {"stored"} : spc' = [spc EXCEPT ![s] = pc]
        BY <2>3 DEF SendStep, SendCall, SendOpen, SendEncode, SendCheck, SendWoken, SendReserve,
           SendNoReceiver, SendRecheck, Goto, SenderPCs, chanVars
      <3>2. QED BY <1>0, <2>0, <3>1 DEF WireInv, TypeOK
    <2>4. QED BY <2>1, <2>2, <2>3
  <1>3. CASE TransportPoll
    <2>1. UNCHANGED <<spc, ack>> BY <1>3, TransportFrame DEF TransportStep
    <2>2. /\ chan # <<>> /\ Len(chan) = 1
          /\ wire' = Append(wire, chan[1]) /\ chan' = <<>>
      <3>1. chan # <<>> /\ chan \in Seq(Nat) /\ Len(chan) <= 1
        BY <1>3 DEF TransportPoll, SlotInv, TypeOK
      <3>2. Len(chan) = 1
        <4>1. Len(chan) \in Nat \ {0} BY <3>1, EmptySeq, Zenon
        <4>2. \A n \in Nat \ {0} : n <= 1 => n = 1 OBVIOUS
        <4>3. QED BY <3>1, <4>1, <4>2, Zenon
      <3>3. Head(chan) = chan[1] /\ Tail(chan) = <<>>
        <4>1. Len(Tail(chan)) = 0 /\ Tail(chan) \in Seq(Nat) BY <3>1, <3>2, HeadTailProperties
        <4>2. Tail(chan) = <<>> BY <4>1, EmptySeq
        <4>3. QED BY <4>2, <3>1
      <3>4. QED BY <1>3, <3>1, <3>2, <3>3 DEF TransportPoll
    <2>3. /\ 1 \in DOMAIN chan /\ IsOut(chan[1])
          /\ \A i \in DOMAIN wire : wire[i] < chan[1]
          /\ ~(\E s \in Senders : spc[s] = "stored")
      BY <2>2 DEF WireInv, SlotInv, HoldsPermit, TypeOK
    <2>4. /\ \A i \in DOMAIN wire : i \in DOMAIN wire' /\ wire'[i] = wire[i]
          /\ \A i \in DOMAIN wire' : i \in DOMAIN wire \/ i = Len(wire) + 1
          /\ wire'[Len(wire) + 1] = chan[1]
          /\ DOMAIN wire = 1..Len(wire) /\ Len(wire) \in Nat
      BY <2>2 DEF TypeOK
    <2>5. QED BY <1>0, <2>1, <2>2, <2>3, <2>4 DEF WireInv
  <1>4. CASE ReceiverDrop
    <2>1. UNCHANGED <<spc, ack>> BY <1>4, TransportFrame DEF TransportStep
    <2>2. chan' = <<>> /\ wire' = wire BY <1>4 DEF ReceiverDrop
    <2>3. QED BY <1>0, <2>1, <2>2 DEF WireInv
  <1>5. QED BY <1>1, <1>2, <1>3, <1>4, NextCases DEF TransportStep

LEMMA LateStep ==
  ASSUME TypeOK, LateInv, [Next]_vars
  PROVE  LateInv'
  <1>1. CASE Body
    <2>1. UNCHANGED <<cpc, hpc, cancelled, late, spc>> BY <1>1, BodyFrame
    <2>2. ~tx => ~tx' BY <1>1, BodyFrame
    <2>3. QED BY <2>1, <2>2 DEF LateInv
  <1>2. CASE CallerStep
    <2>1. UNCHANGED <<late, spc>> BY <1>2, CallerFrame
    <2>2. /\ cancelled => cancelled'
          /\ ~tx => ~tx'
          /\ cpc' # "idle" => cpc # "idle" \/ cancelled'
          /\ hpc' # "idle" => hpc # "idle" \/ ~tx'
      BY <1>2 DEF CallerStep, Timer, HalfCloseTake, HalfCloseNotify, CancelFlag, CancelNotify,
         Release, DropCall, Finished, vars, flagVars, callerVars
    <2>3. QED BY <2>1, <2>2 DEF LateInv
  <1>3. CASE SenderStep
    <2> PICK s \in Senders : SendCall(s) \/ SendStep(s)
      BY <1>3 DEF SenderStep
    <2>0. UNCHANGED <<cpc, hpc, cancelled, tx>> BY <1>3, SenderFrame
    <2>1. CASE SendCall(s)
      <3>1. /\ spc' = [spc EXCEPT ![s] = "called"]
            /\ late' = late \/ (late' = late \cup {s} /\ ("returned" \in {hpc, cpc}))
        BY <2>1 DEF SendCall, Goto
      <3>2. "returned" \in {hpc, cpc} => cancelled \/ ~tx BY DEF LateInv
      <3>3. QED BY <2>0, <3>1, <3>2 DEF LateInv, TypeOK
    <2>2. CASE SendOpen(s)
      <3>1. /\ late' = late
            /\ \/ spc' = [spc EXCEPT ![s] = "refused"]
               \/ spc' = [spc EXCEPT ![s] = "open"] /\ ~cancelled /\ tx
        BY <2>2 DEF SendOpen, Goto
      <3>2. QED BY <2>0, <3>1 DEF LateInv, TypeOK
    <2>3. CASE ~SendCall(s) /\ ~SendOpen(s)
      <3>1. /\ late' = late /\ spc[s] \notin {"called", "refused"}
            /\ \E pc \in SenderPCs : spc' = [spc EXCEPT ![s] = pc]
        BY <2>3 DEF SendStep, SendEncode, SendCheck, SendWoken, SendReserve, SendNoReceiver,
           SendRecheck, SendStore, SendCommit, Goto, SenderPCs
      <3>2. QED BY <2>0, <3>1 DEF LateInv, TypeOK
    <2>4. QED BY <2>1, <2>2, <2>3
  <1>4. CASE TransportStep \/ UNCHANGED vars
    <2>1. UNCHANGED <<cpc, hpc, cancelled, tx, late, spc>>
      BY <1>4, TransportFrame DEF vars, flagVars, senderVars, callerVars
    <2>2. QED BY <2>1 DEF LateInv
  <1>5. QED BY <1>1, <1>2, <1>3, <1>4, NextCases

LEMMA WakeStep ==
  ASSUME TypeOK, WakeInv, [Next]_vars
  PROVE  WakeInv'
  <1>1. CASE Body /\ ~Terminate
    <2>1. spc' = spc BY <1>1, BodyFrame
    <2>2. bpc \notin {"wake", "done"} /\ bpc' \notin {"wake", "done"}
      BY <1>1 DEF Body, SeeCancel, PollOn, Start, PollDeadline, Take, Park, StoreInbound, TakeEnd,
         EmitCheck, Deliver, AbortTaken, Emit, Exit, AfterEmit
    <2>3. QED BY <2>2 DEF WakeInv, NobodyLeftParked
  <1>2. CASE TerminateDropTx \/ TerminateFlag
    BY <1>2 DEF TerminateDropTx, TerminateFlag, WakeInv, NobodyLeftParked
  <1>3. CASE TerminateWake
    BY <1>3 DEF TerminateWake, WakeInv, NobodyLeftParked, Waiting
  <1>4. CASE SenderStep
    <2>0. UNCHANGED <<bpc, terminated, woken>> BY <1>4, SenderFrame
    <2> PICK s \in Senders : SendCall(s) \/ SendStep(s)
      BY <1>4 DEF SenderStep
    <2>1. CASE SendCheck(s)
      <3>1. \/ spc' = [spc EXCEPT ![s] = "refused"]
            \/ spc' = [spc EXCEPT ![s] = "parked"] /\ ~terminated
        BY <2>1 DEF SendCheck, Goto
      <3>2. QED BY <2>0, <3>1 DEF WakeInv, NobodyLeftParked, TypeOK
    <2>2. CASE ~SendCheck(s)
      <3>1. \E pc \in SenderPCs \ {"parked"} : spc' = [spc EXCEPT ![s] = pc]
        BY <2>2 DEF SendCall, SendStep, SendOpen, SendEncode, SendWoken, SendReserve,
           SendNoReceiver, SendRecheck, SendStore, SendCommit, Goto, SenderPCs
      <3>2. QED BY <2>0, <3>1 DEF WakeInv, NobodyLeftParked, TypeOK
    <2>3. QED BY <2>1, <2>2
  <1>5. CASE CallerStep \/ TransportStep \/ UNCHANGED vars
    <2>1. UNCHANGED <<bpc, terminated, spc, woken>>
      BY <1>5, CallerFrame, TransportFrame DEF vars, bodyVars, senderVars
    <2>2. QED BY <2>1 DEF WakeInv, NobodyLeftParked
  <1>6. QED BY <1>1, <1>2, <1>3, <1>4, <1>5, NextCases DEF Terminate

LEMMA InRowsStay ==
  ASSUME TypeOK, [Next]_vars, NEW e, Readable(e)
  PROVE  e.type = "message" => e.index \in DOMAIN store' /\ store'[e.index] = In
  <1>1. CASE CallerStep \/ TransportStep \/ UNCHANGED vars
    <2>1. store' = store BY <1>1, CallerFrame, TransportFrame DEF vars
    <2>2. QED BY <2>1 DEF Readable
  <1>2. CASE Body \/ SenderStep
    <2>1. store' = store \/ \E r \in Rows : store' = Append(store, r)
      <3>1. CASE Body BY <3>1, BodyFrame DEF Rows
      <3>2. CASE SenderStep
        BY <3>2 DEF Rows, SenderStep, SendStep, SendCall, SendOpen, SendEncode, SendCheck,
           SendWoken, SendReserve, SendNoReceiver, SendRecheck, SendStore, SendCommit
      <3>3. QED BY <1>2, <3>1, <3>2
    <2>2. store \in Seq(Rows) BY DEF TypeOK
    <2>3. QED BY <2>1, <2>2, AppendFacts DEF Readable
  <1>3. QED BY <1>1, <1>2, NextCases

LEMMA EventStep ==
  ASSUME TypeOK, EventInv, [Next]_vars
  PROVE  EventInv'
  <1>0. \A e : Readable(e) => Readable(e)' BY InRowsStay DEF Readable
  <1>1. CASE CallerStep \/ SenderStep \/ TransportStep \/ UNCHANGED vars
    <2>1. UNCHANGED <<events, pending, bpc>>
      BY <1>1, CallerFrame, SenderFrame, TransportFrame DEF vars, bodyVars
    <2>2. QED BY <1>0, <2>1 DEF EventInv
  <1>2. CASE Start \/ PollDeadline \/ TakeEnd
    <2>1. events' = events BY <1>2 DEF Start, PollDeadline, TakeEnd
    <2>2. bpc' = "emit" => pending'.type \in {"headers", "fault", "end"}
      BY <1>2 DEF Start, PollDeadline, TakeEnd, Emit, Headers, Fault, End
    <2>3. bpc' \in {"emit", "start"}
      BY <1>2 DEF Start, PollDeadline, TakeEnd, Emit
    <2>4. QED BY <1>0, <2>1, <2>2, <2>3 DEF EventInv, Readable, None
  <1>3. CASE StoreInbound
    <2>1. /\ store' = Append(store, In) /\ events' = events /\ bpc' = "emit"
          /\ pending' = Message(Len(store')) \/ pending' = Fault
      BY <1>3 DEF StoreInbound, Emit
    <2>2. Len(store') \in DOMAIN store' /\ store'[Len(store')] = In
      BY <2>1 DEF TypeOK
    <2>3. Readable(pending)' /\ pending' # None
      BY <2>1, <2>2 DEF Readable, Message, Fault, None
    <2>4. QED BY <1>0, <2>1, <2>3 DEF EventInv
  <1>4. CASE EmitCheck
    BY <1>0, <1>4 DEF EmitCheck, EventInv, AfterEmit
  <1>5. CASE Deliver
    <2>1. /\ events' = Append(events, pending) /\ pending' = pending
          /\ bpc = "deliver" /\ bpc' \notin {"emit", "deliver"}
      BY <1>5 DEF Deliver, AfterEmit
    <2>2. pending \in StreamEvents /\ Readable(pending)
      BY <2>1 DEF EventInv, TypeOK
    <2>3. QED BY <1>0, <2>1, <2>2, AppendFacts DEF EventInv, TypeOK
  <1>6. CASE SeeCancel \/ PollOn \/ Take \/ Park \/ AbortTaken \/ Terminate
    <2>1. events' = events /\ bpc' \notin {"emit", "deliver"}
      BY <1>6 DEF SeeCancel, PollOn, Take, Park, AbortTaken, Terminate, TerminateDropTx,
         TerminateFlag, TerminateWake, Exit
    <2>2. QED BY <1>0, <2>1 DEF EventInv
  <1>7. QED BY <1>1, <1>2, <1>3, <1>4, <1>5, <1>6, NextCases DEF Body

LEMMA GrammarStep ==
  ASSUME TypeOK, EventInv, events # <<>>, GrammarInv, [Next]_vars
  PROVE  GrammarInv'
  <1> DEFINE Counts == ~cancelled \/ bpc = "deliver"
  <1>0. Len(events) \in Nat \ {0} /\ events \in Seq(StreamEvents)
    BY EmptySeq DEF TypeOK
  <1> USE DEF GrammarInv
  <1>1. CASE CallerStep \/ SenderStep \/ TransportStep \/ UNCHANGED vars
    <2>1. UNCHANGED <<events, pending, bpc, count>>
      BY <1>1, CallerFrame, SenderFrame, TransportFrame DEF vars, bodyVars
    <2>2. cancelled => cancelled'
      BY <1>1, SenderFrame, TransportFrame DEF CallerStep, Timer, HalfCloseTake, HalfCloseNotify,
         CancelFlag, CancelNotify, Release, DropCall, Finished, vars, flagVars
    <2>3. QED BY <2>1, <2>2
  <1>2. CASE SeeCancel \/ AbortTaken \/ Terminate
    <2>1. bpc' \in {"dropTx", "setFlag", "wake", "done"}
      BY <1>2 DEF SeeCancel, AbortTaken, Terminate, TerminateDropTx, TerminateFlag, TerminateWake,
         Exit
    <2>2. QED BY <2>1
  <1>3. CASE PollOn \/ Take \/ Park
    <2>1. /\ UNCHANGED <<events, pending, count, cancelled>>
          /\ \/ bpc = "start" /\ bpc' = "startPoll"
             \/ bpc \in {"pump", "pumpPoll", "parked"} /\ bpc' \in {"pump", "pumpPoll", "parked", "taken"}
      BY <1>3 DEF PollOn, Take, Park, flagVars
    <2>2. QED BY <2>1
  <1>4. CASE Start \/ PollDeadline
    <2>1. /\ UNCHANGED <<events, count, cancelled>> /\ bpc = "startPoll"
          /\ \/ bpc' = "start"
             \/ bpc' = "emit" /\ pending' \in {Headers, Fault}
      BY <1>4 DEF Start, PollDeadline, Emit, flagVars
    <2>2. CASE bpc' = "start" BY <2>1, <2>2
    <2>3. CASE bpc' = "emit" /\ ~cancelled
      <3>1. events = <<Opened>> /\ count = 0 BY <2>1, <2>3
      <3>2. Protocol!CanFollow(events, pending)'
        BY <2>1, <2>3, <3>1 DEF Protocol!CanFollow, Protocol!Headers, Protocol!Fault, Opened,
           Headers, Fault
      <3>3. QED BY <2>1, <2>3, <3>1, <3>2 DEF Headers, Fault
    <2>4. QED BY <2>1, <2>2, <2>3
  <1>5. CASE StoreInbound
    <2>1. /\ UNCHANGED <<events, cancelled>> /\ count' = count + 1 /\ bpc = "taken"
          /\ store' = Append(store, In) /\ bpc' = "emit"
          /\ pending' = Message(Len(store')) \/ pending' = Fault
      BY <1>5 DEF StoreInbound, Emit, flagVars
    <2>2. CASE ~cancelled
      <3>1. events[Len(events)].type \in {"headers", "message"} /\ Len(events) = count + 2
        BY <2>1, <2>2
      <3>2. Len(store') = Len(store) + 1 /\ Len(store) \in Nat BY <2>1 DEF TypeOK
      <3>3. Len(events) \in DOMAIN events BY <1>0
      <3>4. events[Len(events)].type = "message" =>
              events[Len(events)].index \in 1..Len(store)
        BY <3>3 DEF EventInv, Readable, TypeOK
      <3>5. Protocol!CanFollow(events, pending)'
        BY <2>1, <3>1, <3>2, <3>4 DEF Protocol!CanFollow, Protocol!Fault, Protocol!Messages,
           Message, Fault
      <3>6. QED BY <1>0, <2>1, <2>2, <3>1, <3>5 DEF Message, Fault, Headers, TypeOK
    <2>3. QED BY <2>1, <2>2
  <1>6. CASE TakeEnd
    <2>1. /\ UNCHANGED <<events, cancelled, count>> /\ bpc = "taken"
          /\ bpc' = "emit" /\ pending' = End(count)
      BY <1>6 DEF TakeEnd, Emit, flagVars
    <2>2. CASE ~cancelled
      <3>1. events[Len(events)].type \in {"headers", "message"} /\ Len(events) = count + 2
        BY <2>1, <2>2
      <3>2. count = Len(events) - 2 BY <1>0, <3>1 DEF TypeOK
      <3>3. Protocol!CanFollow(events, pending)'
        BY <2>1, <3>1, <3>2 DEF Protocol!CanFollow, Protocol!End, End
      <3>4. QED BY <2>1, <2>2, <3>3 DEF End, Headers
    <2>3. QED BY <2>1, <2>2
  <1>7. CASE EmitCheck
    BY <1>7 DEF EmitCheck, AfterEmit, flagVars
  <1>8. CASE Deliver
    <2>1. /\ events' = Append(events, pending) /\ UNCHANGED <<count, pending>>
          /\ bpc = "deliver" /\ bpc' = AfterEmit(pending)
      BY <1>8 DEF Deliver
    <2>2. pending \in StreamEvents /\ Protocol!CanFollow(events, pending)
      BY <2>1 DEF EventInv, TypeOK
    <2>3. CASE Terminal(pending) BY <2>1, <2>3 DEF AfterEmit
    <2>4. CASE ~Terminal(pending)
      <3>1. pending.type \in {"headers", "message"}
        BY <2>2, <2>4 DEF Terminal, Protocol!CanFollow, Protocol!Headers, Protocol!Fault,
           Protocol!Messages, Protocol!End
      <3>2. pending.type = "headers" => pending = Headers
        BY <2>2 DEF StreamEvents, Opened, Headers, Fault
      <3>3. Len(events') = Len(events) + 1 /\ events'[Len(events')] = pending
        BY <1>0, <2>1, <2>2, AppendFacts
      <3>4. Len(events') = count + 2
        <4>1. count \in Nat BY DEF TypeOK
        <4>2. CASE pending.type = "headers"
          <5>1. Len(events) = 1 /\ count = 0 BY <2>1, <3>2, <4>2
          <5>2. QED BY <2>1, <3>3, <5>1
        <4>3. CASE pending.type = "message"
          <5>1. Len(events) = count + 1 BY <2>1, <4>3
          <5>2. QED BY <2>1, <3>3, <4>1, <5>1
        <4>4. QED BY <3>1, <4>2, <4>3
      <3>5. QED BY <2>1, <2>4, <3>1, <3>3, <3>4 DEF AfterEmit
    <2>5. QED BY <2>3, <2>4
  <1>9. QED BY <1>1, <1>2, <1>3, <1>4, <1>5, <1>6, <1>7, <1>8, NextCases DEF Body

LEMMA EventsNonEmpty ==
  ASSUME TypeOK, EventInv, events # <<>>, [Next]_vars
  PROVE  events' # <<>>
  <1>1. CASE ~Deliver
    <2>1. events' = events
      BY <1>1, NextCases, CallerFrame, SenderFrame, TransportFrame DEF Body, Terminate, SeeCancel,
         PollOn, Start, PollDeadline, Take, Park, StoreInbound, TakeEnd, EmitCheck, AbortTaken,
         TerminateDropTx, TerminateFlag, TerminateWake, vars, bodyVars
    <2>2. QED BY <2>1
  <1>2. CASE Deliver
    <2>1. pending \in StreamEvents /\ events \in Seq(StreamEvents)
      BY <1>2 DEF Deliver, EventInv, TypeOK
    <2>2. QED BY <1>2, <2>1, AppendProperties DEF Deliver
  <1>3. QED BY <1>1, <1>2

-----------------------------------------------------------------------------
(* The store, the channel and the counts (StoreAgrees). *)

\* A channel of one slot is empty, or holds one message.
LEMMA OneSlot ==
  ASSUME NEW c \in Seq(Nat), Len(c) <= 1, c # <<>>
  PROVE  Len(c) = 1 /\ c[1] \in Nat /\ Head(c) = c[1] /\ Tail(c) = <<>>
  <1>1. Len(c) \in Nat \ {0} BY EmptySeq, Zenon
  <1>2. \A n \in Nat \ {0} : n <= 1 => n = 1 OBVIOUS
  <1>3. Len(c) = 1 BY <1>1, <1>2, Zenon
  <1>4. Len(Tail(c)) = 0 /\ Tail(c) \in Seq(Nat) BY <1>3, HeadTailProperties
  <1>5. Tail(c) = <<>> BY <1>4, EmptySeq
  <1>6. QED BY <1>3, <1>5

\* What is in a wire followed by such a channel.
LEMMA WireThenSlot ==
  ASSUME NEW w \in Seq(Nat), NEW c \in Seq(Nat), Len(c) <= 1
  PROVE  \A i : (\E k \in DOMAIN (w \o c) : (w \o c)[k] = i)
                  <=> (\E k \in DOMAIN w : w[k] = i) \/ (c # <<>> /\ c[1] = i)
  <1>1. /\ DOMAIN (w \o c) = 1..(Len(w) + Len(c))
        /\ \A k \in DOMAIN (w \o c) :
             (w \o c)[k] = IF k <= Len(w) THEN w[k] ELSE c[k - Len(w)]
    BY ConcatProperties, LenProperties
  <1>2. Len(w) \in Nat /\ DOMAIN w = 1..Len(w) OBVIOUS
  <1>3. CASE c = <<>>
    <2>1. Len(c) = 0 BY <1>3
    <2>2. QED BY <1>1, <1>2, <1>3, <2>1
  <1>4. CASE c # <<>>
    <2>1. Len(c) = 1 BY <1>4, OneSlot
    <2>2. Len(w) + 1 \in DOMAIN (w \o c) /\ (w \o c)[Len(w) + 1] = c[1]
      BY <1>1, <1>2, <2>1
    <2>3. \A k \in DOMAIN (w \o c) :
            (k \in DOMAIN w /\ (w \o c)[k] = w[k]) \/ (w \o c)[k] = c[1]
      BY <1>1, <1>2, <2>1
    <2>4. \A k \in DOMAIN w : k \in DOMAIN (w \o c) /\ (w \o c)[k] = w[k]
      BY <1>1, <1>2, <2>1
    <2>5. QED BY <1>4, <2>2, <2>3, <2>4
  <1>5. QED BY <1>3, <1>4

\* Where the row of an outbound message is while the receiver lives.
Kept(i) == \/ \E k \in DOMAIN wire : wire[k] = i
           \/ chan # <<>> /\ chan[1] = i
           \/ \E s \in Senders : spc[s] = "stored" /\ ack[s] = i

\* NothingLostWhileOpen says that every outbound row is kept, before and after a step.
LEMMA LostMeansNotKept ==
  ASSUME TypeOK, SlotInv, TypeOK', SlotInv'
  PROVE  /\ NothingLostWhileOpen <=> (rxOpen => \A i \in DOMAIN store : IsOut(i) => Kept(i))
         /\ NothingLostWhileOpen'
              <=> (rxOpen' => \A i \in DOMAIN store' : IsOut(i)' => Kept(i)')
  <1>1. /\ wire \in Seq(Nat) /\ chan \in Seq(Nat) /\ Len(chan) <= 1
        /\ wire' \in Seq(Nat) /\ chan' \in Seq(Nat) /\ Len(chan') <= 1
    BY DEF TypeOK, SlotInv
  <1>2. \A i : (\E k \in DOMAIN Accepted : Accepted[k] = i)
                 <=> (\E k \in DOMAIN wire : wire[k] = i) \/ (chan # <<>> /\ chan[1] = i)
    BY <1>1, WireThenSlot DEF Accepted
  <1>3. \A i : (\E k \in DOMAIN Accepted' : Accepted'[k] = i)
                 <=> (\E k \in DOMAIN wire' : wire'[k] = i) \/ (chan' # <<>> /\ chan'[1] = i)
    BY <1>1, WireThenSlot DEF Accepted
  <1>4. \A i : (\E k \in DOMAIN Accepted : Accepted[k] = i) \/ (\E s \in Senders : spc[s] = "stored" /\ ack[s] = i)
                 <=> Kept(i)
    BY <1>2, Zenon DEF Kept
  <1>5. \A i : (\E k \in DOMAIN Accepted' : Accepted'[k] = i) \/ (\E s \in Senders : spc'[s] = "stored" /\ ack'[s] = i)
                 <=> Kept(i)'
    BY <1>3, Zenon DEF Kept
  <1>6. NothingLostWhileOpen <=> (rxOpen => \A i \in DOMAIN store : IsOut(i) => Kept(i))
    BY ONLY <1>4, Zenon DEF NothingLostWhileOpen
  <1>7. NothingLostWhileOpen' <=> (rxOpen' => \A i \in DOMAIN store' : IsOut(i)' => Kept(i)')
    BY ONLY <1>5, Zenon DEF NothingLostWhileOpen
  <1>8. QED BY ONLY <1>6, <1>7

\* No step loses an outbound row of an open channel: a sender's row goes from its hand
\* to the slot and from there to the wire.
LEMMA LossStep ==
  ASSUME TypeOK, TypeOK', SlotInv, SlotInv', NothingLostWhileOpen, [Next]_vars
  PROVE  NothingLostWhileOpen'
  <1>0. rxOpen => \A i \in DOMAIN store : IsOut(i) => Kept(i) BY LostMeansNotKept
  <1> SUFFICES ASSUME rxOpen', NEW i \in DOMAIN store', IsOut(i)'
               PROVE  Kept(i)'
    BY LostMeansNotKept
  <1> store \in Seq(Rows) BY DEF TypeOK
  <1>1. CASE CallerStep \/ UNCHANGED vars
    <2>1. UNCHANGED <<store, wire, chan, rxOpen, spc, ack>>
      BY <1>1, CallerFrame DEF vars, chanVars, senderVars
    <2>2. QED BY <1>0, <2>1 DEF Kept, IsOut
  <1>2. CASE Body
    <2>1. UNCHANGED <<wire, chan, rxOpen, spc, ack>> BY <1>2, BodyFrame
    <2>2. i \in DOMAIN store /\ IsOut(i)
      BY <1>2, BodyFrame, AppendFacts DEF IsOut, Rows
    <2>3. QED BY <1>0, <2>1, <2>2 DEF Kept
  <1>3. CASE SenderStep
    <2> PICK s \in Senders : SendCall(s) \/ SendStep(s)
      BY <1>3 DEF SenderStep
    <2>0. wire' = wire /\ rxOpen' = rxOpen BY <1>3, SenderFrame
    <2>1. CASE SendStore(s)
      <3>1. /\ store' = Append(store, Out(s)) /\ chan' = chan
            /\ spc[s] = "push" /\ spc' = [spc EXCEPT ![s] = "stored"]
            /\ ack' = [ack EXCEPT ![s] = Len(store')]
        BY <2>1 DEF SendStore, Goto, chanVars
      <3>2. Out(s) \in Rows BY DEF Rows
      <3>3. CASE i \in DOMAIN store
        <4>1. IsOut(i) BY <3>1, <3>2, <3>3, AppendFacts DEF IsOut
        <4>2. Kept(i) BY <1>0, <2>0, <3>3, <4>1
        <4>3. \A t \in Senders : spc[t] = "stored" => spc'[t] = "stored" /\ ack'[t] = ack[t]
          BY <3>1 DEF TypeOK
        <4>4. QED BY <2>0, <3>1, <4>2, <4>3 DEF Kept
      <3>4. CASE i \notin DOMAIN store
        <4>1. i = Len(store') BY <3>1, <3>2, <3>4, AppendFacts
        <4>2. spc'[s] = "stored" /\ ack'[s] = i BY <3>1, <4>1 DEF TypeOK
        <4>3. QED BY <4>2 DEF Kept
      <3>5. QED BY <3>3, <3>4
    <2>2. CASE SendCommit(s)
      <3>1. /\ store' = store /\ chan' = Append(chan, ack[s]) /\ ack' = ack
            /\ spc[s] = "stored" /\ spc' = [spc EXCEPT ![s] = "acked"]
        BY <2>0, <2>2 DEF SendCommit, Goto
      <3>2. chan = <<>> BY <3>1 DEF SlotInv, HoldsPermit
      <3>3. chan' # <<>> /\ chan'[1] = ack[s] BY <3>1, <3>2
      <3>4. Kept(i) BY <1>0, <2>0, <3>1 DEF IsOut
      <3>5. \A t \in Senders : spc[t] = "stored" => t = s
        BY <3>1 DEF SlotInv, HoldsPermit
      <3>6. QED BY <2>0, <3>2, <3>3, <3>4, <3>5 DEF Kept
    <2>3. CASE ~SendStore(s) /\ ~SendCommit(s)
      <3>1. /\ UNCHANGED <<store, chan, ack>>
            /\ spc[s] # "stored"
            /\ \E pc \in SenderPCs : spc' = [spc EXCEPT ![s] = pc]
        BY <2>3 DEF SendStep, SendCall, SendOpen, SendEncode, SendCheck, SendWoken, SendReserve,
           SendNoReceiver, SendRecheck, Goto, SenderPCs, chanVars
      <3>2. \A t \in Senders : spc[t] = "stored" => spc'[t] = "stored"
        BY <3>1 DEF TypeOK
      <3>3. QED BY <1>0, <2>0, <3>1, <3>2 DEF Kept, IsOut
    <2>4. QED BY <2>1, <2>2, <2>3
  <1>4. CASE TransportPoll
    <2>1. UNCHANGED <<store, spc, ack, rxOpen>>
      BY <1>4, TransportFrame DEF TransportStep, TransportPoll
    <2>2. /\ wire \in Seq(Nat) /\ chan \in Seq(Nat) /\ Len(chan) <= 1 /\ chan # <<>>
          /\ wire' = Append(wire, Head(chan))
      BY <1>4 DEF TypeOK, SlotInv, TransportPoll
    <2>3. chan[1] \in Nat /\ wire' = Append(wire, chan[1])
      BY <2>2, OneSlot
    <2>4. /\ \A k \in DOMAIN wire : k \in DOMAIN wire' /\ wire'[k] = wire[k]
          /\ Len(wire) + 1 \in DOMAIN wire' /\ wire'[Len(wire) + 1] = chan[1]
      BY <2>2, <2>3, AppendFacts
    <2>5. Kept(i) BY <1>0, <2>1 DEF IsOut
    <2>6. QED BY <2>1, <2>4, <2>5 DEF Kept
  <1>5. CASE ReceiverDrop
    BY <1>5 DEF ReceiverDrop
  <1>6. QED BY <1>1, <1>2, <1>3, <1>4, <1>5, NextCases DEF TransportStep

\* A row that is appended is one inbound row more, or none.
LEMMA InboundGrows ==
  ASSUME store \in Seq(Rows), NEW r \in Rows, store' = Append(store, r)
  PROVE  Cardinality(InboundRows') = Cardinality(InboundRows) + (IF r = In THEN 1 ELSE 0)
  <1>1. /\ DOMAIN store = 1..Len(store) /\ DOMAIN store' = 1..(Len(store) + 1)
        /\ \A i \in 1..Len(store) : store'[i] = store[i]
        /\ store'[Len(store) + 1] = r /\ Len(store) \in Nat
    BY AppendFacts
  <1>2. IsFiniteSet(InboundRows) /\ Cardinality(InboundRows) \in Nat
    <2>1. IsFiniteSet(1..Len(store)) BY <1>1, FS_Interval
    <2>2. InboundRows \in SUBSET (1..Len(store)) BY <1>1 DEF InboundRows
    <2>3. QED BY <2>1, <2>2, FS_Subset, FS_CardinalityType
  <1>3. CASE r = In
    <2>1. InboundRows' = InboundRows \cup {Len(store) + 1} BY <1>1, <1>3 DEF InboundRows
    <2>2. Len(store) + 1 \notin InboundRows BY <1>1 DEF InboundRows
    <2>3. QED BY <1>2, <1>3, <2>1, <2>2, FS_AddElement
  <1>4. CASE r # In
    <2>1. InboundRows' = InboundRows BY <1>1, <1>4 DEF InboundRows
    <2>2. QED BY <1>2, <1>4, <2>1
  <1>5. QED BY <1>3, <1>4

\* The body counts what it stores, and goes nowhere but out of the pump with an End.
LEMMA CountStep ==
  ASSUME TypeOK, CountInv, EventInv, [Next]_vars
  PROVE  CountInv'
  <1> store \in Seq(Rows) /\ In \in Rows /\ events \in Seq(StreamEvents)
    BY DEF TypeOK, Rows
  <1> USE DEF CountInv, Over
  <1>1. CASE CallerStep \/ TransportStep \/ UNCHANGED vars
    <2>1. UNCHANGED <<store, bpc, pending, count, events>>
      BY <1>1, CallerFrame, TransportFrame DEF vars, bodyVars
    <2>2. QED BY <2>1 DEF InboundRows
  <1>2. CASE SenderStep
    <2>1. UNCHANGED <<bpc, pending, count, events>> BY <1>2, SenderFrame
    <2>2. store' = store \/ \E s \in Senders : store' = Append(store, Out(s))
      BY <1>2 DEF SenderStep, SendStep, SendCall, SendOpen, SendEncode, SendCheck, SendWoken,
         SendReserve, SendNoReceiver, SendRecheck, SendStore, SendCommit
    <2>3. Cardinality(InboundRows') = Cardinality(InboundRows)
      <3>1. CASE store' = store BY <3>1 DEF InboundRows
      <3>2. CASE \E s \in Senders : store' = Append(store, Out(s))
        <4>1. PICK s \in Senders : store' = Append(store, Out(s)) BY <3>2
        <4>2. Out(s) \in Rows /\ In # Out(s) BY InNotOut DEF Rows
        <4>3. Cardinality(InboundRows') = Cardinality(InboundRows) + 0
          BY <4>1, <4>2, InboundGrows
        <4>4. QED BY <4>3 DEF TypeOK
      <3>3. QED BY <2>2, <3>1, <3>2
    <2>4. QED BY <2>1, <2>3
  <1>3. CASE StoreInbound
    <2>1. /\ store' = Append(store, In) /\ count' = count + 1 /\ events' = events
          /\ bpc = "taken" /\ bpc' = "emit" /\ pending' \in {Message(Len(store')), Fault}
      BY <1>3 DEF StoreInbound, Emit
    <2>2. Cardinality(InboundRows') = Cardinality(InboundRows) + 1
      BY <2>1, InboundGrows
    <2>3. pending'.type # "end" BY <2>1 DEF Message, Fault
    <2>4. QED BY <2>1, <2>2, <2>3
  <1>4. CASE TakeEnd
    BY <1>4 DEF TakeEnd, Emit, End, InboundRows
  <1>5. CASE Start \/ PollDeadline
    <2>1. UNCHANGED <<store, count, events>> /\ bpc = "startPoll"
      BY <1>5 DEF Start, PollDeadline
    <2>2. bpc' = "start" \/ (bpc' = "emit" /\ pending' \in {Headers, Fault})
      BY <1>5 DEF Start, PollDeadline, Emit
    <2>3. bpc' = "emit" => pending'.type # "end" BY <2>2 DEF Headers, Fault
    <2>4. QED BY <2>1, <2>2, <2>3 DEF InboundRows
  <1>6. CASE Deliver
    <2>1. /\ events' = Append(events, pending) /\ UNCHANGED <<store, pending, count>>
          /\ bpc = "deliver" /\ bpc' = AfterEmit(pending)
      BY <1>6 DEF Deliver
    <2>2. pending \in StreamEvents BY <2>1 DEF EventInv, TypeOK
    <2>3. \A k \in DOMAIN events : events[k].type # "end" BY <2>1
    <2>4. ASSUME NEW k \in DOMAIN events', events'[k].type = "end"
          PROVE  events'[k] = pending
      BY <2>1, <2>2, <2>3, <2>4, AppendFacts
    <2>5. pending.type = "end" => pending.count = count /\ bpc' = "dropTx"
      BY <2>1 DEF AfterEmit, Terminal
    <2>6. bpc' \notin {"emit", "deliver"} BY <2>1 DEF AfterEmit
    <2>7. QED BY <2>1, <2>4, <2>5, <2>6 DEF InboundRows
  <1>7. CASE EmitCheck
    BY <1>7 DEF EmitCheck, AfterEmit, InboundRows
  <1>8. CASE SeeCancel \/ PollOn \/ Take \/ Park \/ AbortTaken \/ Terminate
    <2>1. UNCHANGED <<store, count, events>>
      BY <1>8 DEF SeeCancel, PollOn, Take, Park, AbortTaken, Terminate, TerminateDropTx,
         TerminateFlag, TerminateWake
    <2>2. bpc' \notin {"emit", "deliver"} /\ (Over => Over')
      BY <1>8 DEF SeeCancel, PollOn, Take, Park, AbortTaken, Terminate, TerminateDropTx,
         TerminateFlag, TerminateWake, Exit
    <2>3. QED BY <2>1, <2>2 DEF InboundRows
  <1>9. QED BY <1>1, <1>2, <1>3, <1>4, <1>5, <1>6, <1>7, <1>8, NextCases DEF Body

\* After a cancel the body can still be past its poll, once.
LEMMA CancelStep ==
  ASSUME TypeOK, CancelInv, [Next]_vars
  PROVE  CancelInv'
  <1> USE DEF CancelInv, Over
  <1>1. CASE CallerStep
    <2>1. bpc' = bpc /\ lateRows' = lateRows BY <1>1, CallerFrame
    <2>2. \/ cpc' = cpc /\ cancelPermit' = cancelPermit
          \/ cpc' = "flagged" /\ cpc = "idle" /\ cancelPermit' = cancelPermit
          \/ cpc = "flagged" /\ cpc' = "returned" /\ cancelPermit' = TRUE
      BY <1>1 DEF CallerStep, Timer, HalfCloseTake, HalfCloseNotify, CancelFlag, CancelNotify,
         Release, DropCall, Finished, vars, flagVars, callerVars
    <2>3. QED BY <2>1, <2>2
  <1>2. CASE SenderStep \/ TransportStep \/ UNCHANGED vars
    <2>1. UNCHANGED <<bpc, cpc, cancelPermit, lateRows>>
      BY <1>2, SenderFrame, TransportFrame DEF vars, bodyVars, flagVars, callerVars
    <2>2. QED BY <2>1
  <1>3. CASE Body
    <2>0. cpc' = cpc BY <1>3, BodyFrame
    <2>1. CASE SeeCancel
      BY <2>0, <2>1 DEF SeeCancel, Exit
    <2>2. CASE PollOn
      BY <2>0, <2>2 DEF PollOn, flagVars
    <2>3. CASE StoreInbound
      <3>1. /\ bpc = "taken" /\ bpc' = "emit" /\ cancelPermit' = cancelPermit
            /\ lateRows' = IF cpc = "returned" THEN lateRows + 1 ELSE lateRows
        BY <2>3 DEF StoreInbound, Emit, flagVars
      <3>2. QED BY <2>0, <3>1
    <2>4. CASE Start \/ PollDeadline \/ TakeEnd
      <3>1. /\ bpc' \in {"emit", "start"} /\ bpc \in {"startPoll", "taken"}
            /\ UNCHANGED <<cancelPermit, lateRows>>
        BY <2>4 DEF Start, PollDeadline, TakeEnd, Emit, flagVars
      <3>2. QED BY <2>0, <3>1
    <2>5. CASE Take
      BY <2>0, <2>5 DEF Take, flagVars
    <2>6. CASE Park
      BY <2>0, <2>6 DEF Park, flagVars
    <2>7. CASE EmitCheck \/ Deliver
      <3>1. /\ bpc' \in {"deliver", "dropTx", "pump"} /\ bpc \in {"emit", "deliver"}
            /\ UNCHANGED <<cancelPermit, lateRows>>
        BY <2>7 DEF EmitCheck, Deliver, AfterEmit, flagVars
      <3>2. QED BY <2>0, <3>1
    <2>8. CASE AbortTaken \/ Terminate
      <3>1. Over' /\ lateRows' = lateRows
        BY <2>8 DEF AbortTaken, Terminate, TerminateDropTx, TerminateFlag, TerminateWake, Exit
      <3>2. QED BY <2>0, <3>1
    <2>9. QED BY <1>3, <2>1, <2>2, <2>3, <2>4, <2>5, <2>6, <2>7, <2>8 DEF Body
  <1>4. QED BY <1>1, <1>2, <1>3, NextCases

-----------------------------------------------------------------------------
LEMMA InitIInv == Init => IInv
  <1> SUFFICES ASSUME Init PROVE IInv
    OBVIOUS
  <1>1. FlagsOK
    <2>1. kind \in {"server", "bidi"} BY DEF Init
    <2>2. QED BY <2>1, Zenon DEF Init, FlagsOK
  <1>2. TypeOK
    BY <1>1, MaxInboundAssumption DEF Init, TypeOK, OUTBOUND_CAPACITY, BodyPCs, SenderPCs,
       StreamEvents, Opened, None, NoItem, Items
  <1>3. SlotInv /\ RowInv /\ WireInv
    BY DEF Init, SlotInv, HoldsPermit, RowInv, WireInv
  <1>4. ItemInv /\ LateInv /\ WakeInv
    BY DEF Init, ItemInv, LateInv, WakeInv, NobodyLeftParked
  <1>5. EventInv /\ GrammarInv /\ events # <<>>
    BY DEF Init, EventInv, GrammarInv, Readable, Opened
  <1>6. NothingLostWhileOpen /\ CancelInv
    BY DEF Init, NothingLostWhileOpen, CancelInv
  <1>7. CountInv
    <2>1. InboundRows = {} BY DEF Init, InboundRows
    <2>2. QED BY <2>1, FS_EmptySet DEF Init, CountInv, Opened
  <1>8. QED BY <1>2, <1>3, <1>4, <1>5, <1>6, <1>7 DEF IInv

LEMMA NextIInv == IInv /\ [Next]_vars => IInv'
  <1> SUFFICES ASSUME IInv, [Next]_vars PROVE IInv'
    OBVIOUS
  <1>1. TypeOK' BY TypeStep DEF IInv
  <1>2. SlotInv' BY SlotStep DEF IInv
  <1>3. ItemInv' BY ItemStep DEF IInv
  <1>4. RowInv' BY RowStep DEF IInv
  <1>5. WireInv' BY WireStep DEF IInv
  <1>6. LateInv' BY LateStep DEF IInv
  <1>7. EventInv' BY EventStep DEF IInv
  <1>8. (events # <<>>)' BY EventsNonEmpty DEF IInv
  <1>9. GrammarInv' BY GrammarStep DEF IInv
  <1>10. WakeInv' BY WakeStep DEF IInv
  <1>11. NothingLostWhileOpen' BY <1>1, <1>2, LossStep DEF IInv
  <1>12. CountInv' BY CountStep DEF IInv
  <1>13. CancelInv' BY CancelStep DEF IInv
  <1>14. QED
    BY <1>1, <1>2, <1>3, <1>4, <1>5, <1>6, <1>7, <1>8, <1>9, <1>10, <1>11, <1>12, <1>13 DEF IInv

\* The inductive invariant holds in every reachable state.
THEOREM Invariance == Spec => []IInv
  BY InitIInv, NextIInv, PTL DEF Spec

\* Every variable keeps its type: in particular the semaphore of the outbound
\* channel never counts beyond its capacity.
THEOREM TypeCorrect == Spec => []TypeOK
  <1>1. IInv => TypeOK BY DEF IInv
  <1>2. QED BY <1>1, Invariance, PTL

\* Outbound rows go to the wire in the order of their indices, each at most
\* once, however many senders run send_message at the same time.
THEOREM WireOrder == Spec => []WireInStoreOrder
  <1>1. IInv => WireInStoreOrder
    <2> SUFFICES ASSUME IInv PROVE WireInStoreOrder
      OBVIOUS
    <2>1. wire \in Seq(Nat) /\ chan \in Seq(Nat) /\ Len(chan) <= 1
      BY DEF IInv, TypeOK, SlotInv
    <2>2. /\ Len(Accepted) = Len(wire) + Len(chan)
          /\ DOMAIN Accepted = 1..(Len(wire) + Len(chan))
          /\ \A i \in DOMAIN Accepted :
               Accepted[i] = IF i <= Len(wire) THEN wire[i] ELSE chan[i - Len(wire)]
      BY <2>1, ConcatProperties, LenProperties DEF Accepted
    <2>3. \A i \in DOMAIN Accepted :
            \/ i \in DOMAIN wire /\ Accepted[i] = wire[i]
            \/ i = Len(wire) + 1 /\ 1 \in DOMAIN chan /\ Accepted[i] = chan[1]
      BY <2>1, <2>2
    <2>4. Len(wire) \in Nat /\ DOMAIN wire = 1..Len(wire) BY <2>1
    <2>5. WireInv BY DEF IInv
    <2>6. QED BY <2>2, <2>3, <2>4, <2>5 DEF WireInStoreOrder, WireInv
  <1>2. QED BY <1>1, Invariance, PTL

\* A send has one row, the one its ack names, or it has none and was not
\* acknowledged; one called after half_close or cancel had returned has none.
THEOREM HonestSend == Spec => []SendIsHonest
  <1>1. IInv => SendIsAllOrNothing BY DEF IInv, RowInv, SendIsAllOrNothing
  <1>2. IInv => LateSendRefused
    BY DEF IInv, RowInv, LateInv, LateSendRefused, TypeOK
  <1>3. IInv => SendIsHonest BY <1>1, <1>2 DEF SendIsHonest
  <1>4. QED BY <1>3, Invariance, PTL

\* The row of every Message event is in the store when the event goes out.
THEOREM EventRows == Spec => []EventsReadable
  <1>1. IInv => EventsReadable BY DEF IInv, EventInv, Readable, EventsReadable
  <1>2. QED BY <1>1, Invariance, PTL

\* No sender waits for ever on the channel of a call that is over.
THEOREM NoSenderStuck == Spec => []NobodyLeftParked
  <1>1. IInv => NobodyLeftParked BY DEF IInv, WakeInv
  <1>2. QED BY <1>1, Invariance, PTL

\* The store holds what went out and what came in, for any number of senders and of
\* messages: an open channel loses no row, End has counted the inbound ones, and a
\* cancel that has returned is followed by at most one (send_message, run, cancel).
THEOREM StoreIsRight == Spec => []StoreAgrees
  <1>1. IInv => EndCountsInboundRows BY DEF IInv, CountInv, EndCountsInboundRows
  <1>2. IInv => AtMostOneRowAfterCancel BY DEF IInv, CancelInv, AtMostOneRowAfterCancel
  <1>3. IInv => StoreAgrees BY <1>1, <1>2 DEF IInv, StoreAgrees
  <1>4. QED BY <1>3, Invariance, PTL

-----------------------------------------------------------------------------
(* The call implements StreamProtocol. *)

LEMMA InitProtocol == Init => Protocol!PInit
  BY DEF Init, Protocol!PInit, Mode, Opened, Protocol!Opened

LEMMA DeliverProtocol ==
  ASSUME IInv, Deliver
  PROVE  Protocol!Deliver
  <1>1. /\ events' = Append(events, pending) /\ cancelled' = cancelled
        /\ bpc = "deliver" /\ bpc' # "deliver"
    BY DEF Deliver, AfterEmit, flagVars
  <1>2. /\ events \in Seq(StreamEvents) /\ pending \in StreamEvents
        /\ Protocol!CanFollow(events, pending)
    BY <1>1 DEF IInv, TypeOK, EventInv, GrammarInv
  <1>3. Len(events') = Len(events) + 1 /\ events'[Len(events')] = pending
    BY <1>1, <1>2, AppendProperties
  <1>4. Mode # "muted" /\ Mode' = IF Mode = "muting" THEN "muted" ELSE Mode
    BY <1>1 DEF Mode
  <1>5. QED BY <1>1, <1>2, <1>3, <1>4 DEF Protocol!Deliver

LEMMA StepProtocol ==
  ASSUME IInv, [Next]_vars
  PROVE  [Protocol!PNext]_(Protocol!pvars)
  <1> USE DEF Protocol!pvars
  <1>1. CASE CallerStep
    <2>1. events' = events /\ bpc' = bpc BY <1>1, CallerFrame
    <2>2. cancelled => cancelled'
      BY <1>1 DEF CallerStep, Timer, HalfCloseTake, HalfCloseNotify, CancelFlag, CancelNotify,
         Release, DropCall, Finished, vars, flagVars
    <2>3. CASE cancelled BY <2>1, <2>2, <2>3 DEF Mode
    <2>4. CASE ~cancelled
      <3>1. Mode = "live" BY <2>4 DEF Mode
      <3>2. Mode' \in {"live", "muting", "muted"} BY DEF Mode
      <3>3. QED BY <2>1, <3>1, <3>2 DEF Protocol!PNext, Protocol!Mute
    <2>5. QED BY <2>3, <2>4
  <1>2. CASE SenderStep \/ TransportStep \/ UNCHANGED vars
    BY <1>2, SenderFrame, TransportFrame DEF Mode, vars, bodyVars, flagVars
  <1>3. CASE Deliver
    BY <1>3, DeliverProtocol DEF Protocol!PNext
  <1>4. CASE EmitCheck
    BY <1>4 DEF EmitCheck, AfterEmit, Mode, flagVars
  <1>5. CASE Body /\ ~Deliver /\ ~EmitCheck
    <2>1. events' = events /\ cancelled' = cancelled /\ bpc # "deliver" /\ bpc' # "deliver"
      BY <1>5 DEF Body, Terminate, SeeCancel, PollOn, Start, PollDeadline, Take, Park,
         StoreInbound, TakeEnd, AbortTaken, TerminateDropTx, TerminateFlag, TerminateWake, Exit,
         Emit, flagVars
    <2>2. QED BY <2>1 DEF Mode
  <1>6. QED BY <1>1, <1>2, <1>3, <1>4, <1>5, NextCases

\* The event channel of every call keeps the protocol: Opened, Headers, Messages
\* in index order, one End - with the number of Messages - or Fault, and at most
\* one delivery after a cancel.
THEOREM Refinement == Spec => ImplementsProtocol
  <1>1. Init => Protocol!PInit BY InitProtocol
  <1>2. IInv /\ [Next]_vars => [Protocol!PNext]_(Protocol!pvars) BY StepProtocol
  <1>3. QED BY <1>1, <1>2, Invariance, PTL DEF Spec, ImplementsProtocol, Protocol!PSpec
=============================================================================
