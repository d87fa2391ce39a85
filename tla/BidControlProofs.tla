-------------------------- MODULE BidControlProofs --------------------------
(***************************************************************************)
(* Theorems about BidControl and, at the end, about the market floor its   *)
(* prices follow (TierSmoothing, NoisyMarket), for every value of their    *)
(* constants.                                                              *)
(***************************************************************************)
EXTENDS BidControl, NoisyMarket, AscendingProofs, TLAPS

-----------------------------------------------------------------------------
(* Lemmas about the pricing rules. *)

\* A quotient by a positive divisor is an integer between its bounds.
LEMMA DivBounds ==
    ASSUME NEW a \in Int, NEW d \in Nat \ {0}
    PROVE  /\ a \div d \in Int
           /\ (a \div d) * d <= a
           /\ a < (a \div d) * d + d
OBVIOUS

\* execute.ts decPrice never rounds up, loses less than a grid step, and lands
\* on the grid.
LEMMA DecPriceFloors ==
    ASSUME NEW p \in Int
    PROVE  /\ decPrice(p) \in Int
           /\ decPrice(p) <= p
           /\ p < decPrice(p) + Grid
           /\ OnGrid(decPrice(p))
<1>1. Grid \in Nat \ {0}
  BY PolicyAssumption
<1> DEFINE q == p \div Grid
<1>2. q \in Int /\ q * Grid <= p /\ p < q * Grid + Grid
  BY <1>1, DivBounds
<1>3. (q * Grid) % Grid = 0
  BY <1>1, <1>2
<1> QED
  BY <1>1, <1>2, <1>3 DEF decPrice, OnGrid

\* The ceiling is a number whatever the hashprice.
LEMMA CapIsInt ==
    ASSUME NEW h \in Nat \cup {NotSet}
    PROVE  effectiveCapBtc(h) \in Int
<1>1. h \in Int /\ FixedCap \in Int /\ Premium \in Int /\ Grid \in Nat \ {0}
      /\ FeePct \in Nat /\ Buffer \in Nat
  BY PolicyAssumption DEF NotSet
<1> DEFINE d == (100 + FeePct) * Grid
           n == h * 100 - Buffer * (100 + FeePct)
<1>2. d \in Nat \ {0}
  BY <1>1
<1>3. n \in Int
  BY <1>1
<1>4. (-n) \div d \in Int
  BY <1>2, <1>3, DivBounds
<1>5. dynamicCapPrice(h) \in Int
  <2> HIDE DEF d, n
  <2>1. -((-n) \div d) * Grid \in Int
    BY <1>1, <1>4
  <2> QED
    BY <2>1 DEF dynamicCapPrice, d, n
<1> QED
  BY <1>1, <1>5 DEF effectiveCapBtc, Lesser

\* decide() never asks for a price above the ceiling, except on its way down by
\* the full decrease limit; a raise stays at or under the ceiling and, with
\* walk-up on, within one escalation step; a decrease stays within the limit; and
\* every edit is at least one grid step, or corrects a bid above the ceiling.
LEMMA EditTargetBounds ==
    ASSUME NEW cur \in Int, NEW floor \in Int, NEW cap \in Int,
           NEW offset \in Nat, NEW underFilled, NEW gracePassed, NEW raisePaced,
           NEW to, to = EditTarget(cur, floor, cap, offset, underFilled,
                                   gracePassed, raisePaced)
    PROVE  /\ to \in Int
           /\ to <= cap \/ to = cur - DownStep \/ to = cur
           /\ to > cur => to <= cap /\ to >= cur + Grid
           /\ to > cur /\ WalkUp => to <= cur + EscStep
           /\ to < cur =>
                /\ to >= cur - DownStep
                /\ cur - to >= Lesser(Grid, DownStep) \/ cur > cap
<1> USE PolicyAssumption DEF Lesser, Greater
<1> DEFINE target == TrackTarget(floor, cap, offset)
<1>1. target \in Int /\ target <= cap
  BY DEF TrackTarget
<1> HIDE DEF target
<1>2. to = IF cur - target >= Grid \/ cur > cap THEN walkDownTo(cur, target)
           ELSE IF target - cur >= Grid /\ MayRaise(underFilled, gracePassed, raisePaced)
             THEN walkUpTo(cur, target, cap)
           ELSE cur
  BY DEF EditTarget, target
<1> QED
  BY <1>1, <1>2 DEF walkDownTo, walkUpTo, MayRaise

\* And raises only when the walk-up rules allow it.
LEMMA RaisesAllowed ==
    ASSUME NEW cur \in Int, NEW floor \in Int, NEW cap \in Int, NEW offset \in Nat
    PROVE  \A underFilled, gracePassed, raisePaced :
               EditTarget(cur, floor, cap, offset, underFilled, gracePassed, raisePaced) > cur
                   => MayRaise(underFilled, gracePassed, raisePaced)
<1> USE PolicyAssumption DEF Lesser, Greater
<1> SUFFICES ASSUME NEW underFilled, NEW gracePassed, NEW raisePaced,
                    EditTarget(cur, floor, cap, offset, underFilled, gracePassed,
                               raisePaced) > cur,
                    ~MayRaise(underFilled, gracePassed, raisePaced)
             PROVE  FALSE
  OBVIOUS
<1> DEFINE target == TrackTarget(floor, cap, offset)
<1>1. target \in Int /\ target <= cap
  BY DEF TrackTarget
<1> HIDE DEF target
<1>2. EditTarget(cur, floor, cap, offset, underFilled, gracePassed, raisePaced)
        = IF cur - target >= Grid \/ cur > cap THEN walkDownTo(cur, target) ELSE cur
  BY DEF EditTarget, target
<1> QED
  BY <1>1, <1>2 DEF walkDownTo

\* A ladder update keeps a non-negative offset and an age the decay can tell.
LEMMA LadderType ==
    ASSUME NEW prev \in [offset : Nat, age : 0..DecayInterval],
           NEW underFilled, NEW gracePassed, NEW room \in Nat
    PROVE  nextEscalation(prev, underFilled, gracePassed, room)
               \in [offset : Nat, age : 0..DecayInterval]
<1>1. DecayInterval \in Nat /\ DecayStep \in Nat /\ EscStep \in Nat
  BY PolicyAssumption DEF DecayInterval, DecayStep, Greater
<1>2. NoLadder \in [offset : Nat, age : 0..DecayInterval]
  BY <1>1 DEF NoLadder
<1>3. Lesser(EscStep, room) \in Nat
  BY <1>1 DEF Lesser
<1> QED
  BY <1>1, <1>2, <1>3 DEF nextEscalation, Climb, Decay

-----------------------------------------------------------------------------
(* Type correctness. *)

LEMMA ConstantTypes ==
    /\ Grid \in Nat \ {0} /\ EscStep \in Nat /\ DownStep \in Nat \ {0}
    /\ Interval \in Nat \ {0} /\ Cooldown \in Nat \ {0} /\ Overpay \in Nat
    /\ DecayInterval \in Nat /\ Grace \in Nat
    /\ SettleTime \in Nat /\ SettleFallback \in Nat
    /\ MaxLatency \in Nat /\ MaxUpsets \in Nat
BY PolicyAssumption, ControlAssumption DEF DecayInterval, Greater

LEMMA InitTypeOK == Init => TypeOK
<1> SUFFICES ASSUME Init PROVE TypeOK
  OBVIOUS
<1> USE ConstantTypes, ControlAssumption DEF Init, NotSet
<1>1. ExchangeType
  BY DEF ExchangeType, NoLadder, NoJob, NoReply
<1>2. MemoryType
  BY DEF MemoryType, NoLadder, NoJob, NoReply
<1>3. LedgerType
  BY DEF LedgerType, NoLadder, NoJob, NoReply
<1>4. TickType
  BY DEF TickType, NoLadder, NoJob, NoReply
<1>5. JobType
  BY DEF JobType, NoLadder, NoJob, NoReply
<1>6. HistoryType
  BY DEF HistoryType, NoLadder, NoJob, NoReply
<1>7. FlagType
  BY DEF FlagType, NoLadder, NoJob, NoReply
<1> QED
  BY <1>1, <1>2, <1>3, <1>4, <1>5, <1>6, <1>7 DEF TypeOK

LEMMA StepTypeOK == TypeOK /\ [Next]_vars => TypeOK'
<1> SUFFICES ASSUME TypeOK, [Next]_vars PROVE TypeOK'
  OBVIOUS
<1> USE ConstantTypes DEF TypeOK, exchange, memory, ledger, tick, history
<1>1. ASSUME StartTick
      PROVE  TypeOK'
  <2>1. ExchangeType'
    BY <1>1 DEF ExchangeType, StartTick
  <2>2. MemoryType'
    BY <1>1 DEF MemoryType, StartTick
  <2>3. LedgerType'
    BY <1>1 DEF LedgerType, StartTick
  <2>4. TickType'
    BY <1>1 DEF TickType, StartTick
  <2>5. JobType'
    BY <1>1 DEF JobType, StartTick
  <2>6. HistoryType'
    BY <1>1 DEF HistoryType, StartTick
  <2>7. FlagType'
    BY <1>1 DEF FlagType, StartTick
  <2> QED
    BY <2>1, <2>2, <2>3, <2>4, <2>5, <2>6, <2>7
<1>2. ASSUME ObserveBlind
      PROVE  TypeOK'
  <2>1. ExchangeType'
    BY <1>2 DEF ExchangeType, ObserveBlind
  <2>2. MemoryType'
    BY <1>2 DEF MemoryType, ObserveBlind
  <2>3. LedgerType'
    BY <1>2 DEF LedgerType, ObserveBlind
  <2>4. TickType'
    BY <1>2 DEF TickType, ObserveBlind, EndTick
  <2>5. JobType'
    BY <1>2 DEF JobType, ObserveBlind, EndTick, NoJob, NoReply, NotSet
  <2>6. HistoryType'
    BY <1>2 DEF HistoryType, ObserveBlind
  <2>7. FlagType'
    BY <1>2 DEF FlagType, ObserveBlind, EndTick
  <2> QED
    BY <2>1, <2>2, <2>3, <2>4, <2>5, <2>6, <2>7
<1>3. ASSUME NEW filled \in BOOLEAN, ObserveUnpriced(filled)
      PROVE  TypeOK'
  <2>1. ExchangeType'
    BY <1>3 DEF ExchangeType, ObserveUnpriced
  <2>2. MemoryType'
    BY <1>3 DEF MemoryType, ObserveUnpriced, GraceAfter, NotSet
  <2>3. LedgerType'
    BY <1>3 DEF LedgerType, ObserveUnpriced
  <2>4. TickType'
    BY <1>3 DEF TickType, ObserveUnpriced, EndTick
  <2>5. JobType'
    BY <1>3 DEF JobType, ObserveUnpriced, EndTick, NoJob, NoReply, NotSet
  <2>6. HistoryType'
    BY <1>3 DEF HistoryType, ObserveUnpriced
  <2>7. FlagType'
    BY <1>3 DEF FlagType, ObserveUnpriced, EndTick
  <2> QED
    BY <2>1, <2>2, <2>3, <2>4, <2>5, <2>6, <2>7
<1>4. ASSUME NEW filled \in BOOLEAN, NEW a \in Anchors,
             NEW h \in Hashprices, ObservePriced(a, h, filled)
      PROVE  TypeOK'
  <2> DEFINE floor == a + Overpay
             cap == effectiveCapBtc(h)
             wait == GraceAfter(filled)
             room == Greater(0, cap - floor)
             rung == nextEscalation(ladder, ~filled, GracePassed(wait), room)
             to == EditTarget(price, floor, cap, rung.offset, ~filled,
                              GracePassed(wait), raiseWait > 0)
  <2>1. cap \in Int /\ floor \in Int
    BY CapIsInt, ControlAssumption
  <2>2. room \in Nat
    BY <2>1 DEF Greater
  <2>3. ladder \in [offset : Nat, age : 0..DecayInterval] /\ price \in Int
    BY DEF MemoryType, ExchangeType
  <2>5. rung \in [offset : Nat, age : 0..DecayInterval]
    BY <2>2, <2>3, LadderType
  <2>6. to \in Int
    <3>1. rung.offset \in Nat
      BY <2>5
    <3> QED
      BY <2>1, <2>3, <3>1, EditTargetBounds
  <2>7. wait \in 0..Grace \cup {NotSet}
    BY DEF MemoryType, GraceAfter
  <2>8. /\ graceWait' = wait /\ ladder' = rung
        /\ fedAge' = IF filled THEN 0 ELSE fedAge
        /\ \/ /\ job' = [from |-> price, to |-> to, cap |-> cap]
              /\ pc' = "send" /\ UNCHANGED <<startAge, tickLive, reply>>
           \/ EndTick
        /\ UNCHANGED <<exchange, decWait, editWait, raiseWait, ledger, mode,
                       upsets, probeDue, recorded>>
    BY <1>4 DEF ObservePriced
  <2> HIDE DEF floor, cap, wait, room, rung, to
  <2>9. ExchangeType' /\ LedgerType' /\ HistoryType'
    BY <2>8 DEF ExchangeType, LedgerType, HistoryType
  <2>10. MemoryType'
    BY <2>5, <2>7, <2>8 DEF MemoryType
  <2>11. TickType'
    BY <2>8 DEF TickType, EndTick
  <2>12. JobType'
    BY <2>1, <2>3, <2>6, <2>8 DEF JobType, EndTick, NoJob, NoReply, NotSet
  <2>13. FlagType'
    BY <2>8 DEF FlagType, EndTick
  <2> QED
    BY <2>9, <2>10, <2>11, <2>12, <2>13
<1>5. ASSUME SendApplied
      PROVE  TypeOK'
  <2>1. ExchangeType'
    <3>1. price' = decPrice(job.to) /\ job.to \in Int
      BY <1>5 DEF SendApplied, ApplyEdit, JobType
    <3>2. price' \in Int /\ OnGrid(price')
      BY <3>1, DecPriceFloors
    <3>3. exWait' \in 0..Cooldown /\ exSettle' \in 0..SettleTime
      BY <1>5 DEF SendApplied, ApplyEdit
    <3> QED
      BY <3>2, <3>3 DEF ExchangeType
  <2>2. MemoryType'
    BY <1>5 DEF MemoryType, SendApplied, Answer
  <2>3. LedgerType'
    BY <1>5 DEF LedgerType, SendApplied, Answer
  <2>4. TickType'
    BY <1>5 DEF TickType, SendApplied, Answer
  <2>5. JobType'
    BY <1>5 DEF JobType, SendApplied, Answer, NotSet
  <2>6. HistoryType'
    BY <1>5 DEF HistoryType, SendApplied, Answer
  <2>7. FlagType'
    BY <1>5 DEF FlagType, SendApplied, Answer
  <2> QED
    BY <2>1, <2>2, <2>3, <2>4, <2>5, <2>6, <2>7
<1>6. ASSUME SendAppliedUnanswered
      PROVE  TypeOK'
  <2>1. ExchangeType'
    <3>1. price' = decPrice(job.to) /\ job.to \in Int
      BY <1>6 DEF SendAppliedUnanswered, ApplyEdit, JobType
    <3>2. price' \in Int /\ OnGrid(price')
      BY <3>1, DecPriceFloors
    <3>3. exWait' \in 0..Cooldown /\ exSettle' \in 0..SettleTime
      BY <1>6 DEF SendAppliedUnanswered, ApplyEdit
    <3> QED
      BY <3>2, <3>3 DEF ExchangeType
  <2>2. MemoryType'
    BY <1>6 DEF MemoryType, SendAppliedUnanswered, Answer
  <2>3. LedgerType'
    BY <1>6 DEF LedgerType, SendAppliedUnanswered, Answer
  <2>4. TickType'
    BY <1>6 DEF TickType, SendAppliedUnanswered, Answer
  <2>5. JobType'
    BY <1>6 DEF JobType, SendAppliedUnanswered, Answer, NotSet
  <2>6. HistoryType'
    BY <1>6 DEF HistoryType, SendAppliedUnanswered, Answer
  <2>7. FlagType'
    BY <1>6 DEF FlagType, SendAppliedUnanswered, Answer
  <2> QED
    BY <2>1, <2>2, <2>3, <2>4, <2>5, <2>6, <2>7
<1>7. ASSUME SendTooSoonToDecrease
      PROVE  TypeOK'
  <2>1. ExchangeType'
    BY <1>7 DEF ExchangeType, SendTooSoonToDecrease, Answer
  <2>2. MemoryType'
    BY <1>7 DEF MemoryType, SendTooSoonToDecrease, Answer
  <2>3. LedgerType'
    BY <1>7 DEF LedgerType, SendTooSoonToDecrease, Answer
  <2>4. TickType'
    BY <1>7 DEF TickType, SendTooSoonToDecrease, Answer
  <2>5. JobType'
    BY <1>7 DEF JobType, SendTooSoonToDecrease, Answer, NotSet, ExchangeType
  <2>6. HistoryType'
    BY <1>7 DEF HistoryType, SendTooSoonToDecrease, Answer
  <2>7. FlagType'
    BY <1>7 DEF FlagType, SendTooSoonToDecrease, Answer
  <2> QED
    BY <2>1, <2>2, <2>3, <2>4, <2>5, <2>6, <2>7
<1>8. ASSUME SendTooSoonToEdit
      PROVE  TypeOK'
  <2>1. ExchangeType'
    BY <1>8 DEF ExchangeType, SendTooSoonToEdit, Answer
  <2>2. MemoryType'
    BY <1>8 DEF MemoryType, SendTooSoonToEdit, Answer
  <2>3. LedgerType'
    BY <1>8 DEF LedgerType, SendTooSoonToEdit, Answer
  <2>4. TickType'
    BY <1>8 DEF TickType, SendTooSoonToEdit, Answer
  <2>5. JobType'
    BY <1>8 DEF JobType, SendTooSoonToEdit, Answer, NotSet, ExchangeType
  <2>6. HistoryType'
    BY <1>8 DEF HistoryType, SendTooSoonToEdit, Answer
  <2>7. FlagType'
    BY <1>8 DEF FlagType, SendTooSoonToEdit, Answer
  <2> QED
    BY <2>1, <2>2, <2>3, <2>4, <2>5, <2>6, <2>7
<1>9. ASSUME SendFailed
      PROVE  TypeOK'
  <2>1. ExchangeType'
    BY <1>9 DEF ExchangeType, SendFailed, Answer
  <2>2. MemoryType'
    BY <1>9 DEF MemoryType, SendFailed, Answer
  <2>3. LedgerType'
    BY <1>9 DEF LedgerType, SendFailed, Answer
  <2>4. TickType'
    BY <1>9 DEF TickType, SendFailed, Answer
  <2>5. JobType'
    BY <1>9 DEF JobType, SendFailed, Answer, NotSet
  <2>6. HistoryType'
    BY <1>9 DEF HistoryType, SendFailed, Answer
  <2>7. FlagType'
    BY <1>9 DEF FlagType, SendFailed, Answer
  <2> QED
    BY <2>1, <2>2, <2>3, <2>4, <2>5, <2>6, <2>7
<1>10. ASSUME PersistFailed
      PROVE  TypeOK'
  <2>1. ExchangeType'
    BY <1>10 DEF ExchangeType, PersistFailed
  <2>2. MemoryType'
    BY <1>10 DEF MemoryType, PersistFailed, Wait, JobType, NotSet
  <2>3. LedgerType'
    BY <1>10 DEF LedgerType, PersistFailed
  <2>4. TickType'
    BY <1>10 DEF TickType, PersistFailed, EndTick
  <2>5. JobType'
    BY <1>10 DEF JobType, PersistFailed, EndTick, NoJob, NoReply, NotSet
  <2>6. HistoryType'
    BY <1>10 DEF HistoryType, PersistFailed
  <2>7. FlagType'
    BY <1>10 DEF FlagType, PersistFailed, EndTick
  <2> QED
    BY <2>1, <2>2, <2>3, <2>4, <2>5, <2>6, <2>7
<1>11. ASSUME PersistExecuted
      PROVE  TypeOK'
  <2>1. ExchangeType'
    BY <1>11 DEF ExchangeType, PersistExecuted, ArmClocks
  <2>2. MemoryType'
    BY <1>11 DEF MemoryType, PersistExecuted, ArmClocks, Greater, NotSet,
           TickType
  <2>3. LedgerType'
    BY <1>11 DEF LedgerType, PersistExecuted, ArmClocks
  <2>4. TickType'
    BY <1>11 DEF TickType, PersistExecuted, ArmClocks, EndTick
  <2>5. JobType'
    BY <1>11 DEF JobType, PersistExecuted, ArmClocks, EndTick, NoJob, NoReply,
           NotSet
  <2>6. HistoryType'
    BY <1>11 DEF HistoryType, PersistExecuted, ArmClocks
  <2>7. FlagType'
    BY <1>11 DEF FlagType, PersistExecuted, ArmClocks, EndTick
  <2> QED
    BY <2>1, <2>2, <2>3, <2>4, <2>5, <2>6, <2>7
<1>12. ASSUME PersistWriteFails
      PROVE  TypeOK'
  <2>1. ExchangeType'
    BY <1>12 DEF ExchangeType, PersistWriteFails, ArmClocks
  <2>2. MemoryType'
    BY <1>12 DEF MemoryType, PersistWriteFails, ArmClocks, Greater, NotSet,
           TickType
  <2>3. LedgerType'
    BY <1>12 DEF LedgerType, PersistWriteFails, ArmClocks
  <2>4. TickType'
    BY <1>12 DEF TickType, PersistWriteFails, ArmClocks, EndTick
  <2>5. JobType'
    BY <1>12 DEF JobType, PersistWriteFails, ArmClocks, EndTick, NoJob,
           NoReply, NotSet
  <2>6. HistoryType'
    BY <1>12 DEF HistoryType, PersistWriteFails, ArmClocks
  <2>7. FlagType'
    BY <1>12 DEF FlagType, PersistWriteFails, ArmClocks, EndTick
  <2> QED
    BY <2>1, <2>2, <2>3, <2>4, <2>5, <2>6, <2>7
<1>13. ASSUME Elapse
      PROVE  TypeOK'
  <2>1. ExchangeType'
    BY <1>13 DEF ExchangeType, Elapse, Shorter
  <2>2. MemoryType'
    BY <1>13 DEF MemoryType, Elapse, Shorter, Lesser, NotSet
  <2>3. LedgerType'
    BY <1>13 DEF LedgerType, Elapse, Shorter, NotSet
  <2>4. TickType'
    BY <1>13 DEF TickType, Elapse
  <2>5. JobType'
    BY <1>13 DEF JobType, Elapse
  <2>6. HistoryType'
    BY <1>13 DEF HistoryType, Elapse, Lesser
  <2>7. FlagType'
    BY <1>13 DEF FlagType, Elapse
  <2> QED
    BY <2>1, <2>2, <2>3, <2>4, <2>5, <2>6, <2>7
<1>14. ASSUME NEW m \in Modes, SetMode(m)
      PROVE  TypeOK'
  <2>1. ExchangeType'
    BY <1>14 DEF ExchangeType, SetMode
  <2>2. MemoryType'
    BY <1>14 DEF MemoryType, SetMode
  <2>3. LedgerType'
    BY <1>14 DEF LedgerType, SetMode
  <2>4. TickType'
    BY <1>14 DEF TickType, SetMode
  <2>5. JobType'
    BY <1>14 DEF JobType, SetMode
  <2>6. HistoryType'
    BY <1>14 DEF HistoryType, SetMode, Upset
  <2>7. FlagType'
    BY <1>14 DEF FlagType, SetMode
  <2> QED
    BY <2>1, <2>2, <2>3, <2>4, <2>5, <2>6, <2>7
<1>15. ASSUME NEW p \in StartPrices, ManualEdit(p)
      PROVE  TypeOK'
  <2>1. ExchangeType'
    <3>1. p \in Int /\ OnGrid(p) /\ price' = p
      BY <1>15, ControlAssumption DEF ManualEdit
    <3>2. price' \in Int /\ OnGrid(price')
      BY <3>1
    <3>3. exWait' \in 0..Cooldown /\ exSettle' \in 0..SettleTime
      BY <1>15 DEF ManualEdit
    <3> QED
      BY <3>2, <3>3 DEF ExchangeType
  <2>2. MemoryType'
    BY <1>15 DEF MemoryType, ManualEdit
  <2>3. LedgerType'
    BY <1>15 DEF LedgerType, ManualEdit
  <2>4. TickType'
    BY <1>15 DEF TickType, ManualEdit
  <2>5. JobType'
    BY <1>15 DEF JobType, ManualEdit
  <2>6. HistoryType'
    BY <1>15 DEF HistoryType, ManualEdit, Upset
  <2>7. FlagType'
    BY <1>15 DEF FlagType, ManualEdit
  <2> QED
    BY <2>1, <2>2, <2>3, <2>4, <2>5, <2>6, <2>7
<1>16. ASSUME Restart
      PROVE  TypeOK'
  <2>1. ExchangeType'
    BY <1>16 DEF ExchangeType, Restart
  <2>2. MemoryType'
    BY <1>16 DEF MemoryType, Restart, NoLadder, NotSet
  <2>3. LedgerType'
    BY <1>16 DEF LedgerType, Restart
  <2>4. TickType'
    BY <1>16 DEF TickType, Restart, EndTick
  <2>5. JobType'
    BY <1>16 DEF JobType, Restart, EndTick, NoJob, NoReply, NotSet
  <2>6. HistoryType'
    BY <1>16 DEF HistoryType, Restart, Upset
  <2>7. FlagType'
    BY <1>16 DEF FlagType, Restart, EndTick
  <2> QED
    BY <2>1, <2>2, <2>3, <2>4, <2>5, <2>6, <2>7
<1>17. CASE UNCHANGED vars
  <2>1. UNCHANGED <<exchange, memory, ledger, mode, tick, history>>
    BY <1>17 DEF vars
  <2> QED
    BY <2>1 DEF ExchangeType, MemoryType, LedgerType, TickType, JobType,
                HistoryType, FlagType
<1> QED
  BY <1>1, <1>2, <1>3, <1>4, <1>5, <1>6, <1>7, <1>8, <1>9, <1>10, <1>11, <1>12,
     <1>13, <1>14, <1>15, <1>16, <1>17
     DEF Next, Observe, PricedObservation, Send, Persist

\* Every reachable state is well typed: waits and ages stay within the window
\* they measure, and the order's price stays on the grid.
THEOREM TypeCorrect == Spec => []TypeOK
BY InitTypeOK, StepTypeOK, PTL DEF Spec

-----------------------------------------------------------------------------
(* What a tick may send. *)

\* What an observation hands to execute(): a job chosen by EditTarget for the
\* price the order has, under the ceiling of the moment, that the gate allows.
LEMMA JobFacts ==
    ASSUME TypeOK, NEW filled, NEW a \in Anchors, NEW h \in Hashprices,
           ObservePriced(a, h, filled), pc' # "idle"
    PROVE  /\ pc' = "send"
           /\ job'.from = price /\ job'.to \in Int /\ job'.cap \in Int
           /\ job'.to # job'.from
           /\ job'.to <= job'.cap \/ job'.to = job'.from - DownStep
           /\ job'.to > job'.from => job'.to >= job'.from + Grid
           /\ job'.to > job'.from /\ WalkUp =>
                /\ job'.to <= job'.from + EscStep
                /\ ~filled /\ GracePassed(GraceAfter(filled)) /\ raiseWait = 0
           /\ job'.to < job'.from =>
                job'.to >= job'.from - DownStep /\ EffectiveDecreaseWait = 0
<1> DEFINE floor == a + Overpay
           cap == effectiveCapBtc(h)
           wait == GraceAfter(filled)
           room == Greater(0, cap - floor)
           rung == nextEscalation(ladder, ~filled, GracePassed(wait), room)
           to == EditTarget(price, floor, cap, rung.offset, ~filled,
                            GracePassed(wait), raiseWait > 0)
<1>1. cap \in Int /\ floor \in Int
  BY CapIsInt, ConstantTypes, ControlAssumption
<1>2. room \in Nat
  BY <1>1 DEF Greater
<1>3. ladder \in [offset : Nat, age : 0..DecayInterval] /\ price \in Int
  BY DEF TypeOK, MemoryType, ExchangeType
<1>4. rung.offset \in Nat
  <2>1. rung \in [offset : Nat, age : 0..DecayInterval]
    BY <1>2, <1>3, LadderType
  <2> QED
    BY <2>1
<1>5. /\ to # price /\ Allowed(price, to)
      /\ job' = [from |-> price, to |-> to, cap |-> cap]
      /\ pc' = "send"
  BY DEF ObservePriced, EndTick
<1>6. to < price => EffectiveDecreaseWait = 0
  BY <1>5 DEF Allowed
<1> HIDE DEF cap, rung, room, floor
<1>7. /\ to \in Int
      /\ to <= cap \/ to = price - DownStep \/ to = price
      /\ to > price => to >= price + Grid
      /\ to > price /\ WalkUp => to <= price + EscStep
      /\ to < price => to >= price - DownStep
  BY <1>1, <1>3, <1>4, EditTargetBounds
<1>8. to > price => MayRaise(~filled, GracePassed(wait), raiseWait > 0)
  <2>1. \A u, g, r, t : t = EditTarget(price, floor, cap, rung.offset, u, g, r) /\ t > price
                          => MayRaise(u, g, r)
    BY <1>1, <1>3, <1>4, RaisesAllowed
  <2> HIDE DEF wait
  <2> QED
    BY <2>1
<1>9. to > price /\ WalkUp => ~filled /\ GracePassed(wait) /\ ~(raiseWait > 0)
  BY <1>8 DEF MayRaise
<1>10. raiseWait \in Nat
  BY DEF TypeOK, MemoryType
<1> HIDE DEF to
<1> QED
  BY <1>1, <1>5, <1>6, <1>7, <1>9, <1>10

\* A grid price is a whole number of grid steps.
LEMMA GridMultiple ==
    ASSUME NEW g \in Int, OnGrid(g)
    PROVE  \E k \in Int : g = k * Grid
<1>1. Grid \in Nat \ {0}
  BY PolicyAssumption
<1>2. g = (g \div Grid) * Grid
  BY <1>1 DEF OnGrid
<1>3. g \div Grid \in Int
  BY <1>1, DivBounds
<1> WITNESS g \div Grid \in Int
<1> QED
  BY <1>2

LEMMA GridDifference ==
    ASSUME NEW a \in Int, NEW b \in Int, OnGrid(a), OnGrid(b)
    PROVE  OnGrid(a - b)
<1>1. Grid \in Nat \ {0}
  BY PolicyAssumption
<1>2. PICK k \in Int : a = k * Grid
  BY GridMultiple
<1>3. PICK l \in Int : b = l * Grid
  BY GridMultiple
<1>4. a - b = (k - l) * Grid
  BY <1>1, <1>2, <1>3
<1>5. ((k - l) * Grid) % Grid = 0
  BY <1>1
<1> QED
  BY <1>4, <1>5 DEF OnGrid

\* A grid price is its own floor, and flooring is monotone on the way down to one.
LEMMA DecPriceKeepsGrid ==
    ASSUME NEW p \in Int, NEW g \in Int, OnGrid(g), g <= p
    PROVE  g <= decPrice(p)
<1>1. Grid \in Nat \ {0}
  BY PolicyAssumption
<1>2. PICK k \in Int : g = k * Grid
  BY GridMultiple
<1> DEFINE q == p \div Grid
<1>3. q \in Int /\ p < q * Grid + Grid
  BY <1>1, DivBounds
<1>4. k <= q
  <2> SUFFICES ASSUME q + 1 <= k PROVE FALSE
    BY <1>2, <1>3
  <2>1. (q + 1) * Grid <= k * Grid
    BY <1>1, <1>2, <1>3
  <2> QED
    BY <1>1, <1>2, <1>3, <2>1
<1>5. k * Grid <= q * Grid
  BY <1>1, <1>2, <1>3, <1>4
<1> QED
  BY <1>2, <1>5 DEF decPrice

\* The edit on its way was chosen for a price on the grid, and keeps to the steps.
JobInv ==
    pc \in {"send", "persist"} =>
        /\ OnGrid(job.from) /\ job.to # job.from
        /\ job.to <= job.cap \/ job.to = job.from - DownStep
        /\ job.to > job.from => job.to >= job.from + Grid
        /\ job.to > job.from /\ WalkUp => job.to <= job.from + EscStep
        /\ job.to < job.from => job.to >= job.from - DownStep

LEMMA StepJobInv == TypeOK /\ JobInv /\ [Next]_vars => JobInv'
<1> SUFFICES ASSUME TypeOK, JobInv, [Next]_vars PROVE JobInv'
  OBVIOUS
<1> USE DEF tick, exchange, memory, ledger, history
<1>1. CASE UNCHANGED <<pc, job>>
  BY <1>1 DEF JobInv
<1>2. CASE pc' \in {"idle", "observe"}
  BY <1>2 DEF JobInv
<1>3. CASE Send
  <2>1. job' = job /\ pc = "send"
    BY <1>3 DEF Send, SendApplied, SendAppliedUnanswered, SendTooSoonToDecrease,
                SendTooSoonToEdit, SendFailed, Answer
  <2> QED
    BY <2>1 DEF JobInv
<1>4. ASSUME NEW filled \in BOOLEAN, NEW a \in Anchors,
             NEW h \in Hashprices, ObservePriced(a, h, filled), pc' # "idle"
      PROVE  JobInv'
  <2>1. OnGrid(job'.from)
    <3>1. job'.from = price
      BY <1>4, JobFacts
    <3> QED
      BY <3>1 DEF TypeOK, ExchangeType
  <2> QED
    BY <1>4, <2>1, JobFacts DEF JobInv
<1>5. \/ UNCHANGED <<pc, job>> \/ pc' \in {"idle", "observe"} \/ Send
      \/ PricedObservation
  BY DEF Next, vars, StartTick, Observe, ObserveBlind, ObserveUnpriced, EndTick,
         Persist, PersistFailed, PersistExecuted, PersistWriteFails, ArmClocks,
         Elapse, SetMode, ManualEdit, Restart
<1> QED
  BY <1>1, <1>2, <1>3, <1>4, <1>5 DEF PricedObservation

LEMMA JobInvHolds == Spec => []JobInv
<1>1. Init => JobInv
  BY DEF Init, JobInv
<1> QED
  BY <1>1, TypeCorrect, StepJobInv, PTL DEF Spec

\* Whatever the market, the oracle and the settings: a raise stays under its
\* tick's ceiling, and an edit above it takes the full decrease.
THEOREM CeilingTheorem == Spec => []CeilingRespected
<1>1. TypeOK /\ JobInv => CeilingRespected
  <2> SUFFICES ASSUME TypeOK, JobInv, pc \in {"send", "persist"}
               PROVE  decPrice(job.to) <= job.cap \/ job.to = job.from - DownStep
    BY DEF CeilingRespected
  <2>1. job.to \in Int /\ job.cap \in Int
    BY DEF TypeOK, JobType
  <2>2. decPrice(job.to) \in Int /\ decPrice(job.to) <= job.to
    BY <2>1, DecPriceFloors
  <2> QED
    BY <2>1, <2>2 DEF JobInv
<1> QED
  BY <1>1, TypeCorrect, JobInvHolds, PTL

\* Every edit that reaches the exchange moves the price, and by no more than the
\* escalation step up and the exchange's limit down.
THEOREM StepsTheorem == Spec => []EditsMoveWithinSteps
<1>1. TypeOK /\ JobInv => EditsMoveWithinSteps
  <2> SUFFICES ASSUME TypeOK, JobInv, pc = "send"
               PROVE  /\ decPrice(job.to) # job.from
                      /\ WalkUp => decPrice(job.to) <= job.from + EscStep
                      /\ DownStep % Grid = 0 => decPrice(job.to) >= job.from - DownStep
    BY DEF EditsMoveWithinSteps
  <2>1. job.to \in Int /\ job.from \in Int /\ OnGrid(job.from)
        /\ Grid \in Nat \ {0} /\ DownStep \in Nat /\ EscStep \in Nat
    BY ConstantTypes DEF TypeOK, JobType, JobInv
  <2>2. /\ decPrice(job.to) \in Int /\ decPrice(job.to) <= job.to
        /\ job.to < decPrice(job.to) + Grid
    BY <2>1, DecPriceFloors
  <2>3. /\ job.to # job.from
        /\ job.to > job.from => job.to >= job.from + Grid
        /\ job.to > job.from /\ WalkUp => job.to <= job.from + EscStep
        /\ job.to < job.from => job.to >= job.from - DownStep
    BY DEF JobInv
  <2>4. decPrice(job.to) # job.from
    BY <2>1, <2>2, <2>3
  <2>5. WalkUp => decPrice(job.to) <= job.from + EscStep
    BY <2>1, <2>2, <2>3
  <2>6. ASSUME DownStep % Grid = 0 PROVE decPrice(job.to) >= job.from - DownStep
    <3>1. OnGrid(job.from - DownStep)
      <4>1. OnGrid(DownStep)
        BY <2>6 DEF OnGrid
      <4> QED
        BY <2>1, <4>1, GridDifference
    <3>2. job.from - DownStep \in Int /\ job.from - DownStep <= job.to
      BY <2>1, <2>3
    <3> QED
      BY <2>1, <2>2, <3>1, <3>2, DecPriceKeepsGrid
  <2> QED
    BY <2>4, <2>5, <2>6
<1> QED
  BY <1>1, TypeCorrect, JobInvHolds, PTL

-----------------------------------------------------------------------------
(* The walk-up grace. *)

\* The grace clock never runs ahead of the starvation it measures.
GraceInv ==
    /\ graceWait # NotSet => fedAge + graceWait >= Grace
    /\ WalkUp /\ pc = "send" /\ IsRaise => fedAge >= Grace

LEMMA StepGraceInv == TypeOK /\ GraceInv /\ [Next]_vars => GraceInv'
<1> SUFFICES ASSUME TypeOK, GraceInv, [Next]_vars PROVE GraceInv'
  OBVIOUS
<1> USE DEF tick, exchange, memory, ledger, history
<1>1. Grace \in Nat /\ fedAge \in 0..Grace /\ graceWait \in 0..Grace \cup {NotSet}
  BY ConstantTypes DEF TypeOK, HistoryType, MemoryType
<1>2. CASE UNCHANGED <<graceWait, fedAge, pc, job>>
  BY <1>2 DEF GraceInv, IsRaise
<1>3. CASE UNCHANGED <<graceWait, fedAge>> /\ pc' # "send"
  BY <1>3 DEF GraceInv, IsRaise
<1>4. ASSUME NEW filled, ObserveUnpriced(filled)
      PROVE  GraceInv'
  BY <1>1, <1>4 DEF GraceInv, IsRaise, ObserveUnpriced, GraceAfter, EndTick, NotSet
<1>5. ASSUME NEW filled \in BOOLEAN, NEW a \in Anchors,
             NEW h \in Hashprices, ObservePriced(a, h, filled)
      PROVE  GraceInv'
  <2>1. graceWait' = GraceAfter(filled) /\ fedAge' = IF filled THEN 0 ELSE fedAge
    BY <1>5 DEF ObservePriced
  <2>2. graceWait' # NotSet => fedAge' + graceWait' >= Grace
    BY <1>1, <2>1 DEF GraceInv, GraceAfter, NotSet
  <2>3. ASSUME WalkUp, pc' = "send", IsRaise' PROVE fedAge' >= Grace
    <3>1. ~filled /\ GracePassed(GraceAfter(filled))
      <4>1. job'.to > job'.from
        BY <2>3 DEF IsRaise
      <4> QED
        BY <1>5, <2>3, <4>1, JobFacts
    <3>2. Grace = 0 \/ graceWait' = 0
      BY <2>1, <3>1 DEF GracePassed
    <3> QED
      BY <1>1, <2>1, <2>2, <3>1, <3>2 DEF NotSet
  <2> QED
    BY <2>2, <2>3 DEF GraceInv
<1>6. CASE PersistExecuted
  BY <1>1, <1>6 DEF PersistExecuted, ArmClocks, EndTick, GraceInv
<1>7. CASE Elapse
  <2>1. /\ graceWait' = Shorter(graceWait) /\ fedAge' = Lesser(fedAge + 1, Grace)
        /\ UNCHANGED <<pc, job>>
    BY <1>7 DEF Elapse
  <2> QED
    BY <1>1, <2>1 DEF GraceInv, IsRaise, Shorter, Lesser, NotSet
<1>8. CASE Restart
  BY <1>8 DEF Restart, EndTick, GraceInv
<1>9. \/ UNCHANGED <<graceWait, fedAge, pc, job>>
      \/ UNCHANGED <<graceWait, fedAge>> /\ pc' # "send"
      \/ \E filled \in BOOLEAN : ObserveUnpriced(filled)
      \/ PricedObservation \/ PersistExecuted \/ Elapse \/ Restart
  BY DEF Next, vars, StartTick, Observe, ObserveBlind, EndTick, Answer,
         Send, SendApplied, SendAppliedUnanswered, SendTooSoonToDecrease,
         SendTooSoonToEdit, SendFailed, Persist, PersistFailed, PersistWriteFails,
         ArmClocks, SetMode, ManualEdit
<1> QED
  BY <1>2, <1>3, <1>4, <1>5, <1>6, <1>7, <1>8, <1>9 DEF PricedObservation

\* With walk-up on, no raise is ever sent for an order seen filled within the
\* grace period, whatever was interleaved since.
THEOREM StarvationTheorem == Spec => []RaiseOnlyWhenStarved
<1>1. Init => GraceInv
  BY DEF Init, GraceInv
<1>2. GraceInv => RaiseOnlyWhenStarved
  BY DEF GraceInv, RaiseOnlyWhenStarved
<1> QED
  BY <1>1, <1>2, TypeCorrect, StepGraceInv, PTL DEF Spec

-----------------------------------------------------------------------------
(* The decrease clock. *)

\* While its answer is on the way, an edit may leave the clock behind the
\* exchange's, but then the answer is the one that corrects it; and the clock
\* was over when a decrease was sent.
ClockInv ==
    /\ recorded => stampWait >= exWait
    /\ ~probeDue =>
        \/ EffectiveDecreaseWait >= exWait
        \/ pc = "persist" /\ reply.kind = "ok"
        \/ pc = "persist" /\ reply.kind = "5061" /\ IsDecrease
    /\ ~probeDue /\ pc = "persist" /\ reply.kind = "5061" =>
        reply.secs = NotSet \/ reply.secs >= exWait
    /\ ~probeDue /\ pc = "send" /\ IsDecrease => exWait = 0

LEMMA StepClockInv == TypeOK /\ ClockInv /\ [Next]_vars => ClockInv'
<1> SUFFICES ASSUME TypeOK, ClockInv, [Next]_vars PROVE ClockInv'
  OBVIOUS
<1> USE DEF tick, exchange, memory, ledger, history
<1>1. /\ Cooldown \in Nat \ {0}
      /\ exWait \in 0..Cooldown
      /\ decWait \in 0..Cooldown \cup {NotSet}
      /\ stampWait \in 0..Cooldown \cup {NotSet}
  BY ConstantTypes DEF TypeOK, ExchangeType, MemoryType, LedgerType
<1>2. ASSUME UNCHANGED <<exWait, decWait, stampWait, probeDue, recorded>>,
             pc # "persist",
             pc' \notin {"send", "persist"} \/ UNCHANGED <<pc, job>>
      PROVE  ClockInv'
  BY <1>2 DEF ClockInv, EffectiveDecreaseWait, IsDecrease
<1>3. CASE PricedObservation
  <2>1. PICK filled \in BOOLEAN, a \in Anchors, h \in Hashprices :
               ObservePriced(a, h, filled)
    BY <1>3 DEF PricedObservation
  <2>2. /\ UNCHANGED <<exWait, decWait, stampWait, probeDue, recorded>>
        /\ pc = "observe" /\ pc' # "persist"
    BY <2>1 DEF ObservePriced, EndTick
  <2>3. ASSUME pc' = "send", IsDecrease', ~probeDue PROVE exWait = 0
    <3>1. job'.to < job'.from
      BY <2>3 DEF IsDecrease
    <3>2. EffectiveDecreaseWait = 0
      BY <2>1, <2>3, <3>1, JobFacts, ConstantTypes DEF TypeOK, ExchangeType
    <3> QED
      BY <1>1, <2>2, <2>3, <3>2 DEF ClockInv
  <2> QED
    BY <2>2, <2>3 DEF ClockInv, EffectiveDecreaseWait
<1>4. CASE SendApplied
  BY <1>4 DEF SendApplied, Answer, ClockInv
<1>5. CASE SendAppliedUnanswered
  BY <1>5 DEF SendAppliedUnanswered, Answer, ClockInv
<1>6. CASE SendTooSoonToDecrease
  <2>1. PICK secs \in {exWait, NotSet} : Answer("5061", secs)
    BY <1>6 DEF SendTooSoonToDecrease
  <2>2. /\ pc = "send" /\ pc' = "persist" /\ probeDue' = (probeDue /\ ~IsDecrease)
        /\ reply' = [kind |-> "5061", secs |-> secs]
        /\ UNCHANGED <<job, exWait, decWait, stampWait, recorded>>
    BY <1>6, <2>1 DEF SendTooSoonToDecrease, Answer
  <2>3. ~probeDue' => ~probeDue \/ IsDecrease
    BY <2>2
  <2>4. reply'.kind = "5061" /\ reply'.secs = secs
    BY <2>2
  <2>5. reply'.secs = NotSet \/ reply'.secs >= exWait'
    BY <1>1, <2>1, <2>2, <2>4
  <2>6. EffectiveDecreaseWait >= exWait => EffectiveDecreaseWait' >= exWait'
    BY <2>2 DEF EffectiveDecreaseWait
  <2>7. ~probeDue => EffectiveDecreaseWait >= exWait
    BY <2>2 DEF ClockInv
  <2>8. recorded' => stampWait' >= exWait'
    BY <2>2 DEF ClockInv
  <2>9. IsDecrease' = IsDecrease
    BY <2>2 DEF IsDecrease
  <2> QED
    BY <2>2, <2>3, <2>4, <2>5, <2>6, <2>7, <2>8, <2>9 DEF ClockInv
<1>7. CASE SendTooSoonToEdit \/ SendFailed
  <2>1. /\ pc = "send" /\ pc' = "persist" /\ reply'.kind \in {"5110", "error"}
        /\ UNCHANGED <<exWait, decWait, stampWait, probeDue, recorded>>
    BY <1>7 DEF SendTooSoonToEdit, SendFailed, Answer
  <2> QED
    BY <2>1 DEF ClockInv, EffectiveDecreaseWait
<1>8. CASE PersistFailed
  <2>1. /\ reply.kind # "ok" /\ pc' = "idle"
        /\ decWait' = IF reply.kind = "5061" /\ IsDecrease
                        THEN Wait(reply.secs, Cooldown) ELSE decWait
        /\ UNCHANGED <<exWait, stampWait, probeDue, recorded>>
    BY <1>8 DEF PersistFailed, EndTick
  <2>2. ASSUME ~probeDue PROVE EffectiveDecreaseWait' >= exWait
    <3>1. CASE reply.kind = "5061" /\ IsDecrease
      <4>1. decWait' = Wait(reply.secs, Cooldown)
        BY <2>1, <3>1
      <4>2. reply.secs \in Nat \cup {NotSet}
        BY DEF TypeOK, JobType
      <4>3. CASE reply.secs = NotSet
        BY <1>1, <4>1, <4>3 DEF Wait, EffectiveDecreaseWait, NotSet
      <4>4. CASE reply.secs # NotSet /\ reply.secs >= exWait
        BY <1>1, <4>1, <4>2, <4>4 DEF Wait, EffectiveDecreaseWait, NotSet
      <4> QED
        BY <2>2, <3>1, <4>3, <4>4, <1>8 DEF ClockInv, PersistFailed
    <3>2. CASE ~(reply.kind = "5061" /\ IsDecrease)
      BY <2>1, <2>2, <3>2 DEF ClockInv, EffectiveDecreaseWait
    <3> QED
      BY <3>1, <3>2
  <2> QED
    BY <2>1, <2>2 DEF ClockInv
<1>9. CASE PersistExecuted \/ PersistWriteFails
  <2>1. /\ decWait' = Cooldown /\ UNCHANGED exWait /\ pc' = "idle"
        /\ \/ stampWait' = Cooldown \/ ~recorded'
           \/ UNCHANGED <<stampWait, recorded>>
    BY <1>9 DEF PersistExecuted, PersistWriteFails, ArmClocks, EndTick, TypeOK, FlagType
  <2>2. EffectiveDecreaseWait' >= exWait'
    BY <1>1, <2>1 DEF EffectiveDecreaseWait, NotSet
  <2> QED
    BY <1>1, <2>1, <2>2 DEF ClockInv
<1>10. CASE Elapse
  <2>1. /\ exWait' = Shorter(exWait) /\ decWait' = Shorter(decWait)
        /\ stampWait' = Shorter(stampWait)
        /\ UNCHANGED <<pc, job, reply, probeDue, recorded>>
    BY <1>10 DEF Elapse
  <2>2. EffectiveDecreaseWait >= exWait => EffectiveDecreaseWait' >= exWait'
    BY <1>1, <2>1 DEF EffectiveDecreaseWait, Shorter, NotSet
  <2>3. stampWait >= exWait => stampWait' >= exWait'
    BY <1>1, <2>1 DEF Shorter, NotSet
  <2>4. exWait' <= exWait /\ (exWait = 0 => exWait' = 0) /\ exWait' \in Nat
    BY <1>1, <2>1 DEF Shorter
  <2>5. reply.secs \in Int
    BY DEF TypeOK, JobType, NotSet
  <2>6. reply.secs >= exWait => reply.secs >= exWait'
    BY <1>1, <2>4, <2>5
  <2> QED
    BY <2>1, <2>2, <2>3, <2>4, <2>6 DEF ClockInv, IsDecrease
<1>11. ASSUME NEW p \in StartPrices, ManualEdit(p) PROVE ClockInv'
  BY <1>11 DEF ManualEdit, ClockInv
<1>12. CASE Restart
  <2>1. /\ decWait' = NotSet /\ pc' = "idle" /\ probeDue' = (probeDue \/ ~recorded)
        /\ UNCHANGED <<exWait, stampWait, recorded>>
    BY <1>12 DEF Restart, EndTick
  <2>2. ~probeDue' => recorded
    BY <2>1
  <2>3. recorded => stampWait >= exWait
    BY DEF ClockInv
  <2>4. stampWait >= exWait => EffectiveDecreaseWait' >= exWait'
    BY <1>1, <2>1 DEF EffectiveDecreaseWait, NotSet
  <2> QED
    BY <2>1, <2>2, <2>3, <2>4 DEF ClockInv
<1>13. ASSUME NEW m \in Modes, SetMode(m) PROVE ClockInv'
  BY <1>13 DEF SetMode, ClockInv, EffectiveDecreaseWait, IsDecrease
<1>14. CASE UNCHANGED vars
  BY <1>14 DEF vars, ClockInv, EffectiveDecreaseWait, IsDecrease
<1>15. ASSUME StartTick \/ ObserveBlind
              \/ \E filled \in BOOLEAN : ObserveUnpriced(filled)
       PROVE  ClockInv'
  BY <1>2, <1>15 DEF StartTick, ObserveBlind, ObserveUnpriced, EndTick
<1> QED
  BY <1>3, <1>4, <1>5, <1>6, <1>7, <1>8, <1>9, <1>10, <1>11, <1>12, <1>13, <1>14,
     <1>15
     DEF Next, Observe, PricedObservation, Send, Persist

LEMMA ClockInvHolds == Spec => []ClockInv
<1>1. Init => ClockInv
  BY DEF Init, ClockInv
<1> QED
  BY <1>1, TypeCorrect, StepClockInv, PTL DEF Spec

\* The clock the gate will use next is never ahead of the exchange's, and what
\* the ledger recorded survives any restart.
THEOREM ClockTheorem == Spec => []ClockCovers
<1>1. ClockInv => ClockCovers
  BY DEF ClockInv, ClockCovers
<1> QED
  BY <1>1, ClockInvHolds, PTL

\* A decrease is refused for the cooldown only after something the clock could
\* not know of.
THEOREM ProbeTheorem == Spec => OneProbePerDisagreement
<1>1. ASSUME ClockInv, TypeOK, SendTooSoonToDecrease, IsDecrease PROVE probeDue
  BY <1>1 DEF ClockInv, SendTooSoonToDecrease, TypeOK, FlagType
<1>2. ClockInv /\ TypeOK /\ [Next]_vars
        => [SendTooSoonToDecrease /\ IsDecrease => probeDue]_vars
  BY <1>1
<1> QED
  BY <1>2, ClockInvHolds, TypeCorrect, PTL DEF Spec, OneProbePerDisagreement

-----------------------------------------------------------------------------
(* The controller implements PacedBid. *)

\* The raise clock was over when a raise was chosen, and only Persist restarts it.
PaceInv == WalkUp /\ pc = "send" /\ IsRaise => raiseWait = 0

LEMMA StepPaceInv == TypeOK /\ PaceInv /\ [Next]_vars => PaceInv'
<1> SUFFICES ASSUME TypeOK, PaceInv, [Next]_vars PROVE PaceInv'
  OBVIOUS
<1> USE DEF tick, exchange, memory, ledger, history
<1>1. CASE UNCHANGED <<pc, job, raiseWait>>
  BY <1>1 DEF PaceInv, IsRaise
<1>2. CASE pc' # "send"
  BY <1>2 DEF PaceInv
<1>3. CASE PricedObservation
  <2>1. PICK filled \in BOOLEAN, a \in Anchors, h \in Hashprices :
               ObservePriced(a, h, filled)
    BY <1>3 DEF PricedObservation
  <2>2. raiseWait' = raiseWait
    BY <2>1 DEF ObservePriced
  <2>3. ASSUME WalkUp, pc' = "send", IsRaise' PROVE raiseWait = 0
    <3>1. job'.to > job'.from
      BY <2>3 DEF IsRaise
    <3> QED
      BY <2>1, <2>3, <3>1, JobFacts
  <2> QED
    BY <2>2, <2>3 DEF PaceInv
<1>4. CASE Elapse
  <2>1. raiseWait' = Shorter(raiseWait) /\ UNCHANGED <<pc, job>>
    BY <1>4 DEF Elapse
  <2> QED
    BY <2>1 DEF PaceInv, IsRaise, Shorter
<1>5. UNCHANGED <<pc, job, raiseWait>> \/ pc' # "send" \/ PricedObservation \/ Elapse
  BY DEF Next, vars, StartTick, Observe, ObserveBlind, ObserveUnpriced, EndTick,
         Send, SendApplied, SendAppliedUnanswered, SendTooSoonToDecrease,
         SendTooSoonToEdit, SendFailed, Answer,
         Persist, PersistFailed, PersistExecuted, PersistWriteFails, ArmClocks,
         SetMode, ManualEdit, Restart
<1> QED
  BY <1>1, <1>2, <1>3, <1>4, <1>5

\* What the observer of the exchange sees of a step.
Stale == pc = "send" /\ price # job.from

\* An edit that lands on the price it was chosen for moves it one permitted step.
LEMMA FreshEdit ==
    ASSUME WalkUp, DownStep % Grid = 0, TypeOK, JobInv, pc = "send", ~Stale
    PROVE  LET next == decPrice(job.to)
           IN  /\ price \in Int /\ next \in Int
               /\ next # price
               /\ IsRaise => price < next /\ next <= price + EscStep
               /\ ~IsRaise => next < price /\ price - DownStep <= next
<1>1. /\ job.to \in Int /\ job.from \in Int /\ price \in Int /\ price = job.from
      /\ OnGrid(job.from) /\ OnGrid(DownStep)
      /\ Grid \in Nat \ {0} /\ DownStep \in Nat /\ EscStep \in Nat
  BY ConstantTypes DEF TypeOK, JobType, ExchangeType, JobInv, Stale, OnGrid
<1>2. /\ decPrice(job.to) \in Int /\ decPrice(job.to) <= job.to
      /\ job.to < decPrice(job.to) + Grid
  BY <1>1, DecPriceFloors
<1>3. /\ job.to # job.from
      /\ job.to > job.from => job.to >= job.from + Grid
      /\ job.to > job.from => job.to <= job.from + EscStep
      /\ job.to < job.from => job.to >= job.from - DownStep
  BY DEF JobInv
<1>4. OnGrid(job.from - DownStep)
  <2>1. DownStep \in Int
    BY <1>1
  <2> QED
    BY <1>1, <2>1, GridDifference
<1>5. job.from - DownStep <= job.to => job.from - DownStep <= decPrice(job.to)
  BY <1>1, <1>4, DecPriceKeepsGrid
<1> QED
  BY <1>1, <1>2, <1>3, <1>5 DEF IsRaise

LEMMA PacedSend ==
    ASSUME WalkUp, DownStep % Grid = 0, TypeOK, TypeOK', JobInv, PaceInv, Send
    PROVE  [Paced!Next]_(Paced!vars)
<1> USE DEF Paced!vars, tick, exchange, memory, ledger, history
<1>1. /\ pc = "send" /\ pc' = "persist" /\ job' = job /\ raiseWait' = raiseWait
      /\ startAge' = startAge /\ RaiseClock = raiseWait
      /\ upsets' <= upsets
  BY DEF Send, SendApplied, SendAppliedUnanswered, SendTooSoonToDecrease,
         SendTooSoonToEdit, SendFailed, Answer, RaiseClock, TypeOK, HistoryType
<1>2. RaiseClock' \in 0..Interval
  <2>1. raiseWait' \in 0..Interval /\ startAge' \in 0..MaxLatency
    BY DEF TypeOK, MemoryType, TickType
  <2>2. Interval \in Nat /\ startAge' \in Nat
    BY <2>1, ConstantTypes
  <2>3. \A s \in Nat : Greater(0, Interval - s) \in 0..Interval
    BY <2>2 DEF Greater
  <2>4. Greater(0, Interval - startAge') \in 0..Interval
    BY <2>2, <2>3
  <2> QED
    BY <2>1, <2>4 DEF RaiseClock
<1>3. ASSUME Stale PROVE Paced!Overwrite
  <2>1. RaiseClock' <= Interval /\ RaiseClock' >= 0
    BY <1>2, ConstantTypes
  <2> QED
    BY <1>1, <1>3, <2>1 DEF Paced!Overwrite, Stale
<1>4. CASE ~Stale /\ SendApplied
  <2>1. /\ price' = decPrice(job.to) /\ upsets' = upsets
        /\ reply' = [kind |-> "ok", secs |-> NotSet]
    BY <1>4 DEF SendApplied, ApplyEdit, Answer
  <2>2. RaiseClock' = IF IsRaise THEN Greater(0, Interval - startAge) ELSE raiseWait
    BY <1>1, <2>1 DEF RaiseClock, IsRaise
  <2>3. /\ IsRaise => price < price' /\ price' <= price + EscStep
        /\ ~IsRaise => price' < price /\ price - DownStep <= price'
    BY <1>1, <1>4, <2>1, FreshEdit
  <2>4. CASE IsRaise
    <3>1. RaiseClock = 0
      BY <1>1, <2>4 DEF PaceInv
    <3>2. RaiseClock' >= Interval - MaxLatency /\ RaiseClock' <= Interval
      BY <2>2, <2>4, ConstantTypes DEF TypeOK, TickType, Greater
    <3> QED
      BY <1>1, <1>4, <2>1, <2>3, <2>4, <3>1, <3>2 DEF Paced!Next, Paced!Raise, Stale
  <2>5. CASE ~IsRaise
    BY <1>1, <1>4, <2>1, <2>2, <2>3, <2>5 DEF Paced!Next, Paced!Lower, Stale
  <2> QED
    BY <2>4, <2>5
<1>5. CASE ~Stale /\ SendAppliedUnanswered
  <2>1. /\ price' = decPrice(job.to) /\ upsets > 0 /\ upsets' = upsets - 1
        /\ reply' = [kind |-> "error", secs |-> NotSet]
    BY <1>5 DEF SendAppliedUnanswered, ApplyEdit, Answer
  <2>2. RaiseClock' = raiseWait
    BY <1>1, <2>1 DEF RaiseClock, IsRaise
  <2>3. /\ IsRaise => price < price' /\ price' <= price + EscStep
        /\ ~IsRaise => price' < price /\ price - DownStep <= price'
    BY <1>1, <1>5, <2>1, FreshEdit
  <2>4. CASE IsRaise
    <3>1. RaiseClock = 0
      BY <1>1, <2>4 DEF PaceInv
    <3> QED
      BY <1>1, <1>5, <2>1, <2>2, <2>3, <2>4, <3>1
         DEF Paced!Next, Paced!Raise, Paced!UseUpset, Stale
  <2>5. CASE ~IsRaise
    BY <1>1, <1>5, <2>1, <2>2, <2>3, <2>5
       DEF Paced!Next, Paced!Lower, Paced!UseUpset, Stale
  <2> QED
    BY <2>4, <2>5
<1>6. CASE ~Stale /\ (SendTooSoonToDecrease \/ SendTooSoonToEdit \/ SendFailed)
  <2>1. price' = price /\ upsets' = upsets /\ reply'.kind # "ok"
    BY <1>6 DEF SendTooSoonToDecrease, SendTooSoonToEdit, SendFailed, Answer
  <2>2. RaiseClock' = RaiseClock
    BY <1>1, <2>1 DEF RaiseClock
  <2> QED
    BY <1>1, <1>6, <2>1, <2>2 DEF Stale
<1> QED
  BY <1>3, <1>4, <1>5, <1>6 DEF Send, Paced!Next

LEMMA PacedElapse ==
    ASSUME TypeOK, Elapse
    PROVE  [Paced!Pass]_(Paced!vars)
<1>1. /\ startAge' = IF pc = "idle" THEN 0 ELSE startAge + 1
      /\ raiseWait' = Shorter(raiseWait)
      /\ UNCHANGED <<price, pc, job, reply, upsets>>
  BY DEF Elapse
<1>2. /\ raiseWait \in Nat /\ startAge \in Nat /\ Interval \in Nat
  BY ConstantTypes DEF TypeOK, MemoryType, TickType
<1>3. RaiseClock' = IF RaiseClock > 0 THEN RaiseClock - 1 ELSE RaiseClock
  BY <1>1, <1>2 DEF RaiseClock, IsRaise, Shorter, Greater
<1> QED
  BY <1>1, <1>3 DEF Paced!Pass, Paced!vars

LEMMA PacedStep ==
    ASSUME WalkUp, DownStep % Grid = 0, TypeOK, TypeOK', JobInv, PaceInv, [Next]_vars
    PROVE  [Paced!Next]_(Paced!vars)
<1> USE DEF Paced!vars, tick, exchange, memory, ledger, history
<1>1. CASE StartTick \/ ObserveBlind \/ \E filled \in BOOLEAN : ObserveUnpriced(filled)
  <2>1. pc \in {"idle", "observe"} /\ pc' \in {"idle", "observe"}
        /\ UNCHANGED <<price, raiseWait, upsets>>
    BY <1>1 DEF StartTick, ObserveBlind, ObserveUnpriced, EndTick
  <2> QED
    BY <2>1 DEF RaiseClock
<1>2. CASE PricedObservation
  <2>1. PICK filled \in BOOLEAN, a \in Anchors, h \in Hashprices :
               ObservePriced(a, h, filled)
    BY <1>2 DEF PricedObservation
  <2>2. /\ pc = "observe" /\ pc' # "persist"
        /\ UNCHANGED <<price, raiseWait, upsets>>
    BY <2>1 DEF ObservePriced, EndTick
  <2>3. pc' = "send" => job'.from = price
    BY <2>1, JobFacts
  <2> QED
    BY <2>2, <2>3 DEF RaiseClock
<1>3. CASE Send
  BY <1>3, PacedSend
<1>4. CASE PersistFailed
  <2>1. /\ pc = "persist" /\ reply.kind # "ok" /\ pc' = "idle"
        /\ UNCHANGED <<price, raiseWait, upsets>>
    BY <1>4 DEF PersistFailed, EndTick
  <2> QED
    BY <2>1 DEF RaiseClock
<1>5. CASE PersistExecuted \/ PersistWriteFails
  <2>1. /\ pc = "persist" /\ reply.kind = "ok" /\ pc' = "idle"
        /\ raiseWait' = IF IsRaise THEN Greater(0, Interval - startAge) ELSE raiseWait
        /\ UNCHANGED <<price, upsets>>
    BY <1>5 DEF PersistExecuted, PersistWriteFails, ArmClocks, EndTick
  <2> QED
    BY <2>1 DEF RaiseClock
<1>6. CASE Elapse
  BY <1>6, PacedElapse DEF Paced!Next
<1>7. ASSUME NEW m \in Modes, SetMode(m) PROVE Paced!Spend
  BY <1>7 DEF SetMode, Upset, Paced!Spend, Paced!UseUpset, RaiseClock, IsRaise
<1>8. ASSUME NEW p \in StartPrices, ManualEdit(p) PROVE Paced!Intrude
  BY <1>8 DEF ManualEdit, Upset, Paced!Intrude, Paced!UseUpset, RaiseClock, IsRaise
<1>9. CASE Restart
  BY <1>9 DEF Restart, Upset, EndTick, Paced!Next, Paced!Forget, Paced!UseUpset, RaiseClock
<1>10. CASE UNCHANGED vars
  BY <1>10 DEF vars, RaiseClock, IsRaise
<1> QED
  BY <1>1, <1>2, <1>3, <1>4, <1>5, <1>6, <1>7, <1>8, <1>9, <1>10
     DEF Next, Observe, Persist, Paced!Next

\* decide.ts: with walk-up on every raise is slew-limited to one escalation step
\* and rate-limited to one per escalation interval, and a restart forgives at
\* most one immediate raise: whatever the market, the answers and the
\* interleaving, the order's price moves only as PacedBid allows.  The exchange's
\* decrease limit is a whole number of grid steps.
THEOREM PacedTheorem ==
    ASSUME WalkUp, DownStep % Grid = 0
    PROVE  Spec => RaisesArePaced
<1>1. Init => Paced!Init
  BY ControlAssumption DEF Init, Paced!Init, RaiseClock
<1>2. Init => PaceInv
  BY DEF Init, PaceInv
<1>3. TypeOK /\ TypeOK' /\ JobInv /\ PaceInv /\ [Next]_vars => [Paced!Next]_(Paced!vars)
  BY PacedStep
<1> QED
  BY <1>1, <1>2, <1>3, TypeCorrect, JobInvHolds, StepPaceInv, PTL
     DEF Spec, RaisesArePaced, Paced!Spec

-----------------------------------------------------------------------------
(* Lemmas about prices and about the floor of one book. *)

\* The cheapest price of a set is in it and below the others.
LEMMA LeastIs ==
    ASSUME NEW S \in SUBSET Nat, S # {}
    PROVE  Least(S) \in S /\ \A y \in S : Least(S) <= y
BY LeastNumber DEF Least

\* The dearest price of a finite set is in it and above the others.
LEMMA GreatestIs ==
    ASSUME NEW S \in SUBSET Nat, IsFiniteSet(S), S # {}
    PROVE  Greatest(S) \in S /\ \A y \in S : Greatest(S) >= y
<1> DEFINE n == Cardinality(S)
           s == InOrder(S)
<1>1. n \in Nat /\ s \in Bijection(1..n, S) /\ Sorts(s, S)
  BY InOrderSorts
<1>2. n # 0
  BY FS_EmptySet
<1>3. n \in 1..n /\ s[n] \in S
  BY <1>1, <1>2 DEF Bijection, Injection
<1>4. \A y \in S : s[n] >= y
  <2> TAKE y \in S
  <2>1. PICK i \in 1..n : s[i] = y
    BY <1>1 DEF Bijection, Surjection
  <2>2. i < n => s[i] < s[n]
    BY <1>1, <1>3 DEF Sorts
  <2>3. s[i] \in Nat /\ s[n] \in Nat
    BY <2>1, <1>3
  <2> HIDE DEF n, s
  <2> QED BY <2>1, <2>2, <2>3, <1>1
<1> QED
  BY <1>3, <1>4 DEF Greatest

\* The greater of two numbers.
LEMMA GreatestOfTwo ==
    ASSUME NEW x \in Int, NEW y \in Int
    PROVE  Greatest({x, y}) = IF x >= y THEN x ELSE y
BY DEF Greatest

\* The prices of some orders are finitely many positive numbers.
LEMMA PricesAre ==
    ASSUME NEW rows \in SUBSET Rows
    PROVE  /\ Prices(rows) \in SUBSET (Nat \ {0}) /\ Prices(rows) \in SUBSET Nat
           /\ IsFiniteSet(Prices(rows))
           /\ rows # {} => Prices(rows) # {}
<1>1. Prices(rows) \in SUBSET (Nat \ {0}) /\ (rows # {} => Prices(rows) # {})
  BY BookAssumption DEF Prices
<1>2. IsFiniteSet(rows)
  BY BookAssumption, FS_Subset
<1> DEFINE f == [r \in rows |-> PriceOf[r]]
<1>3. f \in Surjection(rows, Prices(rows))
  BY DEF Surjection, Prices
<1>4. IsFiniteSet(Prices(rows))
  BY <1>2, <1>3, FS_Surjection
<1> QED
  BY <1>1, <1>4

\* What the floor of a book is, told without the scan: the price of a row the scan
\* takes for filled, with nothing between it and the dearest such row that is not
\* filled or looked through, and every cheaper filled row behind such a breaker.
IsFloor(F, b, filled, through) ==
    LET breakers == (DOMAIN b \ Dust) \ through
        top == Greatest(Prices(filled))
    IN  /\ F \in Prices(filled)
        /\ F < top => Prices(breakers) \cap (F..top) = {}
        /\ \A r \in filled : PriceOf[r] < F => Prices(breakers) \cap (PriceOf[r]..top) # {}

\* The scan finds that floor.
LEMMA FloorIs ==
    ASSUME NEW b, DOMAIN b \in SUBSET Rows, NEW uZero, NEW uNonzero
    PROVE  LET filled == ScanFilled(b, uNonzero)
           IN  IF filled = {} THEN Floor(b, uZero, uNonzero) = None
               ELSE IsFloor(Floor(b, uZero, uNonzero), b, filled,
                            filled \cup Transparent(b, uZero))
<1> DEFINE filled == ScanFilled(b, uNonzero)
           through == filled \cup Transparent(b, uZero)
           rows == DOMAIN b \ Dust
           top == Greatest(Prices(filled))
           rb == RunBottom(top, rows, through)
           cand == {p \in Prices(Filled(b) \ Dust) : p >= rb}
           F == Floor(b, uZero, uNonzero)
           At(p) == {r \in rows : PriceOf[r] = p}
           reached == {p \in Prices(rows) :
                          \A q \in Prices(rows) : p <= q /\ q <= top => Clear(At(q), through)}
<1>1. CASE filled = {}
  BY <1>1 DEF Floor
<1>2. CASE filled # {}
  <2>1. F = Least(cand)
    BY <1>2 DEF Floor
  <2>2. filled \in SUBSET rows /\ filled \in SUBSET Rows /\ rows \in SUBSET Rows
        /\ filled \subseteq Filled(b) \ Dust /\ Filled(b) \ Dust \in SUBSET rows
        /\ Filled(b) \ Dust \in SUBSET Rows
    BY DEF ScanFilled, Filled, ByRigs
  <2>3. top \in Prices(filled) /\ top \in Nat /\ (\A y \in Prices(filled) : y <= top)
    <3> HIDE DEF filled
    <3>1. Prices(filled) \in SUBSET Nat /\ IsFiniteSet(Prices(filled)) /\ Prices(filled) # {}
      BY <2>2, <1>2, PricesAre
    <3>2. Greatest(Prices(filled)) \in Prices(filled)
          /\ \A y \in Prices(filled) : Greatest(Prices(filled)) >= y
      BY <3>1, GreatestIs
    <3> QED BY <3>1, <3>2
  <2> DEFINE low == {top} \cup {p \in reached : p < top}
  <2>4. rb = Least(low)
    BY DEF RunBottom
  <2>5. Prices(rows) \in SUBSET Nat
    BY <2>2, PricesAre
  <2>6. rb \in low /\ rb \in Nat /\ \A p \in low : rb <= p
    <3>1. low \in SUBSET Nat /\ low # {}
      BY <2>3, <2>5
    <3> HIDE DEF low, rb
    <3>2. Least(low) \in low /\ \A p \in low : Least(low) <= p
      BY <3>1, LeastIs
    <3> QED BY <3>1, <3>2, <2>4
  <2>7. Prices(Filled(b) \ Dust) \in SUBSET Nat
    BY <2>2, PricesAre
  <2>8. top \in cand
    <3>1. rb <= top
      BY <2>6
    <3>2. top \in Prices(Filled(b) \ Dust)
      BY <2>2, <2>3 DEF Prices
    <3> HIDE DEF rb, top
    <3> QED BY <3>1, <3>2, <2>3, <2>6
  <2>9. F \in cand /\ F \in Nat /\ \A p \in cand : F <= p
    <3>1. cand \in SUBSET Nat /\ cand # {}
      BY <2>7, <2>8
    <3> HIDE DEF cand, F
    <3>2. Least(cand) \in cand /\ \A p \in cand : Least(cand) <= p
      BY <3>1, LeastIs
    <3> QED BY <3>1, <3>2, <2>1
  <2>10. rb <= F /\ F <= top
    BY <2>8, <2>9
  \* Below the top every level of the run is filled or looked through.
  <2>11. F < top => \A r \in rows : F <= PriceOf[r] /\ PriceOf[r] <= top => r \in through
    <3> SUFFICES ASSUME F < top, NEW r \in rows, F <= PriceOf[r], PriceOf[r] <= top
                 PROVE  r \in through
      OBVIOUS
    <3>1. PriceOf[r] \in Prices(rows) /\ r \in At(PriceOf[r]) /\ PriceOf[r] \in Nat
      BY <2>5 DEF Prices
    <3>2. rb \in reached
      <4>1. rb # top
        BY <2>3, <2>6, <2>9, <2>10
      <4> QED BY <4>1, <2>6
    <3>3. rb <= PriceOf[r]
      <4> HIDE DEF rb, F, top
      <4> QED BY <2>6, <2>9, <2>10, <3>1
    <3>4. Clear(At(PriceOf[r]), through)
      BY <3>1, <3>2, <3>3
    <3> QED BY <3>1, <3>4 DEF Clear
  <2>12. F \in Prices(filled)
    <3>1. CASE F = top
      BY <3>1, <2>3
    <3>2. CASE F # top
      <4>1. PICK r \in Filled(b) \ Dust : PriceOf[r] = F
        BY <2>9 DEF Prices
      <4>2. F < top
        <5> HIDE DEF F, top
        <5> QED BY <3>2, <2>3, <2>9, <2>10
      <4>3. r \in through
        <5>1. r \in rows /\ F <= PriceOf[r] /\ PriceOf[r] <= top
          BY <4>1, <2>2, <2>9, <2>10
        <5> QED BY <5>1, <4>2, <2>11
      <4>4. r \in filled
        BY <4>1, <4>3 DEF Transparent, Filled
      <4> QED BY <4>1, <4>4 DEF Prices
    <3> QED BY <3>1, <3>2
  <2> DEFINE breakers == rows \ through
  <2>13. F < top => Prices(breakers) \cap (F..top) = {}
    <3> SUFFICES ASSUME F < top, NEW r \in breakers, PriceOf[r] \in F..top PROVE FALSE
      BY DEF Prices
    <3>1. F <= PriceOf[r] /\ PriceOf[r] <= top
      BY <2>3, <2>9
    <3> QED BY <3>1, <2>11
  <2>14. ASSUME NEW r \in filled, PriceOf[r] < F
         PROVE  Prices(breakers) \cap (PriceOf[r]..top) # {}
    <3> SUFFICES ASSUME \A x \in breakers : PriceOf[x] \notin PriceOf[r]..top PROVE FALSE
      BY DEF Prices
    <3>1. PriceOf[r] \in Prices(rows) /\ PriceOf[r] \in Prices(Filled(b) \ Dust)
          /\ PriceOf[r] \in Nat
      BY <2>2, <2>5 DEF Prices
    <3>2. PriceOf[r] < top
      <4> HIDE DEF F, top
      <4> QED BY <2>3, <2>9, <2>10, <2>14, <3>1
    <3>3. ASSUME NEW q \in Prices(rows), PriceOf[r] <= q, q <= top
          PROVE  Clear(At(q), through)
      <4> SUFFICES ASSUME NEW x \in rows, PriceOf[x] = q PROVE x \in through
        BY DEF Clear
      <4>1. q \in PriceOf[r]..top
        BY <2>3, <2>5, <3>1, <3>3
      <4> QED BY <4>1
    <3>4. PriceOf[r] \in reached
      BY <3>1, <3>3
    <3>5. rb <= PriceOf[r]
      BY <3>2, <3>4, <2>6
    <3>6. F <= PriceOf[r]
      <4>1. PriceOf[r] \in cand
        <5> HIDE DEF rb
        <5> QED BY <3>1, <3>5, <2>6
      <4> QED BY <4>1, <2>9
    <3> HIDE DEF F
    <3> QED BY <3>1, <3>6, <2>9, <2>14
  <2> QED
    BY <1>2, <2>12, <2>13, <2>14 DEF IsFloor
<1> QED
  BY <1>1, <1>2

\* Floors and marginals are prices of the book, or none.
LEMMA FloorTypes ==
    ASSUME NEW b, DOMAIN b \in SUBSET Rows, NEW uZero, NEW uNonzero
    PROVE  Floor(b, uZero, uNonzero) \in Levels /\ Marginal(b) \in Levels
<1> DEFINE filled == ScanFilled(b, uNonzero)
<1>1. filled \in SUBSET Rows /\ Filled(b) \in SUBSET Rows
  BY DEF ScanFilled, Filled, ByRigs
<1>2. Floor(b, uZero, uNonzero) \in Levels
  <2>1. filled # {} => Floor(b, uZero, uNonzero) \in Prices(filled)
    BY FloorIs DEF IsFloor
  <2>2. filled = {} => Floor(b, uZero, uNonzero) = None
    BY FloorIs
  <2> QED BY <1>1, <2>1, <2>2 DEF Levels, Prices
<1>3. Marginal(b) \in Levels
  <2> DEFINE rows == IF Filled(b) # {} THEN Filled(b) ELSE DOMAIN b
  <2>1. DOMAIN b # {} => Marginal(b) = Least(Prices(rows))
    BY DEF Marginal
  <2>2. rows \in SUBSET Rows /\ (DOMAIN b # {} => rows # {})
    BY <1>1
  <2>3. Prices(rows) \in SUBSET Nat /\ (DOMAIN b # {} => Prices(rows) # {})
    <3> HIDE DEF rows
    <3> QED BY <2>2, PricesAre
  <2>4. DOMAIN b # {} => Least(Prices(rows)) \in Prices(rows)
    <3> HIDE DEF rows
    <3> QED BY <2>3, LeastIs
  <2> QED BY <2>1, <2>2, <2>4 DEF Levels, Prices, Marginal
<1> QED
  BY <1>2, <1>3

\* No price is below the null.
LEMMA LevelsAreInts == Levels \in SUBSET Int /\ (\A x \in Levels : x >= None)
<1>1. Prices(Rows) \in SUBSET Nat
  BY PricesAre
<1> QED BY <1>1 DEF Levels, None

\* A book lists competing orders.
LEMMA BooksAre ==
    ASSUME NEW b \in Books \cup {EmptyBook} PROVE DOMAIN b \in SUBSET Rows
BY DEF Books, EmptyBook

\* What one read does to the counters of a row.
LEMMA RowRead ==
    ASSUME NEW s \in RowDebounce \cup {Untracked}, NEW reading, primed \in BOOLEAN
    PROVE  LET n == AfterRead(s, reading)
           IN  /\ n \in RowDebounce \cup {Untracked}
               /\ reading = "rigs" /\ n # Untracked =>
                      /\ s \in RowDebounce /\ s.zero = ConfirmReads
                      /\ n.zero = ConfirmReads /\ n.nonzero = s.nonzero + 1
               /\ reading # "rigs" =>
                      /\ n # Untracked /\ n.nonzero = 0
                      /\ n.zero = ConfirmReads \/ n.zero = s.zero + 1
                      /\ s = Untracked /\ ~primed => n.zero = ConfirmReads
<1> DEFINE n == AfterRead(s, reading)
<1>1. ConfirmReads \in Nat \ {0}
  BY SmoothingAssumption
<1>2. s.zero \in 0..ConfirmReads /\ s.nonzero \in 0..(ConfirmReads - 1)
      /\ (s = Untracked => s.zero = 0 /\ s.nonzero = 0)
      /\ (s \in RowDebounce => s = [zero |-> s.zero, nonzero |-> s.nonzero])
  BY <1>1 DEF RowDebounce, Untracked
<1>3. ASSUME reading = "rigs", n # Untracked
      PROVE  /\ s \in RowDebounce /\ s.zero = ConfirmReads
             /\ n.zero = ConfirmReads /\ n.nonzero = s.nonzero + 1 /\ n \in RowDebounce
  <2>1. ~(s.zero < ConfirmReads) /\ ~(s.nonzero + 1 >= ConfirmReads)
        /\ n = [s EXCEPT !.nonzero = s.nonzero + 1]
    BY <1>3 DEF AfterRead
  <2>2. s.zero = ConfirmReads /\ s.nonzero + 1 \in 0..(ConfirmReads - 1)
    BY <1>1, <1>2, <2>1
  <2>3. s \in RowDebounce
    BY <1>1, <1>2, <2>2
  <2> QED
    BY <2>1, <2>2, <2>3 DEF RowDebounce
<1>4. ASSUME reading # "rigs"
      PROVE  /\ n \in RowDebounce /\ n # Untracked /\ n.nonzero = 0
             /\ n.zero = ConfirmReads \/ n.zero = s.zero + 1
             /\ s = Untracked /\ ~primed => n.zero = ConfirmReads
  <2> DEFINE z == IF (s = Untracked /\ ~primed) \/ s.zero + 1 > ConfirmReads
                  THEN ConfirmReads ELSE s.zero + 1
  <2>1. n = [zero |-> z, nonzero |-> 0]
    BY <1>4 DEF AfterRead
  <2>2. z \in 1..ConfirmReads /\ (z = ConfirmReads \/ z = s.zero + 1)
        /\ (s = Untracked /\ ~primed => z = ConfirmReads)
    BY <1>1, <1>2
  <2>3. 0 \in 0..(ConfirmReads - 1)
    BY <1>1
  <2> HIDE DEF z, n
  <2>4. n \in RowDebounce /\ n.zero = z /\ n.nonzero = 0
    BY <2>1, <2>2, <2>3 DEF RowDebounce
  <2>5. n # Untracked
    <3>1. n.zero >= 1
      BY <2>2, <2>4, <1>1
    <3> QED BY <3>1 DEF Untracked
  <2> QED BY <2>2, <2>4, <2>5
<1>5. n \in RowDebounce \cup {Untracked}
  BY <1>3, <1>4
<1> QED
  BY <1>3, <1>4, <1>5

\* The entries a read leaves.
LEMMA StreaksAre ==
    ASSUME SmoothTypeOK, NEW b \in Books
    PROVE  LET s == StreaksAfter(b)
           IN  /\ DOMAIN s \in SUBSET (DOMAIN b \ Dust) /\ DOMAIN s \in SUBSET Rows
               /\ \A r \in DOMAIN s : s[r] \in RowDebounce /\ s[r] = AfterRead(Streak(r), b[r])
               /\ \A r \in DOMAIN b \ Dust :
                      /\ Streak(r) \in RowDebounce \cup {Untracked}
                      /\ r \in DOMAIN s <=> AfterRead(Streak(r), b[r]) # Untracked
<1> DEFINE s == StreaksAfter(b)
<1>1. \A r : Streak(r) \in RowDebounce \cup {Untracked}
  BY DEF Streak, SmoothTypeOK
<1>2. primed \in BOOLEAN
  BY DEF SmoothTypeOK
<1>3. \A r : AfterRead(Streak(r), b[r]) \in RowDebounce \cup {Untracked}
  BY <1>1, <1>2, RowRead
<1>4. DOMAIN s = {x \in DOMAIN b \ Dust : AfterRead(Streak(x), b[x]) # Untracked}
      /\ \A r \in DOMAIN s : s[r] = AfterRead(Streak(r), b[r])
  BY DEF StreaksAfter
<1>5. DOMAIN b \in SUBSET Rows
  BY BooksAre
<1> QED
  <2>1. \A r \in DOMAIN b \ Dust : r \in DOMAIN s <=> AfterRead(Streak(r), b[r]) # Untracked
    BY <1>4
  <2>2. DOMAIN s \in SUBSET (DOMAIN b \ Dust)
    BY <1>4
  <2>3. \A r \in DOMAIN s : s[r] \in RowDebounce
    BY <1>3, <1>4, <2>1, <2>2
  <2> QED BY <1>1, <1>4, <1>5, <2>1, <2>2, <2>3

\* The hysteresis: what it accepts is the floor of this read when that is no rise,
\* and otherwise either what it had or a candidate this read reaches too.
LEMMA HysteresisIs ==
    ASSUME SmoothTypeOK, NEW raw \in Levels
    PROVE  LET next == applyTierHysteresis(raw)
           IN  /\ next \in [accepted : Levels, pending : Levels, count : 0..(ConfirmTicks - 1)]
               /\ \/ (~primed \/ ~IsUp(raw)) /\ next = NoCandidate(raw)
                  \/ /\ IsUp(raw) /\ primed /\ hyst.pending # None /\ raw >= hyst.pending
                     /\ hyst.count + 1 >= ConfirmTicks /\ next = NoCandidate(hyst.pending)
                  \/ /\ IsUp(raw) /\ primed /\ hyst.pending # None /\ raw >= hyst.pending
                     /\ hyst.count + 1 < ConfirmTicks
                     /\ next.accepted = hyst.accepted /\ next.pending = hyst.pending
                     /\ next.count = hyst.count + 1
                  \/ /\ IsUp(raw) /\ primed /\ ~(hyst.pending # None /\ raw >= hyst.pending)
                     /\ next.accepted = hyst.accepted /\ next.pending = raw /\ next.count = 1
<1> DEFINE next == applyTierHysteresis(raw)
           HT == [accepted : Levels, pending : Levels, count : 0..(ConfirmTicks - 1)]
<1>1. ConfirmTicks \in Nat \ {0, 1} /\ hyst \in HT /\ primed \in BOOLEAN
  BY SmoothingAssumption DEF SmoothTypeOK
<1>2. hyst.accepted \in Levels /\ hyst.pending \in Levels /\ hyst.count \in 0..(ConfirmTicks - 1)
  BY <1>1
<1>3. raw \in Int /\ hyst.pending \in Int /\ hyst.count \in Nat /\ hyst.accepted \in Int
  <2>1. hyst.count \in Nat
    BY <1>1, <1>2
  <2> QED BY <1>2, <2>1, LevelsAreInts
<1>4. None \in Levels /\ 0 \in 0..(ConfirmTicks - 1) /\ 1 \in 0..(ConfirmTicks - 1)
  BY <1>1 DEF Levels
<1>5. \A l \in Levels : NoCandidate(l) \in HT
  BY <1>4 DEF NoCandidate
<1>6. CASE ~primed \/ ~IsUp(raw)
  <2>1. next = NoCandidate(raw)
    BY <1>6 DEF applyTierHysteresis
  <2> QED BY <1>6, <2>1, <1>5
<1>7. CASE primed /\ IsUp(raw) /\ hyst.pending # None /\ raw >= hyst.pending
  <2>1. CASE hyst.count + 1 >= ConfirmTicks
    <3>1. next = NoCandidate(hyst.pending)
      BY <1>7, <2>1 DEF applyTierHysteresis
    <3> QED BY <1>7, <2>1, <3>1, <1>5, <1>2
  <2>2. CASE ~(hyst.count + 1 >= ConfirmTicks)
    <3>1. next = [hyst EXCEPT !.count = hyst.count + 1]
      BY <1>7, <2>2 DEF applyTierHysteresis
    <3>2. hyst.count + 1 \in 0..(ConfirmTicks - 1) /\ hyst.count + 1 < ConfirmTicks
      BY <1>1, <1>2, <2>2
    <3>3. next \in HT /\ next.accepted = hyst.accepted /\ next.pending = hyst.pending
          /\ next.count = hyst.count + 1
      BY <1>1, <3>1, <3>2
    <3> QED BY <1>7, <2>2, <3>2, <3>3
  <2> QED BY <2>1, <2>2
<1>8. CASE primed /\ IsUp(raw) /\ ~(hyst.pending # None /\ raw >= hyst.pending)
  <2>1. next = [hyst EXCEPT !.pending = raw, !.count = 1]
    BY <1>8 DEF applyTierHysteresis
  <2>2. next \in HT /\ next.accepted = hyst.accepted /\ next.pending = raw /\ next.count = 1
    BY <1>1, <1>4, <2>1
  <2> QED BY <1>8, <2>2
<1> QED
  BY <1>6, <1>7, <1>8, <1>1

-----------------------------------------------------------------------------
(* The inductive invariant of the smoothing. *)

\* Before the first book of a process nothing is remembered.
ColdInv == ~primed => Cold /\ book = EmptyBook /\ same = 0

\* After n equal reads of book b the counters s have counted all of them, unless
\* they are through.
Debounced(b, s, n) ==
    /\ DOMAIN s \subseteq DOMAIN b \ Dust
    /\ \A r \in DOMAIN b \ Dust :
           IF b[r] = "rigs" THEN r \in DOMAIN s => s[r].nonzero >= n
           ELSE /\ r \in DOMAIN s
                /\ s[r].zero = ConfirmReads \/ s[r].zero >= n

\* What is accepted is never above the floor just read, a frozen read aside.
AcceptedInv == ~frozen => hyst.accepted <= RawFloor

\* The last read that counted reached the candidate.
CandidateInv == hyst.pending # None => hyst.pending <= lastRaw /\ hyst.count >= 1

\* decide() has the floor and the marginal of the last book, or nothing.
ExposedInv ==
    HasMarket => /\ market.marginal = Marginal(book)
                 /\ market.floor = Exposed(hyst.accepted, RawFloor, market.marginal)

\* How many more equal reads the hysteresis needs at most, once every row is
\* confirmed: a candidate below the floor must be confirmed first, then the floor.
SettlingInv ==
    LET F == StrictFloor(book)
        left == ConfirmReads + 2 * ConfirmTicks - 2 - same
    IN  same >= ConfirmReads =>
            \/ hyst = NoCandidate(F)
            \/ hyst.pending = None /\ left >= ConfirmTicks
            \/ hyst.pending = F /\ left >= ConfirmTicks - hyst.count
            \/ hyst.pending # None /\ hyst.pending < F /\ left >= 2 * ConfirmTicks - hyst.count

SmoothInv ==
    /\ SmoothTypeOK /\ ColdInv /\ Debounced(book, streaks, same) /\ AcceptedInv
    /\ CandidateInv /\ ExposedInv /\ SettlingInv

\* After enough equal reads no row is under way.
LEMMA ConfirmedRows ==
    ASSUME NEW b, NEW s, NEW n \in Int, Debounced(b, s, n), n >= ConfirmReads,
           \A r \in DOMAIN s : s[r] \in RowDebounce
    PROVE  UnconfirmedZeros(b, s) = {} /\ UnconfirmedNonzeros(b, s) = {}
<1>1. ConfirmReads \in Nat \ {0}
  BY SmoothingAssumption
<1>2. ASSUME NEW r \in DOMAIN s, b[r] # "rigs" PROVE ~(s[r].zero < ConfirmReads)
  BY <1>1, <1>2 DEF Debounced, RowDebounce
<1>3. ASSUME NEW r \in DOMAIN s PROVE b[r] # "rigs"
  <2>1. s[r].nonzero < n
    BY <1>1 DEF RowDebounce
  <2>2. s[r].nonzero \in Nat
    BY <1>1 DEF RowDebounce
  <2> QED BY <2>1, <2>2 DEF Debounced
<1> QED
  BY <1>2, <1>3 DEF UnconfirmedZeros, UnconfirmedNonzeros

\* A read leaves every row counted.
LEMMA ReadDebounces ==
    ASSUME SmoothTypeOK, ColdInv, Debounced(book, streaks, same), NEW b \in Books,
           NEW n \in Nat, n = 1 \/ (primed /\ b = book /\ n <= same + 1)
    PROVE  Debounced(b, StreaksAfter(b), n)
<1> DEFINE s == StreaksAfter(b)
<1>1. /\ DOMAIN s \in SUBSET (DOMAIN b \ Dust)
      /\ \A r \in DOMAIN s : s[r] \in RowDebounce /\ s[r] = AfterRead(Streak(r), b[r])
      /\ \A r \in DOMAIN b \ Dust :
             /\ Streak(r) \in RowDebounce \cup {Untracked}
             /\ r \in DOMAIN s <=> AfterRead(Streak(r), b[r]) # Untracked
  BY StreaksAre
<1>2. ConfirmReads \in Nat \ {0} /\ same \in Nat /\ primed \in BOOLEAN
  BY SmoothingAssumption DEF SmoothTypeOK
<1> SUFFICES ASSUME NEW r \in DOMAIN b \ Dust
             PROVE  IF b[r] = "rigs" THEN r \in DOMAIN s => s[r].nonzero >= n
                    ELSE /\ r \in DOMAIN s
                         /\ s[r].zero = ConfirmReads \/ s[r].zero >= n
  BY <1>1 DEF Debounced
<1> DEFINE o == Streak(r)
           a == AfterRead(o, b[r])
<1>3. o \in RowDebounce \cup {Untracked} /\ (r \in DOMAIN s <=> a # Untracked)
      /\ (r \in DOMAIN s => s[r] = a)
  BY <1>1
<1>4. o.zero \in Nat /\ o.nonzero \in Nat /\ (o \in RowDebounce => o.zero >= 1)
  BY <1>2, <1>3 DEF RowDebounce, Untracked
<1>5. o # Untracked => r \in DOMAIN streaks /\ o = streaks[r]
  BY DEF Streak
<1>6. CASE b[r] = "rigs"
  <2> SUFFICES ASSUME r \in DOMAIN s PROVE s[r].nonzero >= n
    BY <1>6
  <2>1. s[r] = a /\ o \in RowDebounce /\ a.nonzero = o.nonzero + 1
    BY <1>2, <1>3, <1>6, RowRead
  <2>2. o # Untracked
    BY <1>2, <2>1 DEF RowDebounce, Untracked
  <2>3. CASE n = 1
    BY <1>4, <2>1, <2>3
  <2>4. CASE b = book /\ n <= same + 1
    <3>1. o.nonzero >= same
      BY <2>4, <2>2, <1>5, <1>6 DEF Debounced
    <3> QED BY <3>1, <2>1, <2>4, <1>2, <1>4
  <2> QED BY <2>3, <2>4
<1>7. CASE b[r] # "rigs"
  <2>1. a # Untracked /\ (a.zero = ConfirmReads \/ a.zero = o.zero + 1)
        /\ (a \in RowDebounce \cup {Untracked})
    BY <1>2, <1>3, <1>7, RowRead
  <2>2. r \in DOMAIN s /\ s[r] = a
    BY <2>1, <1>3
  <2> SUFFICES ASSUME a.zero # ConfirmReads PROVE a.zero >= n
    BY <1>7, <2>2
  <2>5. a.zero = o.zero + 1
    BY <2>1
  <2>3. CASE n = 1
    BY <1>4, <2>5, <2>3
  <2>4. CASE b = book /\ n <= same + 1
    <3>1. r \in DOMAIN streaks /\ (o.zero = ConfirmReads \/ o.zero >= same)
      BY <2>4, <1>7 DEF Debounced, Streak
    <3>2. CASE o.zero >= same
      BY <3>2, <2>4, <2>5, <1>2, <1>4
    <3>3. CASE o.zero = ConfirmReads
      <4>1. a.zero <= ConfirmReads
        BY <2>1, <1>2 DEF RowDebounce, Untracked
      <4> QED BY <4>1, <2>5, <3>3, <1>2
    <3> QED BY <3>1, <3>2, <3>3
  <2> QED BY <2>3, <2>4
<1> QED
  BY <1>6, <1>7

\* One equal read more, with every row confirmed, brings the hysteresis nearer.
LEMMA ReadSettles ==
    ASSUME SmoothTypeOK, CandidateInv, SettlingInv, NEW b, NEW n \in Nat,
           n >= ConfirmReads, StrictFloor(b) \in Levels,
           \/ n = ConfirmReads
           \/ primed /\ b = book /\ same >= ConfirmReads
              /\ (n = same + 1 \/ (n = same /\ same = MaxSame))
    PROVE  LET F == StrictFloor(b)
               next == applyTierHysteresis(F)
               left == ConfirmReads + 2 * ConfirmTicks - 2 - n
           IN  \/ next = NoCandidate(F)
               \/ next.pending = None /\ left >= ConfirmTicks
               \/ next.pending = F /\ left >= ConfirmTicks - next.count
               \/ next.pending # None /\ next.pending < F /\ left >= 2 * ConfirmTicks - next.count
<1> DEFINE F == StrictFloor(b)
           next == applyTierHysteresis(F)
           left == ConfirmReads + 2 * ConfirmTicks - 2 - n
           Settles == \/ next = NoCandidate(F)
                      \/ next.pending = None /\ left >= ConfirmTicks
                      \/ next.pending = F /\ left >= ConfirmTicks - next.count
                      \/ next.pending # None /\ next.pending < F
                         /\ left >= 2 * ConfirmTicks - next.count
<1>1. /\ ConfirmReads \in Nat \ {0} /\ ConfirmTicks \in Nat \ {0, 1} /\ MaxSame \in Nat
      /\ MaxSame >= ConfirmReads + 2 * ConfirmTicks - 2
  BY SmoothingAssumption
<1>2. hyst.accepted \in Int /\ hyst.pending \in Int /\ hyst.count \in 0..(ConfirmTicks - 1)
      /\ F \in Int /\ same \in Nat
  <2>1. hyst.accepted \in Levels /\ hyst.pending \in Levels
        /\ hyst.count \in 0..(ConfirmTicks - 1) /\ same \in 0..MaxSame
    BY DEF SmoothTypeOK
  <2>2. same \in Nat
    BY <1>1, <2>1
  <2> QED BY <2>1, <2>2, LevelsAreInts
<1>3. CandidateInv => (hyst.pending # None => hyst.count >= 1)
  BY DEF CandidateInv
<1>4. \/ next = NoCandidate(F)
      \/ /\ IsUp(F) /\ primed /\ hyst.pending # None /\ F >= hyst.pending
         /\ hyst.count + 1 >= ConfirmTicks /\ next = NoCandidate(hyst.pending)
      \/ /\ IsUp(F) /\ primed /\ hyst.pending # None /\ F >= hyst.pending
         /\ hyst.count + 1 < ConfirmTicks
         /\ next.accepted = hyst.accepted /\ next.pending = hyst.pending
         /\ next.count = hyst.count + 1
      \/ /\ IsUp(F) /\ primed /\ ~(hyst.pending # None /\ F >= hyst.pending)
         /\ next.accepted = hyst.accepted /\ next.pending = F /\ next.count = 1
  BY HysteresisIs
\* What was left before, when this is not the first confirmed read.
<1>5. \/ n = ConfirmReads
      \/ hyst = NoCandidate(F)
      \/ hyst.pending = None /\ left + 1 >= ConfirmTicks
      \/ hyst.pending = F /\ left + 1 >= ConfirmTicks - hyst.count
      \/ hyst.pending # None /\ hyst.pending < F /\ left + 1 >= 2 * ConfirmTicks - hyst.count
  <2> SUFFICES ASSUME primed /\ b = book /\ same >= ConfirmReads
                      /\ (n = same + 1 \/ (n = same /\ same = MaxSame))
               PROVE  \/ hyst = NoCandidate(F)
                      \/ hyst.pending = None /\ left + 1 >= ConfirmTicks
                      \/ hyst.pending = F /\ left + 1 >= ConfirmTicks - hyst.count
                      \/ hyst.pending # None /\ hyst.pending < F
                         /\ left + 1 >= 2 * ConfirmTicks - hyst.count
    OBVIOUS
  <2> DEFINE before == ConfirmReads + 2 * ConfirmTicks - 2 - same
  <2>1. before <= left + 1
    BY <1>1, <1>2
  <2>2. \/ hyst = NoCandidate(F)
        \/ hyst.pending = None /\ before >= ConfirmTicks
        \/ hyst.pending = F /\ before >= ConfirmTicks - hyst.count
        \/ hyst.pending # None /\ hyst.pending < F /\ before >= 2 * ConfirmTicks - hyst.count
    BY DEF SettlingInv
  <2>3. before \in Int /\ left \in Int
    BY <1>1, <1>2
  <2> HIDE DEF before, left, F
  <2> QED BY <1>1, <1>2, <2>1, <2>2, <2>3
<1>6. hyst = NoCandidate(F) => ~IsUp(F)
  BY <1>2 DEF NoCandidate, IsUp
<1>7. left \in Int /\ (n = ConfirmReads => left = 2 * ConfirmTicks - 2)
  BY <1>1
<1>8. CASE next = NoCandidate(F)
  BY <1>8
<1>9. CASE /\ IsUp(F) /\ hyst.pending # None /\ F >= hyst.pending
           /\ hyst.count + 1 >= ConfirmTicks /\ next = NoCandidate(hyst.pending)
  <2>1. CASE hyst.pending = F
    BY <1>9, <2>1
  <2>2. CASE hyst.pending # F
    <3>1. left >= ConfirmTicks
      <4> HIDE DEF next, F, left
      <4> QED BY <1>1, <1>2, <1>5, <1>6, <1>7, <1>9, <2>2
    <3> QED BY <3>1, <1>9 DEF NoCandidate
  <2> QED BY <2>1, <2>2
<1>10. CASE /\ IsUp(F) /\ hyst.pending # None /\ F >= hyst.pending
            /\ hyst.count + 1 < ConfirmTicks
            /\ next.pending = hyst.pending /\ next.count = hyst.count + 1
  <2>1. hyst.count >= 1
    BY <1>10, <1>3
  <2>2. CASE hyst.pending = F
    <3>1. left >= ConfirmTicks - next.count
      <4> HIDE DEF next, F, left
      <4> QED BY <1>1, <1>2, <1>5, <1>6, <1>7, <1>10, <2>1, <2>2
    <3> QED BY <3>1, <1>10, <2>2
  <2>3. CASE hyst.pending # F
    <3>1. left >= 2 * ConfirmTicks - next.count /\ hyst.pending < F
      <4> HIDE DEF next, F, left
      <4> QED BY <1>1, <1>2, <1>5, <1>6, <1>7, <1>10, <2>1, <2>3
    <3> QED BY <3>1, <1>10
  <2> QED BY <2>2, <2>3
<1>11. CASE /\ IsUp(F) /\ ~(hyst.pending # None /\ F >= hyst.pending)
            /\ next.pending = F /\ next.count = 1
  <2>1. left >= ConfirmTicks - next.count
    <3>1. F # None
      BY <1>11 DEF IsUp
    <3> HIDE DEF next, F, left
    <3> QED BY <1>1, <1>2, <1>5, <1>6, <1>7, <1>11, <3>1
  <2> QED BY <2>1, <1>11
<1> QED
  BY <1>4, <1>8, <1>9, <1>10, <1>11

\* A process starts with nothing remembered.
LEMMA SmoothInvInit == SmoothInit => SmoothInv
<1> SUFFICES ASSUME SmoothInit PROVE SmoothInv
  OBVIOUS
<1>1. /\ ConfirmReads \in Nat \ {0} /\ ConfirmTicks \in Nat \ {0, 1} /\ MaxSame \in Nat
  BY SmoothingAssumption
<1>2. DOMAIN EmptyBook = {}
  BY DEF EmptyBook
<1>3. None \in Levels /\ 0 \in 0..(ConfirmTicks - 1) /\ 0 \in 0..MaxSame
  BY <1>1 DEF Levels
<1>4. SmoothTypeOK
  BY <1>2, <1>3 DEF SmoothInit, Cold, SmoothTypeOK, NoCandidate, NoMarket
<1>5. ColdInv /\ CandidateInv
  BY DEF SmoothInit, ColdInv, CandidateInv, Cold, NoCandidate
<1>6. Debounced(book, streaks, same)
  BY <1>2 DEF SmoothInit, Cold, Debounced
<1>7. AcceptedInv
  <2>1. RawFloor = None
    <3>1. ScanFilled(EmptyBook, UnconfirmedNonzeros(EmptyBook, EmptyBook)) = {}
      BY <1>2 DEF ScanFilled, Filled, ByRigs
    <3> QED BY <3>1 DEF SmoothInit, Cold, RawFloor, Floor
  <2> QED BY <2>1 DEF AcceptedInv, SmoothInit, Cold, NoCandidate, None
<1>8. ExposedInv
  BY DEF SmoothInit, ExposedInv, HasMarket, NoMarket
<1>9. SettlingInv
  BY <1>1 DEF SmoothInit, SettlingInv
<1> QED
  BY <1>4, <1>5, <1>6, <1>7, <1>8, <1>9 DEF SmoothInv

\* The greater of the floor and the marginal is one of them.
LEMMA ExposedIs ==
    ASSUME NEW tier \in Levels, NEW raw \in Levels, NEW m \in Levels
    PROVE  LET t == IF tier # None THEN tier ELSE raw
           IN  Exposed(tier, raw, m) = (IF t >= m THEN t ELSE m) /\ Exposed(tier, raw, m) \in Levels
BY LevelsAreInts, GreatestOfTwo DEF Exposed

\* A read keeps the invariant.
LEMMA SmoothInvRead ==
    ASSUME SmoothInv, NEW b \in Books, Read(b) PROVE SmoothInv'
<1> DEFINE s == StreaksAfter(b)
           uZero == UnconfirmedZeros(b, s)
           uNonzero == UnconfirmedNonzeros(b, s)
           raw == Floor(b, uZero, uNonzero)
           hold == primed /\ Ambiguous(b, uZero, uNonzero)
           next == IF hold THEN hyst ELSE applyTierHysteresis(raw)
           m == Marginal(b)
<1>1. /\ primed' = TRUE /\ streaks' = s /\ hyst' = next /\ book' = b /\ frozen' = hold
      /\ market' = (IF m = None THEN [marginal |-> None, floor |-> raw]
                    ELSE [marginal |-> m, floor |-> Exposed(next.accepted, raw, m)])
      /\ same' = (IF b # book \/ ~primed THEN 1 ELSE IF same < MaxSame THEN same + 1 ELSE same)
      /\ lastRaw' = (IF hold THEN lastRaw ELSE raw)
  BY DEF Read
<1>2. /\ ConfirmReads \in Nat \ {0} /\ ConfirmTicks \in Nat \ {0, 1} /\ MaxSame \in Nat
      /\ MaxSame >= ConfirmReads + 2 * ConfirmTicks - 2
  BY SmoothingAssumption
<1>3. SmoothTypeOK /\ ColdInv /\ Debounced(book, streaks, same) /\ AcceptedInv
      /\ CandidateInv /\ ExposedInv /\ SettlingInv
  BY DEF SmoothInv
<1>4. DOMAIN b \in SUBSET Rows
  BY BooksAre
<1>5. raw \in Levels /\ m \in Levels /\ StrictFloor(b) \in Levels
  BY <1>4, FloorTypes DEF StrictFloor
<1>6. DOMAIN s \in SUBSET Rows /\ \A r \in DOMAIN s : s[r] \in RowDebounce
  BY <1>3, StreaksAre
<1>7. RawFloor' = raw
  BY <1>1 DEF RawFloor
<1>8. same \in 0..MaxSame /\ lastRaw \in Levels /\ hyst.accepted \in Levels
      /\ hyst.pending \in Levels /\ hyst.count \in 0..(ConfirmTicks - 1)
      /\ hyst \in [accepted : Levels, pending : Levels, count : 0..(ConfirmTicks - 1)]
      /\ primed \in BOOLEAN
  BY <1>3 DEF SmoothTypeOK
<1>9. raw \in Int /\ hyst.accepted \in Int /\ hyst.pending \in Int /\ lastRaw \in Int
  BY <1>5, <1>8, LevelsAreInts
<1>10. ~hold => next = applyTierHysteresis(raw)
  OBVIOUS
<1>11. next \in [accepted : Levels, pending : Levels, count : 0..(ConfirmTicks - 1)]
  BY <1>3, <1>5, <1>8, HysteresisIs
<1>12. next.accepted \in Levels
  BY <1>11
<1>13. None \in Levels
  BY DEF Levels
<1> HIDE DEF s, uZero, uNonzero, raw, hold, next, m
<1>14. SmoothTypeOK'
  <2>1. market' \in [marginal : Levels, floor : Levels]
    <3>1. Exposed(next.accepted, raw, m) \in Levels
      BY <1>5, <1>12, ExposedIs
    <3> QED BY <1>1, <1>5, <1>13, <3>1
  <2>2. same' \in 0..MaxSame
    BY <1>1, <1>2, <1>8
  <2>3. lastRaw' \in Levels
    BY <1>1, <1>5, <1>8
  <2>4. hold \in BOOLEAN
    BY <1>8 DEF hold, Ambiguous
  <2>5. DOMAIN streaks' \subseteq Rows /\ \A r \in DOMAIN streaks' : streaks'[r] \in RowDebounce
    BY <1>1, <1>6
  <2> QED
    BY <1>1, <1>11, <2>1, <2>2, <2>3, <2>4, <2>5 DEF SmoothTypeOK
<1>15. ColdInv'
  BY <1>1 DEF ColdInv
<1>16. same' \in Nat /\ (same' = 1 \/ (primed /\ b = book /\ same' <= same + 1))
  BY <1>1, <1>2, <1>8
<1>17. Debounced(book, streaks, same)'
  BY <1>1, <1>3, <1>16, ReadDebounces DEF s
<1>18. AcceptedInv'
  <2> SUFFICES ASSUME ~hold PROVE next.accepted <= raw
    BY <1>1, <1>7 DEF AcceptedInv
  <2>1. \/ next = NoCandidate(raw)
        \/ hyst.pending # None /\ raw >= hyst.pending /\ next = NoCandidate(hyst.pending)
        \/ IsUp(raw) /\ next.accepted = hyst.accepted
    BY <1>3, <1>5, <1>10, HysteresisIs
  <2>2. IsUp(raw) => hyst.accepted <= raw
    <3>1. \A x \in Levels : x >= None
      BY LevelsAreInts
    <3> QED BY <1>5, <1>9, <3>1 DEF IsUp
  <2> QED
    BY <1>9, <2>1, <2>2 DEF NoCandidate
<1>19. CandidateInv'
  <2> SUFFICES ASSUME next.pending # None PROVE next.pending <= lastRaw' /\ next.count >= 1
    BY <1>1 DEF CandidateInv
  <2>1. CASE hold
    BY <1>1, <1>3, <2>1 DEF next, CandidateInv
  <2>2. CASE ~hold
    <3>1. \/ next = NoCandidate(raw)
          \/ next = NoCandidate(hyst.pending)
          \/ /\ raw >= hyst.pending /\ next.pending = hyst.pending
             /\ next.count = hyst.count + 1
          \/ next.pending = raw /\ next.count = 1
      BY <1>3, <1>5, <1>10, <2>2, HysteresisIs
    <3>2. \A l : NoCandidate(l).pending = None
      BY DEF NoCandidate
    <3>3. hyst.count \in Nat
      BY <1>2, <1>8
    <3> QED BY <1>1, <1>9, <2>2, <3>1, <3>2, <3>3
  <2> QED BY <2>1, <2>2
<1>20. ExposedInv'
  <2> SUFFICES ASSUME m # None
               PROVE  market'.marginal = m /\ market'.floor = Exposed(next.accepted, raw, m)
    BY <1>1, <1>7 DEF ExposedInv, HasMarket, m
  <2> QED BY <1>1
<1>21. SettlingInv'
  <2> DEFINE n == same'
             F == StrictFloor(b)
             left == ConfirmReads + 2 * ConfirmTicks - 2 - n
  <2> SUFFICES ASSUME n >= ConfirmReads
               PROVE  \/ next = NoCandidate(F)
                      \/ next.pending = None /\ left >= ConfirmTicks
                      \/ next.pending = F /\ left >= ConfirmTicks - next.count
                      \/ next.pending # None /\ next.pending < F
                         /\ left >= 2 * ConfirmTicks - next.count
    BY <1>1 DEF SettlingInv
  <2>1. uZero = {} /\ uNonzero = {}
    <3>1. Debounced(b, s, n)
      BY <1>1, <1>17
    <3> QED BY <1>6, <1>16, <3>1, ConfirmedRows DEF uZero, uNonzero
  <2>2. raw = F /\ ~hold
    BY <2>1 DEF raw, StrictFloor, hold, Ambiguous
  <2>3. next = applyTierHysteresis(F)
    BY <1>10, <2>2
  <2>4. \/ n = ConfirmReads
        \/ primed /\ b = book /\ same >= ConfirmReads
           /\ (n = same + 1 \/ (n = same /\ same = MaxSame))
    <3>1. same \in Nat /\ same <= MaxSame
      BY <1>2, <1>8
    <3> QED BY <1>1, <1>2, <3>1
  <2>5. n \in Nat
    BY <1>16
  <2> HIDE DEF n
  <2> QED
    BY <1>3, <1>5, <2>3, <2>4, <2>5, ReadSettles
<1> QED
  BY <1>14, <1>15, <1>17, <1>18, <1>19, <1>20, <1>21 DEF SmoothInv

\* So does every step.
LEMMA SmoothInvNext == SmoothInv /\ [SmoothNext]_smoothVars => SmoothInv'
<1> SUFFICES ASSUME SmoothInv, [SmoothNext]_smoothVars PROVE SmoothInv'
  OBVIOUS
<1>1. ASSUME NEW b \in Books, Read(b) PROVE SmoothInv'
  BY <1>1, SmoothInvRead
<1>2. CASE Fail
  <2>1. UNCHANGED <<primed, streaks, hyst, book, same, frozen, lastRaw>> /\ market' = NoMarket
    BY <1>2 DEF Fail
  <2>2. SmoothTypeOK' /\ ~HasMarket'
    BY <2>1 DEF SmoothInv, SmoothTypeOK, NoMarket, Levels, HasMarket
  <2>3. ColdInv' /\ CandidateInv' /\ Debounced(book, streaks, same)'
    BY <2>1 DEF SmoothInv, ColdInv, Cold, CandidateInv, Debounced
  <2>4. RawFloor' = RawFloor
    BY <2>1 DEF RawFloor
  <2>5. AcceptedInv' /\ ExposedInv'
    BY <2>1, <2>2, <2>4 DEF SmoothInv, AcceptedInv, ExposedInv
  <2>6. SettlingInv'
    BY <2>1 DEF SmoothInv, SettlingInv
  <2> QED BY <2>2, <2>3, <2>5, <2>6 DEF SmoothInv
<1>3. CASE Reboot
  <2>1. SmoothInit'
    BY <1>3 DEF Reboot, SmoothInit, Cold
  <2>2. SmoothInit' => SmoothInv'
    BY SmoothInvInit, PTL
  <2> QED BY <2>1, <2>2
<1>4. CASE UNCHANGED smoothVars
  BY <1>4 DEF smoothVars, SmoothInv, SmoothTypeOK, ColdInv, Cold, Debounced, AcceptedInv,
     CandidateInv, ExposedInv, SettlingInv, RawFloor, HasMarket
<1> QED
  BY <1>1, <1>2, <1>3, <1>4 DEF SmoothNext

\* A noisy step is a step of the smoothing.
LEMMA NoisyStepIsSmooth == [NoisyNext]_noisyVars => [SmoothNext]_smoothVars
BY DEF NoisyNext, NoisyRead, SmoothNext, noisyVars

\* The invariant gives what the runs check of the market.
LEMMA SmoothInvTiers == SmoothInv => TiersInv
<1> SUFFICES ASSUME SmoothInv PROVE TiersInv
  OBVIOUS
<1> DEFINE uZero == UnconfirmedZeros(book, streaks)
           uNonzero == UnconfirmedNonzeros(book, streaks)
<1>1. SmoothTypeOK /\ AcceptedInv /\ ExposedInv /\ SettlingInv /\ CandidateInv
      /\ Debounced(book, streaks, same)
  BY DEF SmoothInv
<1>2. DOMAIN book \in SUBSET Rows
  BY <1>1, BooksAre DEF SmoothTypeOK
<1>3. RawFloor \in Levels /\ Marginal(book) \in Levels /\ StrictFloor(book) \in Levels
  BY <1>2, FloorTypes DEF RawFloor, StrictFloor
<1>4. hyst.accepted \in Levels /\ hyst.count \in 0..(ConfirmTicks - 1) /\ same \in 0..MaxSame
      /\ \A r \in DOMAIN streaks : streaks[r] \in RowDebounce
  BY <1>1 DEF SmoothTypeOK
<1>5. RawFloor \in Int /\ Marginal(book) \in Int /\ hyst.accepted \in Int
      /\ RawFloor >= None
  BY <1>3, <1>4, LevelsAreInts
<1> DEFINE tier == IF hyst.accepted # None THEN hyst.accepted ELSE RawFloor
           m == Marginal(book)
<1>6. HasMarket => /\ market.marginal = m
                   /\ market.floor = (IF tier >= m THEN tier ELSE m)
  <2>1. Exposed(hyst.accepted, RawFloor, m) = IF tier >= m THEN tier ELSE m
    BY <1>3, <1>4, ExposedIs
  <2>2. HasMarket => /\ market.marginal = m
                     /\ market.floor = Exposed(hyst.accepted, RawFloor, m)
    BY <1>1 DEF ExposedInv
  <2> HIDE DEF tier, m
  <2> QED BY <2>1, <2>2
<1>7. FloorWithinMarket
  <2> SUFFICES ASSUME HasMarket
               PROVE  /\ market.floor >= market.marginal
                      /\ ~frozen => market.floor <= Greatest({RawFloor, market.marginal})
    BY DEF FloorWithinMarket
  <2>1. Greatest({RawFloor, m}) = IF RawFloor >= m THEN RawFloor ELSE m
    BY <1>5, GreatestOfTwo
  <2>2. ~frozen => tier <= RawFloor
    BY <1>1, <1>5 DEF AcceptedInv
  <2> QED BY <1>5, <1>6, <2>1, <2>2
<1>8. FloorIsBlockBottom
  <2> DEFINE filled == ScanFilled(book, uNonzero)
             rows == DOMAIN book \ Dust
             through == filled \cup Transparent(book, uZero)
             top == Greatest(Prices(filled))
  <2>1. IF filled = {} THEN RawFloor = None ELSE IsFloor(RawFloor, book, filled, through)
    BY <1>2, FloorIs DEF RawFloor
  <2> QED
    BY <2>1 DEF FloorIsBlockBottom, IsFloor
<1>9. ConvergesWhenStable
  <2> SUFFICES ASSUME same >= MaxSame, HasMarket
               PROVE  market.floor = Greatest({StrictFloor(book), market.marginal})
    BY DEF ConvergesWhenStable
  <2>1. /\ ConfirmReads \in Nat \ {0} /\ ConfirmTicks \in Nat \ {0, 1} /\ MaxSame \in Nat
        /\ MaxSame >= ConfirmReads + 2 * ConfirmTicks - 2
    BY SmoothingAssumption
  <2> DEFINE F == StrictFloor(book)
             left == ConfirmReads + 2 * ConfirmTicks - 2 - same
  <2>2. same \in Int /\ same >= ConfirmReads /\ left <= 0
    BY <2>1, <1>4
  <2>3. \/ hyst = NoCandidate(F)
        \/ hyst.pending = None /\ left >= ConfirmTicks
        \/ hyst.pending = F /\ left >= ConfirmTicks - hyst.count
        \/ hyst.pending # None /\ hyst.pending < F /\ left >= 2 * ConfirmTicks - hyst.count
    BY <1>1, <2>2 DEF SettlingInv
  <2>4. hyst.accepted = F
    <3>1. left < ConfirmTicks - hyst.count /\ left < ConfirmTicks
          /\ left < 2 * ConfirmTicks - hyst.count /\ left \in Int
      BY <2>1, <2>2, <1>4
    <3>2. hyst = NoCandidate(F)
      <4> HIDE DEF left, F
      <4> QED BY <2>1, <2>3, <3>1, <1>4
    <3> QED BY <3>2 DEF NoCandidate
  <2>5. RawFloor = F
    <3>1. uZero = {} /\ uNonzero = {}
      BY <1>1, <1>4, <2>2, ConfirmedRows
    <3> QED BY <3>1 DEF RawFloor, StrictFloor
  <2>6. Greatest({F, m}) = IF F >= m THEN F ELSE m
    BY <1>3, <1>5, LevelsAreInts, GreatestOfTwo
  <2> HIDE DEF m
  <2> QED BY <1>6, <2>4, <2>5, <2>6
<1> QED
  BY <1>1, <1>7, <1>8, <1>9 DEF TiersInv

\* Only a step that confirms a candidate lifts the accepted floor.
LEMMA RiseStep ==
    SmoothInv /\ [SmoothNext]_smoothVars =>
        [primed /\ hyst'.accepted > hyst.accepted
            => /\ ~frozen'
               /\ hyst'.accepted <= RawFloor'
               /\ hyst'.accepted <= lastRaw]_smoothVars
<1> SUFFICES ASSUME SmoothInv, SmoothNext, primed, hyst'.accepted > hyst.accepted
             PROVE  /\ ~frozen'
                    /\ hyst'.accepted <= RawFloor'
                    /\ hyst'.accepted <= lastRaw
  OBVIOUS
<1>1. SmoothTypeOK /\ AcceptedInv /\ CandidateInv
  BY DEF SmoothInv
<1>2. hyst.accepted \in Levels /\ hyst.pending \in Levels
  BY <1>1 DEF SmoothTypeOK
<1>3. hyst.accepted \in Int /\ hyst.accepted >= None
  BY <1>2, LevelsAreInts
<1>4. ~Reboot
  BY <1>3 DEF Reboot, NoCandidate, None
<1>5. ~Fail
  <2> SUFFICES ASSUME Fail PROVE FALSE
    OBVIOUS
  <2>1. hyst' = hyst
    BY DEF Fail
  <2> QED BY <1>3, <2>1
<1>6. PICK b \in Books : Read(b)
  BY <1>4, <1>5 DEF SmoothNext
<1> DEFINE s == StreaksAfter(b)
           uZero == UnconfirmedZeros(b, s)
           uNonzero == UnconfirmedNonzeros(b, s)
           raw == Floor(b, uZero, uNonzero)
           hold == primed /\ Ambiguous(b, uZero, uNonzero)
           next == IF hold THEN hyst ELSE applyTierHysteresis(raw)
<1>7. /\ hyst' = next /\ book' = b /\ streaks' = s /\ frozen' = hold
  BY <1>6 DEF Read
<1>8. RawFloor' = raw
  BY <1>7 DEF RawFloor
<1>9. raw \in Levels
  <2>1. DOMAIN b \in SUBSET Rows
    BY BooksAre
  <2> QED BY <2>1, FloorTypes
<1>10. raw \in Int /\ hyst.pending \in Int /\ lastRaw \in Int
  BY <1>1, <1>2, <1>9, LevelsAreInts DEF SmoothTypeOK
<1> HIDE DEF s, uZero, uNonzero, raw
<1>11. ~hold
  BY <1>3, <1>7
<1>12. hyst' = applyTierHysteresis(raw)
  BY <1>7, <1>11
<1>13. \/ ~IsUp(raw) /\ hyst' = NoCandidate(raw)
       \/ hyst.pending # None /\ raw >= hyst.pending /\ hyst' = NoCandidate(hyst.pending)
       \/ hyst'.accepted = hyst.accepted
  <2> DEFINE next2 == applyTierHysteresis(raw)
  <2>1. \/ (~primed \/ ~IsUp(raw)) /\ next2 = NoCandidate(raw)
        \/ /\ IsUp(raw) /\ primed /\ hyst.pending # None /\ raw >= hyst.pending
           /\ hyst.count + 1 >= ConfirmTicks /\ next2 = NoCandidate(hyst.pending)
        \/ next2.accepted = hyst.accepted
    BY <1>1, <1>9, HysteresisIs
  <2> QED BY <2>1, <1>12
<1>14. hyst' # NoCandidate(raw) \/ IsUp(raw)
  <2> SUFFICES ASSUME ~IsUp(raw), hyst'.accepted = raw PROVE FALSE
    BY DEF NoCandidate
  <2> QED BY <1>3, <1>10 DEF IsUp, None
<1>15. hyst.pending # None /\ raw >= hyst.pending /\ hyst'.accepted = hyst.pending
  BY <1>3, <1>13, <1>14 DEF NoCandidate
<1>16. hyst.pending <= lastRaw
  BY <1>1, <1>15 DEF CandidateInv
<1> QED
  BY <1>7, <1>8, <1>10, <1>11, <1>15, <1>16

\* orderbook.ts and observe.ts: whatever was misread, frozen or forgotten on the way,
\* the floor decide() gets is the bottom of the block the market clears into, never
\* under the marginal, never dearer than the book it was read from, and that of the
\* book itself once the reads agree.
THEOREM TiersTheorem == SmoothSpec => []TiersInv
<1>1. SmoothInit => SmoothInv
  BY SmoothInvInit
<1>2. SmoothInv /\ [SmoothNext]_smoothVars => SmoothInv'
  BY SmoothInvNext
<1>3. SmoothInv => TiersInv
  BY SmoothInvTiers
<1> QED
  BY <1>1, <1>2, <1>3, PTL DEF SmoothSpec

\* observe.ts: the accepted floor rises only to a level two reads that count have
\* both reached.
THEOREM RisesTheorem == SmoothSpec => RisesAreConfirmed
<1>1. SmoothInit => SmoothInv
  BY SmoothInvInit
<1>2. SmoothInv /\ [SmoothNext]_smoothVars => SmoothInv'
  BY SmoothInvNext
<1>3. SmoothInv /\ [SmoothNext]_smoothVars =>
          [primed /\ hyst'.accepted > hyst.accepted
              => /\ ~frozen'
                 /\ hyst'.accepted <= RawFloor'
                 /\ hyst'.accepted <= lastRaw]_smoothVars
  BY RiseStep
<1> QED
  BY <1>1, <1>2, <1>3, PTL DEF SmoothSpec, RisesAreConfirmed

\* The noisy market takes the smoothing's own steps.
LEMMA NoisyIsSmooth == NoisySpec => SmoothSpec
<1>1. NoisyInit => SmoothInit
  BY DEF NoisyInit
<1>2. [NoisyNext]_noisyVars => [SmoothNext]_smoothVars
  BY NoisyStepIsSmooth
<1> QED
  BY <1>1, <1>2, PTL DEF NoisySpec, SmoothSpec

-----------------------------------------------------------------------------
(* A quiet market with noisy reads. *)

\* The counters s after a read b of the market t: a misread row with miners has one
\* zero, a misread row without has one recovery, and no other row is under way.
QuietStreaks(t, b, s) ==
    /\ DOMAIN s \subseteq DOMAIN t \ Dust
    /\ \A r \in DOMAIN t \ Dust :
           IF t[r] = "rigs"
             THEN IF b[r] = "rigs" THEN r \notin DOMAIN s
                  ELSE r \in DOMAIN s /\ s[r] = [zero |-> 1, nonzero |-> 0]
             ELSE /\ r \in DOMAIN s
                  /\ s[r] = [zero |-> ConfirmReads, nonzero |-> IF b[r] = "rigs" THEN 1 ELSE 0]

\* Two rows with miners hold the bottom of the block.
Firm(t) == StrictFloor(t) # None /\ Cardinality(Bottom(t)) >= 2

\* In a quiet time one row at most is misread, and where the bottom is firm the
\* floor that is accepted, and the one decide() has, is the market's.
QuietInv ==
    truth # EmptyBook =>
        /\ primed /\ DOMAIN truth \in SUBSET Rows /\ DOMAIN book = DOMAIN truth
        /\ Cardinality(Wrong(book)) <= 1
        /\ QuietStreaks(truth, book, streaks)
        /\ Firm(truth) => /\ hyst = NoCandidate(StrictFloor(truth))
                          /\ HasMarket => market.floor = StrictFloor(truth)

\* The floor is settled by what IsFloor says, also when filled rows are missing as
\* long as a row on it is not and the breakers are the same.
LEMMA FloorUnique ==
    ASSUME NEW t, NEW b, DOMAIN t \in SUBSET Rows, DOMAIN b = DOMAIN t, NEW all \in SUBSET Rows,
           NEW some \in SUBSET all, NEW through, NEW F, NEW G,
           IsFloor(F, t, all, through), IsFloor(G, b, some, through),
           F \in Prices(some)
    PROVE  G = F
<1> DEFINE breakers == (DOMAIN t \ Dust) \ through
           topAll == Greatest(Prices(all))
           topSome == Greatest(Prices(some))
<1>1. some # {} /\ all # {} /\ Prices(some) \subseteq Prices(all)
  BY DEF Prices
<1>2. Prices(all) \in SUBSET Nat /\ Prices(some) \in SUBSET Nat /\ Prices(breakers) \in SUBSET Nat
  BY PricesAre
<1>3. topAll \in Prices(all) /\ topSome \in Prices(some)
      /\ (\A p \in Prices(all) : p <= topAll) /\ (\A p \in Prices(some) : p <= topSome)
  <2>1. IsFiniteSet(Prices(all)) /\ IsFiniteSet(Prices(some))
        /\ Prices(all) # {} /\ Prices(some) # {}
    BY <1>1, PricesAre
  <2>2. Greatest(Prices(all)) \in Prices(all)
        /\ \A p \in Prices(all) : Greatest(Prices(all)) >= p
    BY <2>1, <1>2, GreatestIs
  <2>3. Greatest(Prices(some)) \in Prices(some)
        /\ \A p \in Prices(some) : Greatest(Prices(some)) >= p
    BY <2>1, <1>2, GreatestIs
  <2> QED BY <2>2, <2>3, <1>2
<1>4. /\ F \in Nat /\ G \in Nat /\ topAll \in Nat /\ topSome \in Nat /\ G \in Prices(some)
      /\ F <= topSome /\ G <= topSome /\ topSome <= topAll
  BY <1>1, <1>2, <1>3 DEF IsFloor
<1>5. /\ F < topAll => \A p \in Prices(breakers) : p \notin F..topAll
      /\ G < topSome => \A p \in Prices(breakers) : p \notin G..topSome
      /\ \A r \in all : PriceOf[r] < F => \E p \in Prices(breakers) : p \in PriceOf[r]..topAll
      /\ \A r \in some : PriceOf[r] < G => \E p \in Prices(breakers) : p \in PriceOf[r]..topSome
  BY DEF IsFloor
<1> HIDE DEF breakers, topAll, topSome
<1>6. ~(G < F)
  <2> SUFFICES ASSUME G < F PROVE FALSE
    OBVIOUS
  <2>1. PICK r \in all : PriceOf[r] = G
    BY <1>4 DEF Prices
  <2>2. PICK p \in Prices(breakers) : p \in G..topAll
    BY <2>1, <1>5
  <2>3. p \notin G..topSome
    BY <1>4, <1>5
  <2>4. F < topAll /\ p \in F..topAll
    BY <1>2, <1>4, <2>2, <2>3
  <2> QED BY <2>4, <1>5
<1>7. ~(F < G)
  <2> SUFFICES ASSUME F < G PROVE FALSE
    OBVIOUS
  <2>1. PICK r \in some : PriceOf[r] = F
    BY DEF Prices
  <2>2. PICK p \in Prices(breakers) : p \in F..topSome
    BY <2>1, <1>5
  <2>3. F < topAll /\ p \in F..topAll
    BY <1>2, <1>4, <2>2
  <2> QED BY <2>3, <1>5
<1> QED
  BY <1>4, <1>6, <1>7

\* One misread row does not move a firm floor.
LEMMA FlickerFloor ==
    ASSUME NEW t, NEW b, NEW s, DOMAIN t \in SUBSET Rows, DOMAIN b = DOMAIN t,
           Cardinality({r \in DOMAIN b : b[r] # t[r]}) <= 1,
           QuietStreaks(t, b, s), Firm(t), ConfirmReads >= 2
    PROVE  /\ Floor(b, UnconfirmedZeros(b, s), UnconfirmedNonzeros(b, s)) = StrictFloor(t)
           /\ Marginal(b) \in Nat /\ Marginal(b) <= StrictFloor(t)
<1> DEFINE wrong == {r \in DOMAIN b : b[r] # t[r]}
           F == StrictFloor(t)
           uZero == UnconfirmedZeros(b, s)
           uNonzero == UnconfirmedNonzeros(b, s)
           G == Floor(b, uZero, uNonzero)
           all == ScanFilled(t, {})
           some == ScanFilled(b, uNonzero)
           through == all \cup Transparent(t, {})
<1>1. ConfirmReads \in Nat \ {0}
  BY SmoothingAssumption
<1>2. PICK w \in Bottom(t) : w \notin wrong
  <2> SUFFICES ASSUME Bottom(t) \subseteq wrong PROVE FALSE
    OBVIOUS
  <2>1. IsFiniteSet(wrong)
    <3>1. wrong \in SUBSET Rows
      OBVIOUS
    <3> QED BY <3>1, BookAssumption, FS_Subset
  <2>2. Cardinality(Bottom(t)) <= Cardinality(wrong)
        /\ Cardinality(wrong) \in Nat /\ IsFiniteSet(Bottom(t))
    BY <2>1, FS_Subset, FS_CardinalityType
  <2>3. Cardinality(Bottom(t)) \in Nat
    BY <2>2, FS_CardinalityType
  <2> QED BY <2>2, <2>3 DEF Firm
<1>3. /\ w \in DOMAIN t \ Dust /\ t[w] = "rigs" /\ b[w] = "rigs" /\ PriceOf[w] = F
      /\ w \in ByRigs(t) /\ w \in ByRigs(b)
  BY <1>2 DEF Bottom, Block, ByRigs
<1>4. all = ByRigs(t) \ Dust /\ Transparent(t, {}) = {}
  BY <1>3 DEF ScanFilled, Filled, Transparent
<1>5. some = {r \in all : b[r] = "rigs"}
  <2>1. some = (ByRigs(b) \ Dust) \ uNonzero
    BY <1>3 DEF ScanFilled, Filled
  <2>2. ASSUME NEW r \in DOMAIN t \ Dust, b[r] = "rigs"
        PROVE  r \in uNonzero <=> t[r] # "rigs"
    BY <2>2 DEF QuietStreaks, UnconfirmedNonzeros
  <2> QED
    BY <2>1, <2>2, <1>4 DEF ByRigs
<1>6. some \cup Transparent(b, uZero) = through
  <2>1. Transparent(b, uZero) = uZero \ ByRigs(b)
    BY <1>3 DEF Transparent
  <2>2. ASSUME NEW r \in DOMAIN t \ Dust, b[r] # "rigs"
        PROVE  r \in uZero <=> t[r] = "rigs"
    <3>1. CASE t[r] = "rigs"
      <4>1. r \in DOMAIN s /\ s[r] = [zero |-> 1, nonzero |-> 0]
        BY <2>2, <3>1 DEF QuietStreaks
      <4> QED BY <4>1, <2>2, <3>1, <1>1 DEF UnconfirmedZeros
    <3>2. CASE t[r] # "rigs"
      <4>1. s[r] = [zero |-> ConfirmReads, nonzero |-> 0]
        BY <2>2, <3>2 DEF QuietStreaks
      <4> QED BY <4>1, <2>2, <3>2, <1>1 DEF UnconfirmedZeros
    <3> QED BY <3>1, <3>2
  <2>3. uZero \subseteq DOMAIN t \ Dust /\ \A r \in uZero : b[r] # "rigs"
    BY DEF UnconfirmedZeros, QuietStreaks
  <2> QED
    BY <2>1, <2>2, <2>3, <1>4, <1>5 DEF ByRigs
<1>7. w \in some /\ w \in all /\ all \in SUBSET Rows /\ some \in SUBSET all
  BY <1>3, <1>4, <1>5 DEF ByRigs
<1>8. IsFloor(F, t, all, through)
  BY <1>7, FloorIs DEF StrictFloor
<1>9. IsFloor(G, b, some, through)
  <2>1. IsFloor(G, b, some, some \cup Transparent(b, uZero))
    BY <1>7, FloorIs
  <2> QED BY <2>1, <1>6
<1>10. F \in Prices(some)
  BY <1>3, <1>7 DEF Prices
<1>11. G = F
  <2> HIDE DEF F, G, all, some, through
  <2> QED BY <1>7, <1>8, <1>9, <1>10, FloorUnique
<1>12. Marginal(b) \in Nat /\ Marginal(b) <= F
  <2>1. Filled(b) = ByRigs(b) /\ ByRigs(b) # {} /\ DOMAIN b # {}
    BY <1>3 DEF Filled, ByRigs
  <2>2. Marginal(b) = Least(Prices(ByRigs(b)))
    BY <2>1 DEF Marginal
  <2>3. ByRigs(b) \in SUBSET Rows
    BY DEF ByRigs
  <2>4. Prices(ByRigs(b)) \in SUBSET Nat /\ F \in Prices(ByRigs(b))
    BY <1>3, <2>3, PricesAre DEF Prices
  <2> HIDE DEF F
  <2>5. Prices(ByRigs(b)) # {}
    BY <2>4
  <2> QED BY <2>2, <2>4, <2>5, LeastIs
<1> QED
  BY <1>11, <1>12

\* The counters after one read more of a quiet market.
LEMMA QuietRead ==
    ASSUME NEW b, QuietStreaks(truth, book, streaks), primed, ConfirmReads >= 2,
           DOMAIN book = DOMAIN truth, Flicker(b)
    PROVE  QuietStreaks(truth, b, StreaksAfter(b))
<1> DEFINE s == StreaksAfter(b)
<1>1. ConfirmReads \in Nat \ {0}
  BY SmoothingAssumption
<1>2. DOMAIN b = DOMAIN truth /\ Wrong(b) \cap Wrong(book) = {}
  BY DEF Flicker
<1>3. DOMAIN s = {x \in DOMAIN b \ Dust : AfterRead(Streak(x), b[x]) # Untracked}
      /\ \A r \in DOMAIN s : s[r] = AfterRead(Streak(r), b[r])
  BY DEF StreaksAfter
<1> SUFFICES ASSUME NEW r \in DOMAIN truth \ Dust
             PROVE  IF truth[r] = "rigs"
                      THEN IF b[r] = "rigs" THEN r \notin DOMAIN s
                           ELSE r \in DOMAIN s /\ s[r] = [zero |-> 1, nonzero |-> 0]
                      ELSE /\ r \in DOMAIN s
                           /\ s[r] = [zero |-> ConfirmReads,
                                      nonzero |-> IF b[r] = "rigs" THEN 1 ELSE 0]
  BY <1>2, <1>3 DEF QuietStreaks
<1> DEFINE a == AfterRead(Streak(r), b[r])
<1>4. (r \in DOMAIN s <=> a # Untracked) /\ (r \in DOMAIN s => s[r] = a)
  BY <1>2, <1>3
<1>5. b[r] = truth[r] \/ book[r] = truth[r]
  BY <1>2 DEF Wrong
<1> HIDE DEF s
<1>6. CASE truth[r] = "rigs" /\ b[r] = "rigs"
  <2>1. Streak(r) = Untracked \/ Streak(r) = [zero |-> 1, nonzero |-> 0]
    BY <1>6 DEF QuietStreaks, Streak
  <2>2. a = Untracked
    BY <1>1, <1>6, <2>1 DEF AfterRead, Untracked
  <2> QED BY <1>4, <1>6, <2>2
<1>7. CASE truth[r] = "rigs" /\ b[r] # "rigs"
  <2>1. Streak(r) = Untracked
    BY <1>5, <1>7 DEF QuietStreaks, Streak
  <2>2. a = [zero |-> 1, nonzero |-> 0]
    BY <1>1, <1>7, <2>1 DEF AfterRead, Untracked
  <2>3. a # Untracked
    BY <2>2 DEF Untracked
  <2> QED BY <1>4, <1>7, <2>2, <2>3
<1>8. CASE truth[r] # "rigs" /\ b[r] = "rigs"
  <2>1. Streak(r) = [zero |-> ConfirmReads, nonzero |-> 0]
    BY <1>5, <1>8 DEF QuietStreaks, Streak
  <2>2. a = [zero |-> ConfirmReads, nonzero |-> 1]
    BY <1>1, <1>8, <2>1 DEF AfterRead
  <2>3. a # Untracked
    BY <2>2 DEF Untracked
  <2> QED BY <1>4, <1>8, <2>2, <2>3
<1>9. CASE truth[r] # "rigs" /\ b[r] # "rigs"
  <2>1. Streak(r) = [zero |-> ConfirmReads, nonzero |-> IF book[r] = "rigs" THEN 1 ELSE 0]
    BY <1>9 DEF QuietStreaks, Streak
  <2>2. a = [zero |-> ConfirmReads, nonzero |-> 0]
    BY <1>1, <1>9, <2>1 DEF AfterRead
  <2>3. a # Untracked
    BY <1>1, <2>2 DEF Untracked
  <2> QED BY <1>4, <1>9, <2>2, <2>3
<1> QED
  BY <1>6, <1>7, <1>8, <1>9

\* The first read of a process takes every row as it is.
LEMMA FirstRead ==
    ASSUME NEW b, ~primed, streaks = EmptyBook
    PROVE  QuietStreaks(b, b, StreaksAfter(b))
<1> DEFINE s == StreaksAfter(b)
<1>1. ConfirmReads \in Nat \ {0}
  BY SmoothingAssumption
<1>2. \A r : Streak(r) = Untracked
  BY DEF Streak, EmptyBook
<1>3. DOMAIN s = {x \in DOMAIN b \ Dust : AfterRead(Streak(x), b[x]) # Untracked}
      /\ \A r \in DOMAIN s : s[r] = AfterRead(Streak(r), b[r])
  BY DEF StreaksAfter
<1>4. DOMAIN s \subseteq DOMAIN b \ Dust
  BY <1>3
<1>5. \A r : b[r] = "rigs" => AfterRead(Streak(r), b[r]) = Untracked
  BY <1>1, <1>2 DEF AfterRead, Untracked
<1>6. \A r : b[r] # "rigs" => AfterRead(Streak(r), b[r]) = [zero |-> ConfirmReads, nonzero |-> 0]
  BY <1>1, <1>2 DEF AfterRead
<1>7. [zero |-> ConfirmReads, nonzero |-> 0] # Untracked
  BY <1>1 DEF Untracked
<1> QED
  <2> SUFFICES ASSUME NEW r \in DOMAIN b \ Dust
               PROVE  IF b[r] = "rigs" THEN r \notin DOMAIN s
                      ELSE r \in DOMAIN s /\ s[r] = [zero |-> ConfirmReads, nonzero |-> 0]
    BY <1>4 DEF QuietStreaks
  <2>1. r \in DOMAIN s <=> AfterRead(Streak(r), b[r]) # Untracked
    BY <1>3
  <2>2. r \in DOMAIN s => s[r] = AfterRead(Streak(r), b[r])
    BY <1>3
  <2> QED BY <2>1, <2>2, <1>5, <1>6, <1>7

\* A book without rows has no floor, firm or not.
LEMMA FirmIsNonempty ==
    ASSUME NEW t, DOMAIN t = {} PROVE ~Firm(t)
<1>1. ScanFilled(t, {}) = {}
  BY DEF ScanFilled, Filled, ByRigs
<1>2. StrictFloor(t) = None
  BY <1>1 DEF StrictFloor, Floor
<1> QED BY <1>2 DEF Firm

\* A read keeps the quiet market's invariant.
LEMMA QuietInvRead ==
    ASSUME SmoothInv, QuietInv, ConfirmReads >= 2, NEW b \in Books, NoisyRead(b)
    PROVE  QuietInv'
<1> DEFINE s == StreaksAfter(b)
           uZero == UnconfirmedZeros(b, s)
           uNonzero == UnconfirmedNonzeros(b, s)
           raw == Floor(b, uZero, uNonzero)
           hold == primed /\ Ambiguous(b, uZero, uNonzero)
           next == IF hold THEN hyst ELSE applyTierHysteresis(raw)
           m == Marginal(b)
<1>1. /\ primed' = TRUE /\ streaks' = s /\ hyst' = next /\ book' = b
      /\ market' = (IF m = None THEN [marginal |-> None, floor |-> raw]
                    ELSE [marginal |-> m, floor |-> Exposed(next.accepted, raw, m)])
      /\ truth' = (IF ~primed THEN b ELSE IF Flicker(b) THEN truth ELSE EmptyBook)
  BY DEF NoisyRead, Read
<1> SUFFICES ASSUME truth' # EmptyBook PROVE QuietInv'
  BY DEF QuietInv
<1>2. SmoothTypeOK /\ ColdInv
  BY DEF SmoothInv
<1>3. DOMAIN b \in SUBSET Rows
  BY BooksAre
<1>4. raw \in Levels /\ m \in Levels
  BY <1>3, FloorTypes
\* The market, the book that was read of it, and the counters.
<1>5. /\ DOMAIN truth' \in SUBSET Rows /\ DOMAIN b = DOMAIN truth'
      /\ Cardinality({r \in DOMAIN b : b[r] # truth'[r]}) <= 1
      /\ QuietStreaks(truth', b, s)
  <2>1. CASE ~primed
    <3>1. truth' = b /\ streaks = EmptyBook
      BY <1>1, <1>2, <2>1 DEF ColdInv, Cold
    <3>2. {r \in DOMAIN b : b[r] # truth'[r]} = {}
      BY <3>1
    <3>3. Cardinality({r \in DOMAIN b : b[r] # truth'[r]}) <= 1
      BY <3>2, FS_EmptySet
    <3> QED BY <1>3, <2>1, <3>1, <3>3, FirstRead
  <2>2. CASE primed
    <3>1. Flicker(b) /\ truth' = truth /\ truth # EmptyBook
      BY <1>1, <2>2
    <3>2. {r \in DOMAIN b : b[r] # truth'[r]} = Wrong(b)
      BY <3>1 DEF Wrong
    <3>3. DOMAIN truth \in SUBSET Rows /\ DOMAIN book = DOMAIN truth
          /\ QuietStreaks(truth, book, streaks)
      BY <3>1 DEF QuietInv
    <3>4. DOMAIN b = DOMAIN truth /\ Cardinality(Wrong(b)) <= 1
      BY <3>1 DEF Flicker
    <3>5. QuietStreaks(truth, b, s)
      BY <2>2, <3>1, <3>3, QuietRead
    <3> HIDE DEF s
    <3> QED BY <3>1, <3>2, <3>3, <3>4, <3>5
  <2> QED BY <2>1, <2>2, <1>2 DEF SmoothTypeOK
\* The floor, where its bottom is firm.
<1> DEFINE F == StrictFloor(truth')
<1>6. ASSUME Firm(truth')
      PROVE  next = NoCandidate(F) /\ (m # None => Exposed(next.accepted, raw, m) = F)
  <2>1. raw = F /\ m \in Nat /\ m <= F
    BY <1>5, <1>6, FlickerFloor
  <2>2. F # None /\ F \in Levels /\ F \in Int
    BY <1>4, <1>6, <2>1, LevelsAreInts DEF Firm
  <2>3. ~hold => next = applyTierHysteresis(F)
    BY <2>1
  <2>4. next = NoCandidate(F)
    <3>1. CASE ~primed
      <4>1. applyTierHysteresis(F) = NoCandidate(F)
        BY <3>1 DEF applyTierHysteresis
      <4> QED BY <3>1, <4>1, <2>3
    <3>2. CASE primed
      <4>1. truth' = truth /\ truth # EmptyBook
        BY <1>1, <3>2
      <4>2. hyst = NoCandidate(F)
        BY <4>1, <1>6 DEF QuietInv
      <4>3. ~IsUp(F)
        BY <2>2, <4>2 DEF IsUp, NoCandidate
      <4>4. applyTierHysteresis(F) = NoCandidate(F)
        BY <4>3 DEF applyTierHysteresis
      <4> QED BY <4>2, <4>4, <2>3
    <3> QED BY <3>1, <3>2, <1>2 DEF SmoothTypeOK
  <2>5. next.accepted = F
    BY <2>4 DEF NoCandidate
  <2>6. Exposed(F, F, m) = F
    <3>1. Exposed(F, F, m) = IF F >= m THEN F ELSE m
      BY <1>4, <2>2, ExposedIs
    <3> QED BY <3>1, <2>1
  <2> HIDE DEF next, F
  <2> QED BY <2>1, <2>4, <2>5, <2>6
<1>7. (Wrong(book))' = {r \in DOMAIN b : b[r] # truth'[r]}
  BY <1>1 DEF Wrong
<1> HIDE DEF s, next, raw, m, F
<1>8. HasMarket' => m # None /\ market'.floor = Exposed(next.accepted, raw, m)
  BY <1>1 DEF HasMarket
<1> QED
  BY <1>1, <1>5, <1>6, <1>7, <1>8 DEF QuietInv, F

\* Nothing is quiet before the first read.
LEMMA QuietInvInit == NoisyInit => QuietInv
BY DEF NoisyInit, QuietInv

\* Every step keeps it.
LEMMA QuietInvNext ==
    ASSUME ConfirmReads >= 2
    PROVE  SmoothInv /\ QuietInv /\ [NoisyNext]_noisyVars => QuietInv'
<1> SUFFICES ASSUME SmoothInv, QuietInv, [NoisyNext]_noisyVars PROVE QuietInv'
  OBVIOUS
<1>1. ASSUME NEW b \in Books, NoisyRead(b) PROVE QuietInv'
  BY <1>1, QuietInvRead
<1>2. CASE Fail /\ UNCHANGED truth
  <2>1. UNCHANGED <<primed, streaks, hyst, book, same, frozen, lastRaw, truth>>
        /\ market' = NoMarket
    BY <1>2 DEF Fail
  <2> QED
    BY <2>1 DEF QuietInv, Wrong, HasMarket, NoMarket
<1>3. CASE Reboot /\ truth' = EmptyBook
  BY <1>3 DEF QuietInv
<1>4. CASE UNCHANGED noisyVars
  BY <1>4 DEF noisyVars, smoothVars, QuietInv, Wrong, HasMarket
<1> QED
  BY <1>1, <1>2, <1>3, <1>4 DEF NoisyNext

\* It gives what the runs check.
LEMMA QuietIsIgnored == QuietInv => FlickerIgnored
<1> SUFFICES ASSUME QuietInv, HasMarket, Firm(truth) PROVE market.floor = StrictFloor(truth)
  BY DEF FlickerIgnored, Firm
<1>1. truth # EmptyBook
  <2>1. DOMAIN EmptyBook = {}
    BY DEF EmptyBook
  <2> QED BY <2>1, FirmIsNonempty
<1> QED BY <1>1 DEF QuietInv

\* zero-rig-debounce: where two rows with miners hold the bottom of the block, rows
\* misread one at a time never move the floor; a count must be confirmed by a second
\* read for that.
THEOREM FlickerTheorem ==
    ASSUME ConfirmReads >= 2
    PROVE  NoisySpec => []FlickerIgnored
<1>1. NoisyInit => SmoothInv /\ QuietInv
  BY SmoothInvInit, QuietInvInit DEF NoisyInit
<1>2. SmoothInv /\ QuietInv /\ [NoisyNext]_noisyVars => (SmoothInv /\ QuietInv)'
  BY SmoothInvNext, QuietInvNext, NoisyStepIsSmooth
<1>3. QuietInv => FlickerIgnored
  BY QuietIsIgnored
<1> QED
  BY <1>1, <1>2, <1>3, PTL DEF NoisySpec
=============================================================================
