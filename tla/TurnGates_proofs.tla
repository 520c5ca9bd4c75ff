-------------------------- MODULE TurnGates_proofs --------------------------
(***************************************************************************)
(* What holds of TurnGates for every number of decision calls, modes,      *)
(* turns, gated calls and restarts.                                        *)
(*                                                                         *)
(* Each part of the invariant reads few variables and most actions leave   *)
(* them alone: for every group of variables a lemma says which actions     *)
(* change it, and how, and the proofs that a step keeps a part have one    *)
(* case for each of those.                                                 *)
(***************************************************************************)
EXTENDS TurnGates, FiniteSetTheorems, TLAPS

(* The lock is held by the decision that is in its section, and only while *)
(* it is; the row it found is pending until it clears it.                  *)
InSection(d) == stage[d] \in {"minting", "moding", "clearing", "resolving"}

SectionHoldsLock ==
  \A d \in Decisions :
    /\ InSection(d) => lock = d /\ deciding[d].kind # "tool"
    /\ stage[d] \in {"minting", "moding", "clearing"} => deciding[d] \in rows

(* A plan, a mode switch and a question have one slot each.                *)
OnePerSlot(set) == \A r, q \in set : (r.kind = q.kind /\ r.kind # "tool") => r = q

SlotsAreSingle == OnePerSlot(rows) /\ OnePerSlot(snapshot.rows)

(* Steps of the turn that read or write the rows, each under the lock.     *)
RowsWritten == ReadRecord \/ RaiseGate \/ RemoveRow \/ FinishCancelled

(* A call on its way to a gate, or at one, has its gate.                   *)
OnTheWay == {"checking", "listing", "reading", "raising", "waiting", "clearing", "removing",
             "granting", "spending", "invoking", "running"}
GateIsTaken == at \in OnTheWay => gate \in Gates

(* The types, by what the actions change together.                         *)
TurnTypes ==
  /\ at \in Places /\ aborted \in BOOLEAN /\ gate \in Gates \cup {NoGate}
  /\ answer \in Answers /\ waiters \subseteq Gates
RecordTypes ==
  /\ rows \subseteq Gates /\ mode \in Modes /\ lastMode \in Modes
  /\ snapshot \in [rows : SUBSET Gates, mode : Modes]
GrantTypes == receipts \in Nat /\ standing \in BOOLEAN
DecisionTypes ==
  /\ lock \in Decisions \cup {NoCall}
  /\ stage \in [Decisions -> DecisionStages]
  /\ deciding \in [Decisions -> Gates \cup {NoGate}]
  /\ verdict \in [Decisions -> Verdicts]
CounterTypes ==
  turns \in 0..MaxTurns /\ opened \in 0..MaxGates /\ crashes \in 0..MaxCrashes
HistoryTypes ==
  accepted \subseteq Gates /\ minted \subseteq Gates \X Decisions /\ ran \subseteq Gates

Types ==
  /\ TurnTypes /\ GateIsTaken /\ RecordTypes /\ GrantTypes
  /\ DecisionTypes /\ CounterTypes /\ HistoryTypes

GatesInv ==
  /\ Types /\ WaiterHoldsTheTurn /\ SectionHoldsLock
  /\ SlotsAreSingle /\ OpenGateIsPending

LEMMA TypesAreTypeOK == Types => TypeOK
BY DEF Types, TurnTypes, RecordTypes, GrantTypes, DecisionTypes, CounterTypes, HistoryTypes,
       TypeOK

-----------------------------------------------------------------------------
(* Initial states.                                                         *)
LEMMA GatesInit == Init => GatesInv
<1> SUFFICES ASSUME Init PROVE GatesInv
  OBVIOUS
<1>1. TurnTypes /\ GateIsTaken
  BY DEF Init, TurnTypes, GateIsTaken, OnTheWay, Places, Answers
<1>2. RecordTypes
  BY GatesAssumption DEF Init, RecordTypes, Unread
<1>3. DecisionTypes
  BY DEF Init, DecisionTypes, DecisionStages, Verdicts
<1>4. GrantTypes /\ HistoryTypes
  BY DEF Init, GrantTypes, HistoryTypes
<1>8. CounterTypes
  BY GatesAssumption DEF Init, CounterTypes
<1>5. WaiterHoldsTheTurn /\ OpenGateIsPending
  BY DEF Init, WaiterHoldsTheTurn, OpenGateIsPending
<1>6. SectionHoldsLock
  BY DEF Init, SectionHoldsLock, InSection
<1>7. SlotsAreSingle
  BY DEF Init, SlotsAreSingle, OnePerSlot, Unread
<1> QED
  BY <1>1, <1>2, <1>3, <1>4, <1>5, <1>6, <1>7, <1>8 DEF GatesInv, Types

-----------------------------------------------------------------------------
(* Which actions change what.                                              *)

(* The rows and the snapshot of them.                                      *)
LEMMA RowsChange ==
  ASSUME [Next]_vars
  PROVE  \/ UNCHANGED <<rows, snapshot>>
         \/ ReadRecord \/ RaiseGate \/ RemoveRow \/ FinishCancelled \/ Crash
         \/ \E d \in Decisions : ClearRow(d)
<1> DEFINE Claim == \/ UNCHANGED <<rows, snapshot>>
                    \/ ReadRecord \/ RaiseGate \/ RemoveRow \/ FinishCancelled \/ Crash
                    \/ \E d \in Decisions : ClearRow(d)
<1>1. TurnStep => Claim
  BY DEF TurnStep, PinMode, Prepare, StartRound, StreamEnds, CallsOver, TakeCall,
         ConsumeReceipt, ListGrants, ReadRecord, RaiseGate, Resume, RemoveRow,
         RecordGrant, SpendOwnReceipt, InvokeTool, ToolReturns, FinishCancelled, EndTurn,
         turnVars, recordVars, StorePending, vars
<1>2. BeginTurn \/ Cancel \/ Crash \/ (\E m \in Modes : SetMode(m)) \/ UNCHANGED vars
      => Claim
  BY DEF BeginTurn, Cancel, SetMode, Crash, vars, turnVars, recordVars, StorePending
<1>3. ASSUME NEW d \in Decisions
      PROVE  NothingPending(d) \/ FindRow(d) \/ EnterSection(d) \/ Proceed(d) => Claim
  BY DEF Proceed, NothingPending, FindRow, EnterSection, SettleFound, MintReceipt,
         WriteMode, ClearRow, SettleLocked, turnVars, recordVars, StorePending, vars
<1> QED  BY <1>1, <1>2, <1>3 DEF Next

(* The calls of the decision routes and the lock.                          *)
LEMMA DecisionsChange ==
  ASSUME [Next]_vars
  PROVE  \/ UNCHANGED decisionVars
         \/ Crash
         \/ \E d \in Decisions :
              \/ NothingPending(d) \/ FindRow(d) \/ EnterSection(d)
              \/ SettleFound(d) \/ MintReceipt(d) \/ WriteMode(d)
              \/ ClearRow(d) \/ SettleLocked(d)
<1> DEFINE Claim == \/ UNCHANGED decisionVars
                    \/ Crash
                    \/ \E d \in Decisions :
                         \/ NothingPending(d) \/ FindRow(d) \/ EnterSection(d)
                         \/ SettleFound(d) \/ MintReceipt(d) \/ WriteMode(d)
                         \/ ClearRow(d) \/ SettleLocked(d)
<1>1. TurnStep => Claim
  BY DEF TurnStep, PinMode, Prepare, StartRound, StreamEnds, CallsOver, TakeCall,
         ConsumeReceipt, ListGrants, ReadRecord, RaiseGate, Resume, RemoveRow,
         RecordGrant, SpendOwnReceipt, InvokeTool, ToolReturns, FinishCancelled, EndTurn
<1>2. BeginTurn \/ Cancel \/ Crash \/ (\E m \in Modes : SetMode(m)) \/ UNCHANGED vars
      => Claim
  BY DEF BeginTurn, Cancel, SetMode, Crash, vars
<1>3. ASSUME NEW d \in Decisions
      PROVE  NothingPending(d) \/ FindRow(d) \/ EnterSection(d) \/ Proceed(d) => Claim
  BY DEF Proceed, NothingPending, FindRow, EnterSection, SettleFound, MintReceipt,
         WriteMode, ClearRow, SettleLocked, vars
<1> QED  BY <1>1, <1>2, <1>3 DEF Next

(* The waiters: one opens, decisions settle them, or all are given up.      *)
LEMMA WaitersChange ==
  ASSUME [Next]_vars
  PROVE  \/ waiters' = waiters \/ waiters' = {} \/ RaiseGate
         \/ \E d \in Decisions : SettleFound(d) \/ SettleLocked(d)
<1> DEFINE Claim == \/ waiters' = waiters \/ waiters' = {} \/ RaiseGate
                    \/ \E d \in Decisions : SettleFound(d) \/ SettleLocked(d)
<1>1. TurnStep => Claim
  BY DEF TurnStep, PinMode, Prepare, StartRound, StreamEnds, CallsOver, TakeCall,
         ConsumeReceipt, ListGrants, ReadRecord, RaiseGate, Resume, RemoveRow,
         RecordGrant, SpendOwnReceipt, InvokeTool, ToolReturns, FinishCancelled, EndTurn
<1>2. BeginTurn \/ Cancel \/ Crash \/ (\E m \in Modes : SetMode(m)) \/ UNCHANGED vars
      => Claim
  BY DEF BeginTurn, Cancel, SetMode, Crash, vars
<1>3. ASSUME NEW d \in Decisions
      PROVE  NothingPending(d) \/ FindRow(d) \/ EnterSection(d) \/ Proceed(d) => Claim
  BY DEF Proceed, NothingPending, FindRow, EnterSection, SettleFound, MintReceipt,
         WriteMode, ClearRow, SettleLocked, vars
<1> QED  BY <1>1, <1>2, <1>3 DEF Next

(* The receipts and the standing grant.                                    *)
LEMMA GrantsChange ==
  ASSUME [Next]_vars
  PROVE  UNCHANGED grantVars \/ ConsumeReceipt \/ RecordGrant \/ SpendOwnReceipt
         \/ \E d \in Decisions : MintReceipt(d)
<1> DEFINE Claim == UNCHANGED grantVars \/ ConsumeReceipt \/ RecordGrant \/ SpendOwnReceipt
                    \/ \E d \in Decisions : MintReceipt(d)
<1>1. TurnStep => Claim
  BY DEF TurnStep, PinMode, Prepare, StartRound, StreamEnds, CallsOver, TakeCall,
         ConsumeReceipt, ListGrants, ReadRecord, RaiseGate, Resume, RemoveRow,
         RecordGrant, SpendOwnReceipt, InvokeTool, ToolReturns, FinishCancelled,
         EndTurn, grantVars
<1>2. BeginTurn \/ Cancel \/ Crash \/ (\E m \in Modes : SetMode(m)) \/ UNCHANGED vars
      => Claim
  BY DEF BeginTurn, Cancel, SetMode, Crash, vars, grantVars
<1>3. ASSUME NEW d \in Decisions
      PROVE  NothingPending(d) \/ FindRow(d) \/ EnterSection(d) \/ Proceed(d) => Claim
  BY DEF Proceed, NothingPending, FindRow, EnterSection, SettleFound, MintReceipt,
         WriteMode, ClearRow, SettleLocked, grantVars
<1> QED  BY <1>1, <1>2, <1>3 DEF Next

(* The counters.                                                           *)
LEMMA CountersChange ==
  ASSUME [Next]_vars
  PROVE  UNCHANGED boundVars \/ BeginTurn \/ Crash
         \/ \E kind \in Kinds : TakeCall(kind)
<1> DEFINE Claim == UNCHANGED boundVars \/ BeginTurn \/ Crash
                    \/ \E kind \in Kinds : TakeCall(kind)
<1>1. TurnStep => Claim
  BY DEF TurnStep, PinMode, Prepare, StartRound, StreamEnds, CallsOver, TakeCall,
         ConsumeReceipt, ListGrants, ReadRecord, RaiseGate, Resume, RemoveRow,
         RecordGrant, SpendOwnReceipt, InvokeTool, ToolReturns, FinishCancelled,
         EndTurn, boundVars
<1>2. BeginTurn \/ Cancel \/ Crash \/ (\E m \in Modes : SetMode(m)) \/ UNCHANGED vars
      => Claim
  BY DEF BeginTurn, Cancel, SetMode, Crash, vars, boundVars
<1>3. ASSUME NEW d \in Decisions
      PROVE  NothingPending(d) \/ FindRow(d) \/ EnterSection(d) \/ Proceed(d) => Claim
  BY DEF Proceed, NothingPending, FindRow, EnterSection, SettleFound, MintReceipt,
         WriteMode, ClearRow, SettleLocked, boundVars
<1> QED  BY <1>1, <1>2, <1>3 DEF Next

(* What was accepted, minted and run.                                      *)
LEMMA HistoryChanges ==
  ASSUME [Next]_vars
  PROVE  UNCHANGED <<accepted, minted, ran>> \/ InvokeTool
         \/ \E d \in Decisions : SettleFound(d) \/ MintReceipt(d) \/ SettleLocked(d)
<1> DEFINE Claim == UNCHANGED <<accepted, minted, ran>> \/ InvokeTool
                    \/ \E d \in Decisions : SettleFound(d) \/ MintReceipt(d) \/ SettleLocked(d)
<1>1. TurnStep => Claim
  BY DEF TurnStep, PinMode, Prepare, StartRound, StreamEnds, CallsOver, TakeCall,
         ConsumeReceipt, ListGrants, ReadRecord, RaiseGate, Resume, RemoveRow,
         RecordGrant, SpendOwnReceipt, InvokeTool, ToolReturns, FinishCancelled,
         EndTurn, historyVars
<1>2. BeginTurn \/ Cancel \/ Crash \/ (\E m \in Modes : SetMode(m)) \/ UNCHANGED vars
      => Claim
  BY DEF BeginTurn, Cancel, SetMode, Crash, vars, historyVars
<1>3. ASSUME NEW d \in Decisions
      PROVE  NothingPending(d) \/ FindRow(d) \/ EnterSection(d) \/ Proceed(d) => Claim
  BY DEF Proceed, NothingPending, FindRow, EnterSection, SettleFound, MintReceipt,
         WriteMode, ClearRow, SettleLocked, historyVars
<1> QED  BY <1>1, <1>2, <1>3 DEF Next

-----------------------------------------------------------------------------
(* Types.                                                                  *)

LEMMA RowTypesKept ==
  ASSUME Types, [Next]_vars
  PROVE  rows' \subseteq Gates /\ snapshot' \in [rows : SUBSET Gates, mode : Modes]
<1> USE DEF Types, RecordTypes
<1>1. CASE UNCHANGED <<rows, snapshot>>
  BY <1>1
<1>2. CASE ReadRecord
  BY <1>2 DEF ReadRecord, recordVars
<1>3. CASE RaiseGate
  BY <1>3, GatesAssumption
  DEF RaiseGate, StorePending, With, Unread, TurnTypes, GateIsTaken, OnTheWay
<1>4. CASE RemoveRow
  BY <1>4, GatesAssumption DEF RemoveRow, StorePending, Unread, recordVars
<1>5. CASE FinishCancelled
  BY <1>5 DEF FinishCancelled, StorePending
<1>6. CASE Crash
  BY <1>6, GatesAssumption DEF Crash, Unread, recordVars
<1>7. CASE \E d \in Decisions : ClearRow(d)
  BY <1>7 DEF ClearRow, turnVars
<1>. QED  BY <1>1, <1>2, <1>3, <1>4, <1>5, <1>6, <1>7, RowsChange

(* Every step leaves the mode and the last sanctioned writer's mode alone, *)
(* or writes both.                                                         *)
LEMMA ModesWrittenTogether ==
  ASSUME [Next]_vars
  PROVE  UNCHANGED <<mode, lastMode>> \/ (mode' = lastMode' /\ mode' \in Modes)
<1> DEFINE Claim == UNCHANGED <<mode, lastMode>> \/ (mode' = lastMode' /\ mode' \in Modes)
<1>1. TurnStep => Claim
  BY DEF TurnStep, PinMode, Prepare, StartRound, StreamEnds, CallsOver, TakeCall,
         ConsumeReceipt, ListGrants, ReadRecord, RaiseGate, Resume, RemoveRow,
         RecordGrant, SpendOwnReceipt, InvokeTool, ToolReturns, FinishCancelled, EndTurn,
         recordVars, historyVars, StorePending, vars
<1>2. BeginTurn \/ Cancel \/ Crash \/ (\E m \in Modes : SetMode(m)) \/ UNCHANGED vars
      => Claim
  BY DEF BeginTurn, Cancel, SetMode, Crash, vars, recordVars, historyVars, StorePending
<1>3. ASSUME NEW d \in Decisions
      PROVE  NothingPending(d) \/ FindRow(d) \/ EnterSection(d) \/ Proceed(d) => Claim
  BY DEF Proceed, NothingPending, FindRow, EnterSection, SettleFound, MintReceipt,
         WriteMode, ClearRow, SettleLocked, recordVars, historyVars, StorePending, vars
<1> QED  BY <1>1, <1>2, <1>3 DEF Next

LEMMA TurnTypesKept ==
  ASSUME Types, [Next]_vars
  PROVE  TurnTypes' /\ GateIsTaken'
<1> USE DEF Types, TurnTypes, GateIsTaken, OnTheWay, Places, GoTo
<1>1. PinMode \/ Prepare \/ StartRound \/ StreamEnds \/ CallsOver \/ ConsumeReceipt
      \/ ListGrants \/ ReadRecord => TurnTypes' /\ GateIsTaken'
  BY DEF PinMode, Prepare, StartRound, StreamEnds, CallsOver, ConsumeReceipt, ListGrants,
         ReadRecord
<1>2. ASSUME NEW kind \in Kinds, TakeCall(kind) PROVE TurnTypes' /\ GateIsTaken'
  <2>1. opened + 1 \in 1..MaxGates
    BY <1>2, GatesAssumption DEF TakeCall, CounterTypes
  <2>2. gate' \in Gates
    BY <1>2, <2>1 DEF TakeCall, Gates
  <2>. QED  BY <1>2, <2>2 DEF TakeCall
<1>3. RaiseGate => TurnTypes' /\ GateIsTaken'
  BY DEF RaiseGate, Answers
<1>4. Resume \/ RemoveRow \/ RecordGrant \/ SpendOwnReceipt \/ InvokeTool \/ ToolReturns
      \/ FinishCancelled => TurnTypes' /\ GateIsTaken'
  BY DEF Resume, RemoveRow, RecordGrant, SpendOwnReceipt, InvokeTool, ToolReturns,
         FinishCancelled
<1>5. EndTurn \/ BeginTurn \/ Cancel \/ Crash => TurnTypes' /\ GateIsTaken'
  BY DEF EndTurn, BeginTurn, Cancel, Crash, Answers
<1>6. (\E m \in Modes : SetMode(m)) \/ UNCHANGED vars => TurnTypes' /\ GateIsTaken'
  BY DEF SetMode, turnVars, vars
<1>7. ASSUME NEW d \in Decisions
      PROVE  NothingPending(d) \/ FindRow(d) \/ EnterSection(d) \/ MintReceipt(d)
             \/ WriteMode(d) \/ ClearRow(d) => TurnTypes' /\ GateIsTaken'
  BY DEF NothingPending, FindRow, EnterSection, MintReceipt, WriteMode, ClearRow, turnVars
<1>8. ASSUME NEW d \in Decisions
      PROVE  SettleFound(d) \/ SettleLocked(d) => TurnTypes' /\ GateIsTaken'
  BY DEF SettleFound, SettleLocked, Deliver, DecisionTypes, Answers
<1>. QED
  BY <1>1, <1>2, <1>3, <1>4, <1>5, <1>6, <1>7, <1>8 DEF Next, TurnStep, Proceed

LEMMA DecisionTypesKept == ASSUME Types, [Next]_vars PROVE DecisionTypes'
<1> USE DEF Types, DecisionTypes, DecisionStages, Verdicts, Reach
<1>1. CASE UNCHANGED decisionVars
  BY <1>1 DEF decisionVars
<1>2. CASE Crash
  BY <1>2 DEF Crash
<1>3. ASSUME NEW d \in Decisions
      PROVE  NothingPending(d) \/ MintReceipt(d) \/ WriteMode(d) \/ ClearRow(d)
             => DecisionTypes'
  BY DEF NothingPending, MintReceipt, WriteMode, ClearRow
<1>4. ASSUME NEW d \in Decisions PROVE FindRow(d) \/ EnterSection(d) => DecisionTypes'
  BY DEF FindRow, EnterSection, Names, AfterFinding, RecordTypes
<1>5. ASSUME NEW d \in Decisions PROVE SettleFound(d) \/ SettleLocked(d) => DecisionTypes'
  BY DEF SettleFound, SettleLocked, Deliver
<1>. QED  BY <1>1, <1>2, <1>3, <1>4, <1>5, DecisionsChange

LEMMA GrantTypesKept == ASSUME Types, [Next]_vars PROVE GrantTypes'
<1> USE DEF Types, GrantTypes
<1>1. ConsumeReceipt \/ RecordGrant \/ SpendOwnReceipt => GrantTypes'
  <2>1. ConsumeReceipt \/ RecordGrant \/ SpendOwnReceipt => receipts' \in Nat
    BY DEF ConsumeReceipt, RecordGrant, SpendOwnReceipt
  <2>2. ConsumeReceipt \/ RecordGrant \/ SpendOwnReceipt => standing' \in BOOLEAN
    BY DEF ConsumeReceipt, RecordGrant, SpendOwnReceipt
  <2>. QED  BY <2>1, <2>2
<1>2. ASSUME NEW d \in Decisions, MintReceipt(d) PROVE GrantTypes'
  BY <1>2 DEF MintReceipt
<1>3. UNCHANGED grantVars => GrantTypes'
  BY DEF grantVars
<1>. QED  BY <1>1, <1>2, <1>3, GrantsChange

LEMMA CounterTypesKept == ASSUME Types, [Next]_vars PROVE CounterTypes'
<1> USE GatesAssumption DEF Types, CounterTypes
<1>1. CASE UNCHANGED boundVars
  BY <1>1 DEF boundVars
<1>2. CASE BeginTurn
  BY <1>2 DEF BeginTurn
<1>3. CASE \E kind \in Kinds : TakeCall(kind)
  BY <1>3 DEF TakeCall
<1>4. CASE Crash
  BY <1>4 DEF Crash
<1>. QED  BY <1>1, <1>2, <1>3, <1>4, CountersChange

LEMMA HistoryTypesKept == ASSUME Types, SectionHoldsLock, [Next]_vars PROVE HistoryTypes'
<1> USE DEF Types, HistoryTypes
<1>1. CASE UNCHANGED <<accepted, minted, ran>>
  BY <1>1
<1>2. CASE InvokeTool
  BY <1>2 DEF InvokeTool, GateIsTaken, OnTheWay
<1>3. ASSUME NEW d \in Decisions, MintReceipt(d) PROVE HistoryTypes'
  BY <1>3 DEF MintReceipt, SectionHoldsLock, InSection, RecordTypes
<1>4. ASSUME NEW d \in Decisions, SettleFound(d) \/ SettleLocked(d) PROVE HistoryTypes'
  BY <1>4 DEF SettleFound, SettleLocked, Deliver, TurnTypes
<1>. QED  BY <1>1, <1>2, <1>3, <1>4, HistoryChanges

LEMMA TypesKept == ASSUME Types, SectionHoldsLock, [Next]_vars PROVE Types'
<1>1. RecordTypes'
  BY RowTypesKept, ModesWrittenTogether DEF Types, RecordTypes
<1>. QED
  BY <1>1, TurnTypesKept, DecisionTypesKept, GrantTypesKept, CounterTypesKept,
     HistoryTypesKept DEF Types

-----------------------------------------------------------------------------
(* The waiter.                                                             *)

LEMMA WaiterKept ==
  ASSUME WaiterHoldsTheTurn, [Next]_vars
  PROVE  WaiterHoldsTheTurn'
<1> USE DEF WaiterHoldsTheTurn, GoTo
<1>1. TurnStep => WaiterHoldsTheTurn'
  BY DEF TurnStep, PinMode, Prepare, StartRound, StreamEnds, CallsOver, TakeCall,
         ConsumeReceipt, ListGrants, ReadRecord, RaiseGate, Resume, RemoveRow,
         RecordGrant, SpendOwnReceipt, InvokeTool, ToolReturns, FinishCancelled, EndTurn
<1>2. BeginTurn \/ Cancel \/ Crash \/ (\E m \in Modes : SetMode(m)) \/ UNCHANGED vars
      => WaiterHoldsTheTurn'
  BY DEF BeginTurn, Cancel, SetMode, Crash, vars, turnVars
<1>3. ASSUME NEW d \in Decisions
      PROVE  NothingPending(d) \/ FindRow(d) \/ EnterSection(d) \/ Proceed(d)
             => WaiterHoldsTheTurn'
  BY DEF Proceed, NothingPending, FindRow, EnterSection, SettleFound, MintReceipt,
         WriteMode, ClearRow, SettleLocked, Deliver, turnVars
<1> QED  BY <1>1, <1>2, <1>3 DEF Next

-----------------------------------------------------------------------------
(* The sections of the decisions that hold the record's lock.              *)

(* Outside a section the rows are written only while none is under way.    *)
LEMMA SectionKept ==
  ASSUME Types, SectionHoldsLock, [Next]_vars
  PROVE  SectionHoldsLock'
<1> USE DEF Types, DecisionTypes, InSection
<1>1. ASSUME UNCHANGED decisionVars PROVE SectionHoldsLock'
  <2>1. CASE UNCHANGED <<rows, snapshot>>
    BY <1>1, <2>1 DEF decisionVars, SectionHoldsLock
  <2>2. CASE RowsWritten
    <3>1. lock = NoCall
      BY <2>2 DEF RowsWritten, ReadRecord, RaiseGate, RemoveRow, FinishCancelled, RecordFree
    <3>2. ASSUME NEW d \in Decisions PROVE ~InSection(d)
      BY <3>1, GatesAssumption DEF SectionHoldsLock
    <3>. QED  BY <1>1, <3>2 DEF decisionVars, SectionHoldsLock
  <2>3. ASSUME NEW d \in Decisions, ClearRow(d) PROVE FALSE
    BY <1>1, <2>3 DEF ClearRow, Reach, decisionVars
  <2>4. CASE Crash
    BY <2>4 DEF Crash, SectionHoldsLock, DecisionStages
  <2>. QED  BY <2>1, <2>2, <2>3, <2>4, RowsChange DEF RowsWritten
<1>2. CASE Crash
  BY <1>2 DEF Crash, SectionHoldsLock, DecisionStages
<1>3. ASSUME NEW d \in Decisions, NothingPending(d) \/ FindRow(d) \/ SettleFound(d)
      PROVE  SectionHoldsLock'
  <2>1. UNCHANGED <<rows, lock>>
    BY <1>3 DEF NothingPending, FindRow, SettleFound, recordVars
  <2>2. ~InSection(d) /\ ~InSection(d)'
    BY <1>3 DEF NothingPending, FindRow, SettleFound, Deliver, Reach
  <2>3. ASSUME NEW e \in Decisions, e # d PROVE UNCHANGED <<stage[e], deciding[e]>>
    BY <1>3, <2>3 DEF NothingPending, FindRow, SettleFound, Deliver, Reach, Names
  <2>. QED  BY <2>1, <2>2, <2>3 DEF SectionHoldsLock
<1>4. ASSUME NEW d \in Decisions, EnterSection(d) PROVE SectionHoldsLock'
  <2>1. UNCHANGED rows /\ lock = NoCall /\ lock' = d
    BY <1>4 DEF EnterSection, RecordFree, recordVars
  <2>2. deciding'[d] \in rows /\ deciding'[d].kind # "tool"
    BY <1>4 DEF EnterSection, Names
  <2>3. ASSUME NEW e \in Decisions, e # d PROVE ~InSection(e)'
    <3>1. ~InSection(e)
      BY <2>1, GatesAssumption DEF SectionHoldsLock
    <3>. QED  BY <1>4, <2>3, <3>1 DEF EnterSection, Names, Reach
  <2>. QED  BY <2>1, <2>2, <2>3 DEF SectionHoldsLock
<1>5. ASSUME NEW d \in Decisions,
             MintReceipt(d) \/ WriteMode(d) \/ ClearRow(d) \/ SettleLocked(d)
      PROVE  SectionHoldsLock'
  <2>1. lock = d /\ deciding[d].kind # "tool" /\ UNCHANGED deciding
    BY <1>5 DEF MintReceipt, WriteMode, ClearRow, SettleLocked, SectionHoldsLock
  <2>2. ASSUME NEW e \in Decisions, e # d PROVE ~InSection(e)'
    <3>1. ~InSection(e)
      BY <2>1, <2>2 DEF SectionHoldsLock
    <3>. QED
      BY <1>5, <2>2, <3>1 DEF MintReceipt, WriteMode, ClearRow, SettleLocked, Deliver, Reach
  <2>3. InSection(d)' => lock' = d
    BY <1>5, <2>1 DEF MintReceipt, WriteMode, ClearRow, SettleLocked, Deliver, Reach
  <2>4. stage'[d] \in {"minting", "moding", "clearing"} => deciding[d] \in rows'
    BY <1>5 DEF MintReceipt, WriteMode, ClearRow, SettleLocked, Deliver, Reach, recordVars,
                SectionHoldsLock
  <2>. QED  BY <2>1, <2>2, <2>3, <2>4 DEF SectionHoldsLock
<1>. QED  BY <1>1, <1>2, <1>3, <1>4, <1>5, DecisionsChange

-----------------------------------------------------------------------------
(* The rows.                                                               *)

LEMMA SlotsKept ==
  ASSUME SlotsAreSingle, [Next]_vars
  PROVE  SlotsAreSingle'
<1> USE DEF SlotsAreSingle, OnePerSlot
<1>1. CASE UNCHANGED <<rows, snapshot>>
  BY <1>1
<1>2. CASE ReadRecord
  BY <1>2 DEF ReadRecord, recordVars
<1>3. CASE RaiseGate
  BY <1>3 DEF RaiseGate, StorePending, With, Unread
<1>4. CASE RemoveRow
  BY <1>4 DEF RemoveRow, StorePending, Unread, recordVars
<1>5. CASE FinishCancelled
  BY <1>5 DEF FinishCancelled, StorePending
<1>6. CASE Crash
  BY <1>6 DEF Crash, Unread, recordVars
<1>7. CASE \E d \in Decisions : ClearRow(d)
  BY <1>7 DEF ClearRow, turnVars
<1>. QED  BY <1>1, <1>2, <1>3, <1>4, <1>5, <1>6, <1>7, RowsChange

(* A gate whose row is gone is about to be settled.                        *)
Found(g) == g \in rows \/ \E d \in Decisions : stage[d] = "resolving" /\ deciding[d] = g

(* No step but the one that settles a gate takes it from those found.      *)
LEMMA FoundKept ==
  ASSUME Types, SlotsAreSingle, SectionHoldsLock, WaiterHoldsTheTurn, [Next]_vars,
         NEW g, Found(g), g \in waiters, g \in waiters'
  PROVE  Found(g)'
<1> USE DEF Types, DecisionTypes
<1>1. at = "waiting" /\ gate = g
  BY DEF WaiterHoldsTheTurn
<1>2. ~Crash
  BY DEF Crash
<1>3. ASSUME g \in rows PROVE Found(g)'
  <2>1. CASE UNCHANGED <<rows, snapshot>>
    BY <1>3, <2>1 DEF Found
  <2>2. CASE RowsWritten
    BY <1>1, <2>2 DEF RowsWritten, ReadRecord, RaiseGate, RemoveRow, FinishCancelled
  <2>3. ASSUME NEW d \in Decisions, ClearRow(d) PROVE Found(g)'
    BY <1>3, <2>3 DEF ClearRow, Reach, Found, SlotsAreSingle, OnePerSlot, SectionHoldsLock,
                      InSection
  <2>. QED  BY <1>2, <2>1, <2>2, <2>3, RowsChange DEF RowsWritten
<1>4. ASSUME NEW e \in Decisions, stage[e] = "resolving", deciding[e] = g PROVE Found(g)'
  <2>1. CASE UNCHANGED decisionVars
    BY <1>4, <2>1 DEF decisionVars, Found
  <2>2. ASSUME NEW d \in Decisions,
               NothingPending(d) \/ FindRow(d) \/ EnterSection(d) \/ MintReceipt(d)
               \/ WriteMode(d) \/ ClearRow(d) \/ SettleFound(d)
        PROVE  Found(g)'
    BY <1>4, <2>2 DEF NothingPending, FindRow, EnterSection, MintReceipt, WriteMode, ClearRow,
                      SettleFound, Deliver, Names, Reach, Found
  <2>3. ASSUME NEW d \in Decisions, SettleLocked(d) PROVE Found(g)'
    BY <1>4, <2>3 DEF SettleLocked, Deliver, Reach, Found
  <2>. QED  BY <1>2, <2>1, <2>2, <2>3, DecisionsChange
<1>. QED  BY <1>3, <1>4 DEF Found

LEMMA PendingKept ==
  ASSUME Types, SlotsAreSingle, SectionHoldsLock, WaiterHoldsTheTurn, OpenGateIsPending,
         [Next]_vars
  PROVE  OpenGateIsPending'
<1> SUFFICES ASSUME NEW g \in waiters' PROVE Found(g)'
  BY DEF OpenGateIsPending, Found
<1>1. CASE g \in waiters
  BY <1>1, FoundKept DEF OpenGateIsPending, Found
<1>2. CASE g \notin waiters
  <2>1. RaiseGate
    BY <1>2, WaitersChange DEF SettleFound, SettleLocked, Deliver
  <2>. QED  BY <1>2, <2>1 DEF RaiseGate, StorePending, With, Found
<1>. QED  BY <1>1, <1>2

-----------------------------------------------------------------------------
LEMMA GatesInvariant == Spec => []GatesInv
<1>1. GatesInv /\ [Next]_vars => GatesInv'
  BY TypesKept, WaiterKept, SectionKept, SlotsKept, PendingKept DEF GatesInv
<1>. QED  BY <1>1, GatesInit, PTL DEF Spec

(* Every variable keeps its type, through cancels, decisions and restarts. *)
THEOREM GateTypes == Spec => []TypeOK
BY GatesInvariant, TypesAreTypeOK, PTL DEF GatesInv

(* An open waiter is always that of the gate the live turn waits at, and   *)
(* the turn has not been told to stop: no decision that is accepted goes   *)
(* to another call than the one it was asked about (gate-waiters.ts).      *)
THEOREM WaitersHoldTheTurn == Spec => []WaiterHoldsTheTurn
BY GatesInvariant, PTL DEF GatesInv

(* No turn waits at a gate the routes cannot find: its row is pending, or  *)
(* the decision that cleared it is about to settle the waiter.             *)
THEOREM OpenGatesArePending == Spec => []OpenGateIsPending
BY GatesInvariant, PTL DEF GatesInv

(* The mode of the session is what its last sanctioned writer wrote,       *)
(* whatever the turn stores from an older snapshot (persist).              *)
THEOREM ModesAreSanctioned == Spec => []ModeIsLastWritten
<1>1. Init => ModeIsLastWritten
  BY DEF Init, ModeIsLastWritten
<1>2. ModeIsLastWritten /\ [Next]_vars => ModeIsLastWritten'
  BY ModesWrittenTogether DEF ModeIsLastWritten
<1>. QED  BY <1>1, <1>2, PTL DEF Spec

-----------------------------------------------------------------------------
(* The life of a turn.                                                     *)

IdleIsUntold == at = "idle" => ~aborted

LEMMA UntoldKept == ASSUME IdleIsUntold, [Next]_vars PROVE IdleIsUntold'
<1> USE DEF IdleIsUntold, GoTo
<1>1. TurnStep => IdleIsUntold'
  BY DEF TurnStep, PinMode, Prepare, StartRound, StreamEnds, CallsOver, TakeCall,
         ConsumeReceipt, ListGrants, ReadRecord, RaiseGate, Resume, RemoveRow,
         RecordGrant, SpendOwnReceipt, InvokeTool, ToolReturns, FinishCancelled, EndTurn
<1>2. BeginTurn \/ Cancel \/ Crash \/ (\E m \in Modes : SetMode(m)) \/ UNCHANGED vars
      => IdleIsUntold'
  BY DEF BeginTurn, Cancel, SetMode, Crash, vars, turnVars
<1>3. ASSUME NEW d \in Decisions
      PROVE  NothingPending(d) \/ FindRow(d) \/ EnterSection(d) \/ Proceed(d)
             => IdleIsUntold'
  BY DEF Proceed, NothingPending, FindRow, EnterSection, SettleFound, MintReceipt,
         WriteMode, ClearRow, SettleLocked, Deliver, turnVars
<1> QED  BY <1>1, <1>2, <1>3 DEF Next

(* Between the first and the last of its steps the turn works, but while   *)
(* it waits.                                                               *)
LEMMA StepOfLife ==
  ASSUME WaiterHoldsTheTurn, IdleIsUntold, [Next]_vars
  PROVE  [Life!Next]_(Life!lifeVars)
<1> USE DEF WaiterHoldsTheTurn, GoTo, Life!lifeVars, Life!Next
<1>1. ASSUME PinMode \/ StartRound \/ CallsOver \/ (\E kind \in Kinds : TakeCall(kind))
             \/ ConsumeReceipt \/ ListGrants \/ ReadRecord \/ Resume \/ RemoveRow
             \/ RecordGrant \/ SpendOwnReceipt \/ InvokeTool \/ ToolReturns
      PROVE  UNCHANGED Life!lifeVars
  BY <1>1 DEF PinMode, StartRound, CallsOver, TakeCall, ConsumeReceipt, ListGrants,
              ReadRecord, Resume, RemoveRow, RecordGrant, SpendOwnReceipt, InvokeTool,
              ToolReturns
<1>2. ASSUME Prepare \/ StreamEnds \/ FinishCancelled
      PROVE  Life!Decide \/ UNCHANGED Life!lifeVars
  BY <1>2 DEF Prepare, StreamEnds, FinishCancelled, Life!Decide
<1>3. ASSUME RaiseGate PROVE Life!Wait \/ UNCHANGED Life!lifeVars
  BY <1>3 DEF RaiseGate, Life!Wait
<1>4. ASSUME EndTurn PROVE Life!End
  BY <1>4 DEF EndTurn, Life!End
<1>5. ASSUME BeginTurn PROVE Life!Start
  BY <1>5 DEF BeginTurn, Life!Start, IdleIsUntold
<1>6. ASSUME Cancel PROVE Life!Tell
  BY <1>6 DEF Cancel, Life!Tell
<1>7. ASSUME Crash PROVE Life!Die
  BY <1>7 DEF Crash, Life!Die
<1>8. ASSUME NEW d \in Decisions, SettleFound(d) \/ SettleLocked(d)
      PROVE  Life!GoOn \/ UNCHANGED Life!lifeVars
  <2>1. UNCHANGED <<at, aborted>>
    BY <1>8 DEF SettleFound, SettleLocked, Deliver
  <2>2. waiters' = waiters \/ (waiters # {} /\ waiters' = {})
    BY <1>8 DEF SettleFound, SettleLocked, Deliver
  <2>. QED  BY <2>1, <2>2 DEF Life!GoOn
<1>9. ASSUME \/ UNCHANGED vars \/ \E m \in Modes : SetMode(m)
             \/ \E d \in Decisions : \/ NothingPending(d) \/ FindRow(d) \/ EnterSection(d)
                                     \/ MintReceipt(d) \/ WriteMode(d) \/ ClearRow(d)
      PROVE  UNCHANGED Life!lifeVars
  BY <1>9 DEF vars, SetMode, NothingPending, FindRow, EnterSection, MintReceipt, WriteMode,
              ClearRow, turnVars
<1>. QED
  BY <1>1, <1>2, <1>3, <1>4, <1>5, <1>6, <1>7, <1>8, <1>9 DEF Next, TurnStep, Proceed

(* The turn that executeTurn carries out lives as the controller that      *)
(* admits and cancels it expects: it goes on at once when it is told to    *)
(* stop, never waits after, and ends once.                                 *)
THEOREM GatesLiveOneLife == Spec => ImplementsTurnLife
<1>1. Init => Life!Init
  BY DEF Init, Life!Init
<1>2. Init => IdleIsUntold
  BY DEF Init, IdleIsUntold
<1>3. Spec => []IdleIsUntold
  BY <1>2, UntoldKept, PTL DEF Spec
<1>4. Spec => []WaiterHoldsTheTurn
  BY GatesInvariant, PTL DEF GatesInv
<1>5. WaiterHoldsTheTurn /\ IdleIsUntold /\ [Next]_vars => [Life!Next]_(Life!lifeVars)
  BY StepOfLife
<1>. QED  BY <1>1, <1>3, <1>4, <1>5, PTL DEF Spec, ImplementsTurnLife, Life!Spec

-----------------------------------------------------------------------------
(* Approvals and what they pay for.                                        *)

(* The gates of a session are numbered as calls come to them.              *)
Numbered(set) == \A g \in set : g.id <= opened
GatesAreNumbered ==
  /\ gate # NoGate => gate.id <= opened
  /\ Numbered(rows) /\ Numbered(snapshot.rows) /\ Numbered(accepted)
  /\ \A p \in minted : p[1].id <= opened

(* A gate is not accepted before its waiter opens, nor while it is open.   *)
BeforeTheGate == {"checking", "listing", "reading", "raising"}
AcceptedOnce ==
  /\ at \in BeforeTheGate => gate \notin accepted
  /\ waiters \cap accepted = {}

(* A decision mints once, in its section, and is past it ever after.       *)
MintersArePast == \A p \in minted : stage[p[2]] \notin {"new", "found", "minting"}

(* The receipt awaitApproval wrote is there for it to spend.               *)
ReceiptInHand == at = "spending" => receipts > 0

HistoryIsFinite == IsFiniteSet(accepted) /\ IsFiniteSet(minted) /\ IsFiniteSet(ran)

(* A right the turn has taken and not used: an approval on its way to the  *)
(* grant store, or the call about to be invoked on one.                    *)
InTransit ==
  \/ at = "invoking"
  \/ /\ answer \in {"approve", "allow_session"}
     /\ \/ at = "granting"
        \/ at \in {"waiting", "clearing", "removing"} /\ gate.kind = "tool"
Transit == IF InTransit THEN 1 ELSE 0

Given == Cardinality(Approved("tool")) + Cardinality(minted)
Taken == Cardinality(ran) + receipts + Transit
RightsAreCounted == ~standing => Taken <= Given

RightsInv ==
  /\ GatesAreNumbered /\ AcceptedOnce /\ MintersArePast
  /\ ReceiptInHand /\ HistoryIsFinite /\ RightsAreCounted

LEMMA RightsInit == Init => RightsInv
<1> SUFFICES ASSUME Init PROVE RightsInv
  OBVIOUS
<1>1. GatesAreNumbered /\ AcceptedOnce /\ MintersArePast /\ ReceiptInHand
  BY DEF Init, GatesAreNumbered, Numbered, AcceptedOnce, BeforeTheGate, MintersArePast,
         ReceiptInHand, Unread
<1>2. HistoryIsFinite
  BY FS_EmptySet DEF Init, HistoryIsFinite
<1>3. Approved("tool") = {} /\ minted = {} /\ ran = {} /\ receipts = 0 /\ Transit = 0
  BY DEF Init, Approved, Transit, InTransit
<1>4. Cardinality({}) = 0
  BY FS_EmptySet
<1>. QED  BY <1>1, <1>2, <1>3, <1>4 DEF RightsInv, RightsAreCounted, Given, Taken

LEMMA GateChanges ==
  ASSUME [Next]_vars
  PROVE  UNCHANGED gate \/ gate' = NoGate \/ \E kind \in Kinds : TakeCall(kind)
<1> DEFINE Claim == UNCHANGED gate \/ gate' = NoGate \/ \E kind \in Kinds : TakeCall(kind)
<1>1. TurnStep => Claim
  BY DEF TurnStep, PinMode, Prepare, StartRound, StreamEnds, CallsOver, TakeCall,
         ConsumeReceipt, ListGrants, ReadRecord, RaiseGate, Resume, RemoveRow,
         RecordGrant, SpendOwnReceipt, InvokeTool, ToolReturns, FinishCancelled, EndTurn
<1>2. BeginTurn \/ Cancel \/ Crash \/ (\E m \in Modes : SetMode(m)) \/ UNCHANGED vars
      => Claim
  BY DEF BeginTurn, Cancel, SetMode, Crash, vars, turnVars
<1>3. ASSUME NEW d \in Decisions
      PROVE  NothingPending(d) \/ FindRow(d) \/ EnterSection(d) \/ Proceed(d) => Claim
  BY DEF Proceed, NothingPending, FindRow, EnterSection, SettleFound, MintReceipt,
         WriteMode, ClearRow, SettleLocked, turnVars
<1> QED  BY <1>1, <1>2, <1>3 DEF Next

(* The rows come from the rows, the rows read, and the gate that is raised.*)
LEMMA RowsComeFrom ==
  ASSUME GatesInv, [Next]_vars
  PROVE  /\ gate \in Gates => rows' \subseteq rows \cup snapshot.rows \cup {gate}
         /\ gate \notin Gates => rows' \subseteq rows \cup snapshot.rows
         /\ snapshot'.rows \subseteq rows \cup snapshot.rows
<1> USE DEF GatesInv, Types, RecordTypes
<1>1. CASE UNCHANGED <<rows, snapshot>>
  BY <1>1
<1>2. CASE ReadRecord
  BY <1>2 DEF ReadRecord, recordVars
<1>3. CASE RaiseGate
  BY <1>3 DEF RaiseGate, StorePending, With, Unread, GateIsTaken, OnTheWay
<1>4. CASE RemoveRow
  BY <1>4 DEF RemoveRow, StorePending, Unread, recordVars
<1>5. CASE FinishCancelled
  BY <1>5 DEF FinishCancelled, StorePending
<1>6. CASE Crash
  BY <1>6 DEF Crash, Unread, recordVars
<1>7. CASE \E d \in Decisions : ClearRow(d)
  BY <1>7 DEF ClearRow, turnVars
<1>. QED  BY <1>1, <1>2, <1>3, <1>4, <1>5, <1>6, <1>7, RowsChange

LEMMA NumberedKept ==
  ASSUME GatesInv, GatesAreNumbered, [Next]_vars
  PROVE  GatesAreNumbered'
<1> USE DEF GatesInv, Types
<1>1. opened \in Nat /\ opened' \in Nat /\ opened <= opened'
  <2>1. opened \in Nat
    BY GatesAssumption DEF CounterTypes
  <2>2. opened' = opened \/ opened' = opened + 1
    BY CountersChange DEF boundVars, BeginTurn, Crash, TakeCall
  <2>. QED  BY <2>1, <2>2
<1>2. \A g \in Gates : g.id \in Nat
  BY GatesAssumption DEF Gates
<1>3. \A g \in Gates : g.id <= opened => g.id <= opened'
  BY <1>1, <1>2
<1>4. (gate # NoGate => gate.id <= opened)'
  <2>1. CASE UNCHANGED gate
    BY <1>3, <2>1 DEF GatesAreNumbered, TurnTypes
  <2>2. ASSUME NEW kind \in Kinds, TakeCall(kind) PROVE gate'.id <= opened'
    BY <1>1, <2>2 DEF TakeCall
  <2>. QED  BY <2>1, <2>2, GateChanges
<1>5. Numbered(rows)' /\ Numbered(snapshot.rows)'
  <2>1. \A g \in rows \cup snapshot.rows : g.id <= opened'
    BY <1>3 DEF GatesAreNumbered, Numbered, RecordTypes
  <2>2. gate \in Gates => gate.id <= opened'
    BY <1>3, NoGateAssumption DEF GatesAreNumbered
  <2>. QED  BY <2>1, <2>2, RowsComeFrom DEF Numbered
<1>6. Numbered(accepted)'
  <2>1. accepted' \subseteq accepted \cup waiters
    BY HistoryChanges DEF InvokeTool, SettleFound, SettleLocked, Deliver, MintReceipt
  <2>2. \A g \in waiters : g \in Gates /\ g.id <= opened'
    BY <1>3, NoGateAssumption DEF WaiterHoldsTheTurn, TurnTypes, GatesAreNumbered
  <2>3. \A g \in accepted : g.id <= opened'
    BY <1>3 DEF GatesAreNumbered, Numbered, HistoryTypes
  <2>. QED  BY <2>1, <2>2, <2>3 DEF Numbered
<1>7. (\A p \in minted : p[1].id <= opened)'
  <2>1. \A p \in minted : p[1].id <= opened'
    BY <1>3 DEF GatesAreNumbered, HistoryTypes
  <2>2. ASSUME NEW d \in Decisions, MintReceipt(d) PROVE deciding[d].id <= opened'
    <3>1. deciding[d] \in rows
      BY <2>2 DEF MintReceipt, SectionHoldsLock
    <3>. QED  BY <1>3, <3>1 DEF GatesAreNumbered, Numbered, RecordTypes
  <2>3. CASE minted' = minted
    BY <2>1, <2>3
  <2>4. ASSUME NEW d \in Decisions, MintReceipt(d) PROVE \A p \in minted' : p[1].id <= opened'
    <3>1. minted' = minted \cup {<<deciding[d], d>>}
      BY <2>4 DEF MintReceipt
    <3>. QED  BY <2>1, <2>2, <2>4, <3>1
  <2>. QED  BY <2>3, <2>4, HistoryChanges DEF InvokeTool, SettleFound, SettleLocked
<1>. QED  BY <1>4, <1>5, <1>6, <1>7 DEF GatesAreNumbered

LEMMA AcceptedOnceKept ==
  ASSUME GatesInv, GatesAreNumbered, AcceptedOnce, [Next]_vars
  PROVE  AcceptedOnce'
<1> USE DEF AcceptedOnce, BeforeTheGate, GoTo
<1>1. ASSUME NEW kind \in Kinds, TakeCall(kind) PROVE AcceptedOnce'
  <2>1. opened \in Nat
    BY GatesAssumption DEF GatesInv, Types, CounterTypes
  <2>2. gate'.id = opened + 1 /\ UNCHANGED <<accepted, waiters>>
    BY <1>1 DEF TakeCall, historyVars
  <2>3. gate' \notin accepted
    BY <2>1, <2>2 DEF GatesAreNumbered, Numbered
  <2>. QED  BY <2>2, <2>3
<1>2. PinMode \/ Prepare \/ StartRound \/ StreamEnds \/ CallsOver \/ ConsumeReceipt
      \/ ListGrants \/ ReadRecord \/ RaiseGate \/ Resume \/ RemoveRow \/ RecordGrant
      \/ SpendOwnReceipt \/ InvokeTool \/ ToolReturns \/ FinishCancelled \/ EndTurn
      => AcceptedOnce'
  BY DEF PinMode, Prepare, StartRound, StreamEnds, CallsOver, ConsumeReceipt, ListGrants,
         ReadRecord, RaiseGate, Resume, RemoveRow, RecordGrant, SpendOwnReceipt, InvokeTool,
         ToolReturns, FinishCancelled, EndTurn, historyVars
<1>3. BeginTurn \/ Cancel \/ Crash \/ (\E m \in Modes : SetMode(m)) \/ UNCHANGED vars
      => AcceptedOnce'
  BY DEF BeginTurn, Cancel, SetMode, Crash, vars, turnVars, historyVars
<1>4. ASSUME NEW d \in Decisions
      PROVE  NothingPending(d) \/ FindRow(d) \/ EnterSection(d) \/ MintReceipt(d)
             \/ WriteMode(d) \/ ClearRow(d) => AcceptedOnce'
  BY DEF NothingPending, FindRow, EnterSection, MintReceipt, WriteMode, ClearRow, turnVars,
         historyVars
<1>5. ASSUME NEW d \in Decisions, SettleFound(d) \/ SettleLocked(d) PROVE AcceptedOnce'
  BY <1>5 DEF SettleFound, SettleLocked, Deliver, GatesInv, WaiterHoldsTheTurn
<1>. QED  BY <1>1, <1>2, <1>3, <1>4, <1>5 DEF Next, TurnStep, Proceed

LEMMA MintersKept ==
  ASSUME GatesInv, MintersArePast, [Next]_vars
  PROVE  MintersArePast'
<1> USE DEF GatesInv, Types, DecisionTypes, HistoryTypes, MintersArePast, Reach
<1>1. CASE UNCHANGED decisionVars
  <2>1. UNCHANGED <<stage, minted>>
    BY <1>1, HistoryChanges DEF decisionVars, InvokeTool, SettleFound, SettleLocked,
                                MintReceipt
  <2>. QED  BY <2>1
<1>2. CASE Crash
  BY <1>2 DEF Crash, historyVars
<1>3. ASSUME NEW d \in Decisions, MintReceipt(d) PROVE MintersArePast'
  BY <1>3 DEF MintReceipt
<1>4. ASSUME NEW d \in Decisions,
             NothingPending(d) \/ FindRow(d) \/ EnterSection(d) \/ SettleFound(d)
             \/ WriteMode(d) \/ ClearRow(d) \/ SettleLocked(d)
      PROVE  MintersArePast'
  <2>1. minted' = minted
    BY <1>4 DEF NothingPending, FindRow, EnterSection, SettleFound, WriteMode, ClearRow,
                SettleLocked, historyVars
  <2>2. \A e \in Decisions : stage'[e] = stage[e] \/ e = d
    BY <1>4 DEF NothingPending, FindRow, EnterSection, SettleFound, WriteMode, ClearRow,
                SettleLocked, Deliver
  <2>3. stage[d] \in {"new", "found", "minting"}
        \/ stage'[d] \notin {"new", "found", "minting"}
    BY <1>4 DEF NothingPending, FindRow, EnterSection, SettleFound, WriteMode, ClearRow,
                SettleLocked, Deliver
  <2>. QED  BY <2>1, <2>2, <2>3
<1>. QED  BY <1>1, <1>2, <1>3, <1>4, DecisionsChange

LEMMA ReceiptKept ==
  ASSUME Types, ReceiptInHand, [Next]_vars
  PROVE  ReceiptInHand'
<1> USE DEF Types, GrantTypes, ReceiptInHand, GoTo
<1>1. TurnStep => ReceiptInHand'
  BY DEF TurnStep, PinMode, Prepare, StartRound, StreamEnds, CallsOver, TakeCall,
         ConsumeReceipt, ListGrants, ReadRecord, RaiseGate, Resume, RemoveRow,
         RecordGrant, SpendOwnReceipt, InvokeTool, ToolReturns, FinishCancelled, EndTurn
<1>2. BeginTurn \/ Cancel \/ Crash \/ (\E m \in Modes : SetMode(m)) \/ UNCHANGED vars
      => ReceiptInHand'
  BY DEF BeginTurn, Cancel, SetMode, Crash, vars, turnVars, grantVars
<1>3. ASSUME NEW d \in Decisions
      PROVE  NothingPending(d) \/ FindRow(d) \/ EnterSection(d) \/ Proceed(d)
             => ReceiptInHand'
  BY DEF Proceed, NothingPending, FindRow, EnterSection, SettleFound, MintReceipt,
         WriteMode, ClearRow, SettleLocked, Deliver, turnVars, grantVars
<1> QED  BY <1>1, <1>2, <1>3 DEF Next

LEMMA FiniteKept ==
  ASSUME HistoryIsFinite, [Next]_vars
  PROVE  HistoryIsFinite'
<1> USE DEF HistoryIsFinite
<1>1. CASE UNCHANGED <<accepted, minted, ran>>
  BY <1>1
<1>2. CASE InvokeTool
  BY <1>2, FS_AddElement DEF InvokeTool
<1>3. ASSUME NEW d \in Decisions, MintReceipt(d) PROVE HistoryIsFinite'
  BY <1>3, FS_AddElement DEF MintReceipt
<1>4. ASSUME NEW d \in Decisions, SettleFound(d) \/ SettleLocked(d) PROVE HistoryIsFinite'
  BY <1>4, FS_AddElement DEF SettleFound, SettleLocked, Deliver
<1>. QED  BY <1>1, <1>2, <1>3, <1>4, HistoryChanges

(* The counts are numbers.                                                 *)
LEMMA RightsAreNumbers ==
  ASSUME Types, HistoryIsFinite
  PROVE  /\ Cardinality(ran) \in Nat /\ Cardinality(minted) \in Nat
         /\ Cardinality(Approved("tool")) \in Nat /\ IsFiniteSet(Approved("tool"))
         /\ receipts \in Nat /\ Transit \in Nat /\ Transit <= 1
<1>1. Approved("tool") \subseteq accepted
  BY DEF Approved
<1>2. IsFiniteSet(Approved("tool"))
  BY <1>1, FS_Subset DEF HistoryIsFinite
<1>. QED
  BY <1>2, FS_CardinalityType DEF HistoryIsFinite, Types, GrantTypes, Transit

(* No step but those that use the grants brings a right on its way.        *)
LEMMA TransitChanges ==
  ASSUME WaiterHoldsTheTurn, ~standing, [Next]_vars
  PROVE  \/ UNCHANGED <<receipts, accepted, minted, ran>> /\ (InTransit' => InTransit)
         \/ ConsumeReceipt \/ RecordGrant \/ SpendOwnReceipt \/ InvokeTool
         \/ \E d \in Decisions : SettleFound(d) \/ MintReceipt(d) \/ SettleLocked(d)
<1> DEFINE Kept == UNCHANGED <<receipts, accepted, minted, ran>> /\ (InTransit' => InTransit)
<1> USE DEF InTransit, GoTo, historyVars, grantVars
<1>1. PinMode \/ Prepare \/ StartRound \/ StreamEnds \/ CallsOver
      \/ (\E kind \in Kinds : TakeCall(kind)) \/ ListGrants \/ ReadRecord => Kept
  BY DEF PinMode, Prepare, StartRound, StreamEnds, CallsOver, TakeCall, ListGrants,
         ReadRecord
<1>2. RaiseGate \/ Resume \/ RemoveRow \/ ToolReturns \/ FinishCancelled \/ EndTurn => Kept
  BY DEF RaiseGate, Resume, RemoveRow, ToolReturns, FinishCancelled, EndTurn
<1>3. BeginTurn \/ Cancel \/ Crash \/ (\E m \in Modes : SetMode(m)) \/ UNCHANGED vars
      => Kept
  BY DEF BeginTurn, Cancel, SetMode, Crash, vars, turnVars
<1>4. ASSUME NEW d \in Decisions
      PROVE  NothingPending(d) \/ FindRow(d) \/ EnterSection(d) \/ WriteMode(d)
             \/ ClearRow(d) => Kept
  BY DEF NothingPending, FindRow, EnterSection, WriteMode, ClearRow, turnVars
<1>. QED  BY <1>1, <1>2, <1>3, <1>4 DEF Next, TurnStep, Proceed

(* An approval that is accepted is a right more, and so is a receipt that  *)
(* is minted; every other step turns one form of a right into the next, or *)
(* drops it.                                                               *)
LEMMA RightsKept ==
  ASSUME GatesInv, AcceptedOnce, MintersArePast, ReceiptInHand, HistoryIsFinite,
         HistoryIsFinite', Types', RightsAreCounted, [Next]_vars
  PROVE  RightsAreCounted'
<1> SUFFICES ASSUME ~standing' PROVE (Taken <= Given)'
  BY DEF RightsAreCounted
<1> USE DEF GatesInv
<1>1. ~standing
  BY GrantsChange DEF grantVars, ConsumeReceipt, RecordGrant, SpendOwnReceipt, MintReceipt,
                      Types, GrantTypes
<1>2. Taken <= Given
  BY <1>1 DEF RightsAreCounted
<1>3. /\ Cardinality(ran) \in Nat /\ Cardinality(minted) \in Nat
      /\ Cardinality(Approved("tool")) \in Nat /\ IsFiniteSet(Approved("tool"))
      /\ receipts \in Nat /\ Transit \in Nat /\ Transit <= 1
  BY RightsAreNumbers
<1>4. /\ Cardinality(ran') \in Nat /\ receipts' \in Nat /\ Transit' \in Nat /\ Transit' <= 1
  BY RightsAreNumbers, FS_CardinalityType DEF HistoryIsFinite, Types, GrantTypes, Transit
<1>5. UNCHANGED accepted => Approved("tool")' = Approved("tool")
  BY DEF Approved
<1>6. CASE UNCHANGED <<receipts, accepted, minted, ran>> /\ (InTransit' => InTransit)
  <2>1. Transit' <= Transit
    BY <1>6 DEF Transit
  <2>. QED  BY <1>2, <1>3, <1>4, <1>5, <1>6, <2>1 DEF Taken, Given
<1>7. CASE ConsumeReceipt
  <2>1. UNCHANGED <<accepted, minted, ran>>
    BY <1>7 DEF ConsumeReceipt, historyVars
  <2>2. CASE receipts > 0
    <3>1. receipts' = receipts - 1
      BY <1>7, <2>2 DEF ConsumeReceipt
    <3>. QED  BY <1>2, <1>3, <1>4, <1>5, <2>1, <3>1 DEF Taken, Given
  <2>3. CASE ~(receipts > 0)
    <3>1. receipts' = receipts /\ Transit' = 0
      BY <1>7, <2>3 DEF ConsumeReceipt, GoTo, Transit, InTransit
    <3>. QED  BY <1>2, <1>3, <1>4, <1>5, <2>1, <3>1 DEF Taken, Given
  <2>. QED  BY <2>2, <2>3
<1>8. CASE RecordGrant
  <2>1. UNCHANGED <<accepted, minted, ran>>
    BY <1>8 DEF RecordGrant, historyVars
  <2>2. answer = "approve" /\ receipts' = receipts + 1 /\ Transit' = 0
    BY <1>1, <1>8 DEF RecordGrant, GoTo, Transit, InTransit
  <2>3. Transit = 1
    BY <1>8, <2>2 DEF RecordGrant, Transit, InTransit
  <2>. QED  BY <1>2, <1>3, <1>4, <1>5, <2>1, <2>2, <2>3 DEF Taken, Given
<1>9. CASE SpendOwnReceipt
  <2>1. UNCHANGED <<accepted, minted, ran>>
    BY <1>9 DEF SpendOwnReceipt, historyVars
  <2>2. receipts' = receipts - 1
    BY <1>9 DEF SpendOwnReceipt, ReceiptInHand
  <2>. QED  BY <1>2, <1>3, <1>4, <1>5, <2>1, <2>2 DEF Taken, Given
<1>10. CASE InvokeTool
  <2>1. UNCHANGED <<accepted, minted, receipts>> /\ Transit' = 0 /\ Transit = 1
    BY <1>10 DEF InvokeTool, GoTo, Transit, InTransit, grantVars
  <2>2. Cardinality(ran') = Cardinality(ran) \/ Cardinality(ran') = Cardinality(ran) + 1
    BY <1>10, <1>3, FS_AddElement DEF InvokeTool, HistoryIsFinite
  <2>3. Taken' <= Taken
    BY <1>3, <1>4, <2>1, <2>2 DEF Taken
  <2>4. Given' = Given
    BY <1>5, <2>1 DEF Given
  <2>. QED  BY <1>2, <1>3, <1>4, <2>3, <2>4 DEF Taken, Given
<1>11. ASSUME NEW d \in Decisions, MintReceipt(d) PROVE (Taken <= Given)'
  <2>1. UNCHANGED <<accepted, ran, at, gate, answer>> /\ receipts' = receipts + 1
    BY <1>11 DEF MintReceipt, turnVars
  <2>2. Transit' = Transit
    BY <2>1 DEF Transit, InTransit
  <2>3. <<deciding[d], d>> \notin minted /\ minted' = minted \cup {<<deciding[d], d>>}
    BY <1>11 DEF MintReceipt, MintersArePast
  <2>4. Cardinality(minted') = Cardinality(minted) + 1
    BY <2>3, FS_AddElement DEF HistoryIsFinite
  <2>. QED  BY <1>2, <1>3, <1>4, <1>5, <2>1, <2>2, <2>4 DEF Taken, Given
<1>12. ASSUME NEW d \in Decisions, SettleFound(d) \/ SettleLocked(d) PROVE (Taken <= Given)'
  <2>1. UNCHANGED <<at, gate, receipts, minted, ran>>
    BY <1>12 DEF SettleFound, SettleLocked, grantVars
  <2>2. CASE deciding[d] \notin waiters
    <3>1. UNCHANGED <<answer, accepted>>
      BY <1>12, <2>2 DEF SettleFound, SettleLocked, Deliver
    <3>. QED
      BY <1>2, <1>3, <1>4, <1>5, <2>1, <3>1 DEF Taken, Given, Transit, InTransit
  <2>3. CASE deciding[d] \in waiters
    <3>1. gate = deciding[d] /\ answer = "none" /\ at = "waiting" /\ gate \notin accepted
      BY <2>3 DEF WaiterHoldsTheTurn, AcceptedOnce
    <3>2. /\ answer' = verdict[d]
          /\ accepted' = IF verdict[d] = "deny" THEN accepted ELSE accepted \cup {gate}
      BY <1>12, <2>3, <3>1 DEF SettleFound, SettleLocked, Deliver
    <3>3. Transit = 0
      BY <3>1 DEF Transit, InTransit
    <3>4. CASE verdict[d] # "deny" /\ gate.kind = "tool"
      <4>1. Approved("tool")' = Approved("tool") \cup {gate}
        BY <3>2, <3>4 DEF Approved
      <4>2. Cardinality(Approved("tool")') = Cardinality(Approved("tool")) + 1
        BY <1>3, <3>1, <4>1, FS_AddElement DEF Approved
      <4>. QED  BY <1>2, <1>3, <1>4, <2>1, <3>3, <4>2 DEF Taken, Given
    <3>5. CASE ~(verdict[d] # "deny" /\ gate.kind = "tool")
      <4>1. Transit' = 0
        BY <2>1, <3>1, <3>2, <3>5 DEF Transit, InTransit
      <4>2. Approved("tool")' = Approved("tool")
        BY <3>2, <3>5 DEF Approved
      <4>. QED  BY <1>2, <1>3, <1>4, <2>1, <3>3, <4>1, <4>2 DEF Taken, Given
    <3>. QED  BY <3>4, <3>5
  <2>. QED  BY <2>2, <2>3
<1>. QED
  BY <1>1, <1>6, <1>7, <1>8, <1>9, <1>10, <1>11, <1>12, TransitChanges

LEMMA RightsInvariant == Spec => []RightsInv
<1>1. GatesInv /\ GatesInv' /\ RightsInv /\ [Next]_vars => RightsInv'
  BY NumberedKept, AcceptedOnceKept, MintersKept, ReceiptKept, FiniteKept, RightsKept
  DEF RightsInv, GatesInv
<1>. QED  BY <1>1, RightsInit, GatesInvariant, PTL DEF Spec

(* No gated call runs on an approval that was already used: while no       *)
(* standing grant covers the tool, the calls that ran and the receipts     *)
(* left are at most the approvals that were accepted and the receipts that *)
(* plans minted (resolveGrant, awaitApproval), however many decisions are  *)
(* made and wherever turns are cancelled or the process restarts.          *)
THEOREM RunsHaveRights == Spec => []RunsAreAuthorized
<1>1. GatesInv /\ RightsInv => RunsAreAuthorized
  BY RightsAreNumbers
  DEF GatesInv, RightsInv, RightsAreCounted, Taken, Given, RunsAreAuthorized
<1>. QED  BY <1>1, RightsInvariant, GatesInvariant, PTL

-----------------------------------------------------------------------------
(* Plans and the receipts minted for them.                                 *)

(* Until the process restarts, the record has no row but that of the gate  *)
(* the turn works on, and none while it is on its way to a gate: the row   *)
(* of a plan or mode switch is gone before the turn resumes.               *)
RowIsTheTurns ==
  /\ rows \subseteq {gate}
  /\ rows # {} => at \in {"waiting", "clearing", "removing", "finishing"}
  /\ snapshot.rows # {} => at = "removing" /\ snapshot.rows \subseteq {gate}
  /\ at = "removing" => rows \subseteq snapshot.rows
  /\ (/\ at = "waiting" /\ gate.kind \in {"plan", "mode_switch"}
      /\ answer \notin {"none", "rejected"}) => rows = {}

(* What a decision found is of its route's kind, and a section about to    *)
(* settle its waiter has cleared the row.                                  *)
StagesFit ==
  \A d \in Decisions :
    /\ stage[d] = "found" => deciding[d].kind \in {"tool", "ask_user"}
    /\ stage[d] = "resolving" => \A r \in rows : r.kind # deciding[d].kind

(* A plan that receipts were minted for is not the next gate, and its row  *)
(* is pending only while the section that minted them goes on.             *)
MintedIsPast ==
  /\ at \in BeforeTheGate => \A p \in minted : p[1] # gate
  /\ \A p \in minted : p[1] \in rows => stage[p[2]] \in {"moding", "clearing"}

MintedOnce == \A p, q \in minted : p[1] = q[1] => p = q

MintInv ==
  /\ StagesFit
  /\ crashes = 0 => RowIsTheTurns /\ MintedIsPast /\ MintedOnce

LEMMA MintInit == Init => MintInv
BY DEF Init, MintInv, StagesFit, RowIsTheTurns, MintedIsPast, MintedOnce, Unread

LEMMA StagesKept ==
  ASSUME GatesInv, StagesFit, [Next]_vars
  PROVE  StagesFit'
<1> USE DEF GatesInv, Types, DecisionTypes, StagesFit, Reach
<1>1. CASE UNCHANGED decisionVars
  <2>1. CASE UNCHANGED <<rows, snapshot>>
    BY <1>1, <2>1 DEF decisionVars
  <2>2. CASE RowsWritten
    <3>1. \A d \in Decisions : stage[d] # "resolving"
      BY <2>2, GatesAssumption
      DEF RowsWritten, ReadRecord, RaiseGate, RemoveRow, FinishCancelled, RecordFree,
          SectionHoldsLock, InSection
    <3>. QED  BY <1>1, <3>1 DEF decisionVars
  <2>3. CASE Crash
    BY <2>3 DEF Crash, DecisionStages
  <2>4. ASSUME NEW d \in Decisions, ClearRow(d) PROVE FALSE
    BY <1>1, <2>4 DEF ClearRow, decisionVars
  <2>. QED  BY <2>1, <2>2, <2>3, <2>4, RowsChange DEF RowsWritten
<1>2. CASE Crash
  BY <1>2 DEF Crash, DecisionStages
<1>3. ASSUME NEW d \in Decisions,
             NothingPending(d) \/ FindRow(d) \/ SettleFound(d) \/ MintReceipt(d)
             \/ WriteMode(d) \/ SettleLocked(d)
      PROVE  StagesFit'
  BY <1>3 DEF NothingPending, FindRow, SettleFound, MintReceipt, WriteMode, SettleLocked,
              Deliver, Names, recordVars
<1>4. ASSUME NEW d \in Decisions, EnterSection(d) PROVE StagesFit'
  BY <1>4 DEF EnterSection, AfterFinding, Names, recordVars
<1>5. ASSUME NEW d \in Decisions, ClearRow(d) PROVE StagesFit'
  BY <1>5 DEF ClearRow
<1>. QED  BY <1>1, <1>2, <1>3, <1>4, <1>5, DecisionsChange

LEMMA RowIsTheTurnsKept ==
  ASSUME GatesInv, StagesFit, RowIsTheTurns, [Next]_vars, ~Crash
  PROVE  RowIsTheTurns'
<1> USE DEF RowIsTheTurns, GoTo, StorePending
<1>1. PinMode \/ Prepare \/ StartRound \/ StreamEnds \/ CallsOver \/ ConsumeReceipt
      \/ ListGrants \/ RecordGrant \/ SpendOwnReceipt \/ InvokeTool \/ ToolReturns
      \/ EndTurn => RowIsTheTurns'
  BY DEF PinMode, Prepare, StartRound, StreamEnds, CallsOver, ConsumeReceipt, ListGrants,
         RecordGrant, SpendOwnReceipt, InvokeTool, ToolReturns, EndTurn, recordVars
<1>2. (\E kind \in Kinds : TakeCall(kind)) => RowIsTheTurns'
  BY DEF TakeCall, recordVars
<1>3. ReadRecord => RowIsTheTurns'
  BY DEF ReadRecord, recordVars
<1>4. RaiseGate => RowIsTheTurns'
  BY DEF RaiseGate, With, Unread
<1>5. Resume => RowIsTheTurns'
  BY DEF Resume, recordVars, GatesInv, Types, GateIsTaken, OnTheWay, Gates, Kinds
<1>6. RemoveRow => RowIsTheTurns'
  BY DEF RemoveRow, recordVars, Unread
<1>7. FinishCancelled => RowIsTheTurns'
  BY DEF FinishCancelled
<1>8. BeginTurn \/ Cancel \/ (\E m \in Modes : SetMode(m)) \/ UNCHANGED vars
      => RowIsTheTurns'
  BY DEF BeginTurn, Cancel, SetMode, vars, turnVars, recordVars
<1>9. ASSUME NEW d \in Decisions
      PROVE  NothingPending(d) \/ FindRow(d) \/ EnterSection(d) \/ MintReceipt(d)
             \/ WriteMode(d) \/ ClearRow(d) => RowIsTheTurns'
  BY DEF NothingPending, FindRow, EnterSection, MintReceipt, WriteMode, ClearRow, turnVars,
         recordVars
<1>10. ASSUME NEW d \in Decisions, SettleFound(d) \/ SettleLocked(d) PROVE RowIsTheTurns'
  <2>1. UNCHANGED <<at, gate, snapshot, rows>>
    BY <1>10 DEF SettleFound, SettleLocked, recordVars
  <2>2. CASE deciding[d] \in waiters
    <3>1. deciding[d] = gate
      BY <2>2 DEF GatesInv, WaiterHoldsTheTurn
    <3>2. gate.kind \in {"tool", "ask_user"} \/ rows = {}
      BY <1>10, <3>1 DEF SettleFound, SettleLocked, StagesFit
    <3>. QED  BY <2>1, <3>2
  <2>3. CASE deciding[d] \notin waiters
    BY <1>10, <2>1, <2>3 DEF SettleFound, SettleLocked, Deliver
  <2>. QED  BY <2>2, <2>3
<1>. QED
  BY <1>1, <1>2, <1>3, <1>4, <1>5, <1>6, <1>7, <1>8, <1>9, <1>10 DEF Next, TurnStep, Proceed

(* The turn takes its next call with no row pending, and a section that    *)
(* mints does so for the pending row, which it clears under the lock.      *)
LEMMA MintedKept ==
  ASSUME GatesInv, GatesAreNumbered, MintersArePast, RowIsTheTurns, MintedIsPast,
         MintedOnce, [Next]_vars, ~Crash
  PROVE  MintedIsPast' /\ MintedOnce'
<1> USE DEF MintedIsPast, MintedOnce, BeforeTheGate, GoTo, Reach, GatesInv, Types,
            DecisionTypes, HistoryTypes
<1>1. PinMode \/ Prepare \/ StartRound \/ StreamEnds \/ CallsOver \/ ConsumeReceipt
      \/ ListGrants \/ RecordGrant \/ SpendOwnReceipt \/ InvokeTool \/ ToolReturns
      \/ Resume \/ ReadRecord \/ EndTurn => MintedIsPast' /\ MintedOnce'
  BY DEF PinMode, Prepare, StartRound, StreamEnds, CallsOver, ConsumeReceipt, ListGrants,
         RecordGrant, SpendOwnReceipt, InvokeTool, ToolReturns, Resume, ReadRecord, EndTurn,
         recordVars, historyVars, decisionVars
<1>2. ASSUME NEW kind \in Kinds, TakeCall(kind) PROVE MintedIsPast' /\ MintedOnce'
  <2>1. UNCHANGED <<minted, rows, stage>> /\ gate'.id = opened + 1
    BY <1>2 DEF TakeCall, historyVars, recordVars, decisionVars
  <2>2. opened \in Nat
    BY GatesAssumption DEF CounterTypes
  <2>3. \A p \in minted : p[1] # gate'
    BY <2>1, <2>2 DEF GatesAreNumbered
  <2>. QED  BY <2>1, <2>3
<1>3. ASSUME RaiseGate \/ RemoveRow \/ FinishCancelled PROVE MintedIsPast' /\ MintedOnce'
  <2>1. UNCHANGED <<minted, stage>> /\ at' \notin BeforeTheGate
    BY <1>3 DEF RaiseGate, RemoveRow, FinishCancelled, historyVars, decisionVars
  <2>2. \A p \in minted : p[1] \in rows' => p[1] \in rows
    BY <1>3 DEF RaiseGate, RemoveRow, FinishCancelled, StorePending, With, RowIsTheTurns,
                recordVars
  <2>. QED  BY <2>1, <2>2
<1>4. BeginTurn \/ Cancel \/ (\E m \in Modes : SetMode(m)) \/ UNCHANGED vars
      => MintedIsPast' /\ MintedOnce'
  BY DEF BeginTurn, Cancel, SetMode, vars, turnVars, recordVars, historyVars, decisionVars
<1>5. ASSUME NEW d \in Decisions, MintReceipt(d) PROVE MintedIsPast' /\ MintedOnce'
  <2>1. /\ UNCHANGED <<at, gate, rows>> /\ stage' = [stage EXCEPT ![d] = "moding"]
        /\ minted' = minted \cup {<<deciding[d], d>>} /\ stage[d] = "minting"
    BY <1>5 DEF MintReceipt, turnVars, recordVars
  <2>2. deciding[d] \in rows /\ lock = d
    BY <2>1 DEF SectionHoldsLock, InSection
  <2>3. at \notin BeforeTheGate
    BY <2>2 DEF RowIsTheTurns
  <2>4. \A p \in minted : p[1] # deciding[d]
    <3>1. SUFFICES ASSUME NEW p \in minted, p[1] = deciding[d] PROVE FALSE
      OBVIOUS
    <3>2. stage[p[2]] \in {"moding", "clearing"} /\ p[2] \in Decisions
      BY <2>2, <3>1
    <3>3. lock = p[2]
      BY <3>2 DEF SectionHoldsLock, InSection
    <3>. QED  BY <2>1, <2>2, <3>2, <3>3
  <2>5. MintedOnce'
    BY <2>1, <2>4
  <2>6. MintedIsPast'
    BY <2>1, <2>3
  <2>. QED  BY <2>5, <2>6
<1>6. ASSUME NEW d \in Decisions, ClearRow(d) PROVE MintedIsPast' /\ MintedOnce'
  <2>1. /\ UNCHANGED <<at, gate, minted>> /\ stage' = [stage EXCEPT ![d] = "resolving"]
        /\ rows' = {r \in rows : r.kind # deciding[d].kind} /\ stage[d] = "clearing"
    BY <1>6 DEF ClearRow, turnVars, historyVars
  <2>2. deciding[d] \in rows
    BY <2>1 DEF SectionHoldsLock
  <2>3. rows' = {}
    BY <2>1, <2>2 DEF RowIsTheTurns
  <2>. QED  BY <2>1, <2>3
<1>7. ASSUME NEW d \in Decisions,
             NothingPending(d) \/ FindRow(d) \/ EnterSection(d) \/ SettleFound(d)
             \/ WriteMode(d) \/ SettleLocked(d)
      PROVE  MintedIsPast' /\ MintedOnce'
  <2>1. UNCHANGED <<at, gate, minted, rows>>
    BY <1>7 DEF NothingPending, FindRow, EnterSection, SettleFound, WriteMode, SettleLocked,
                turnVars, recordVars, historyVars
  <2>2. \A e \in Decisions :
          stage[e] \in {"moding", "clearing"} => stage'[e] \in {"moding", "clearing"}
    BY <1>7 DEF NothingPending, FindRow, EnterSection, SettleFound, WriteMode, SettleLocked,
                Deliver
  <2>. QED  BY <2>1, <2>2
<1>. QED
  BY <1>1, <1>2, <1>3, <1>4, <1>5, <1>6, <1>7 DEF Next, TurnStep, Proceed

LEMMA RestartsAreCounted ==
  ASSUME Types, [Next]_vars, crashes' = 0
  PROVE  crashes = 0 /\ ~Crash
<1>1. crashes \in Nat
  BY GatesAssumption DEF Types, CounterTypes
<1>2. ~Crash
  BY <1>1 DEF Crash
<1>. QED  BY <1>2, CountersChange DEF boundVars, BeginTurn, TakeCall

LEMMA MintInvariant == Spec => []MintInv
<1>1. ASSUME GatesInv, RightsInv, MintInv, [Next]_vars PROVE MintInv'
  <2>1. StagesFit'
    BY <1>1, StagesKept DEF MintInv
  <2>2. ASSUME crashes' = 0 PROVE RowIsTheTurns' /\ MintedIsPast' /\ MintedOnce'
    <3>1. crashes = 0 /\ ~Crash
      BY <1>1, <2>2, RestartsAreCounted DEF GatesInv
    <3>. QED
      BY <1>1, <3>1, RowIsTheTurnsKept, MintedKept DEF MintInv, RightsInv
  <2>. QED  BY <2>1, <2>2 DEF MintInv
<1>. QED  BY <1>1, MintInit, GatesInvariant, RightsInvariant, PTL DEF Spec

(* However many people approve a plan at a time, its receipts are minted   *)
(* once, as long as the process does not restart (decidePlan): the first   *)
(* approval clears the row before the lock is free again, and the turn     *)
(* never stores the row anew.                                              *)
THEOREM PlansMintOnce == Spec => []PlanMintsOnce
<1>1. MintInv => PlanMintsOnce
  BY DEF MintInv, MintedOnce, PlanMintsOnce
<1>. QED  BY <1>1, MintInvariant, PTL
=============================================================================
