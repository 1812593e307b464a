---------------------------- MODULE InstrumentMap ---------------------------
(***************************************************************************)
(* InstrumentMap, and what the handlers of the engine do to an Instrument. *)
(* An instrument exists from the first directory message or the first      *)
(* order on; no other message creates one.  The attributes of a directory  *)
(* message, which are all overwritten together, are one value.             *)
(***************************************************************************)
EXTENDS Integers, FiniteSets

CONSTANTS
    Locates,       \* StockLocate values in use
    Attributes,    \* what a directory message may say
    NoAttributes,  \* what an Instrument says before there is one
    TradingStates, \* TradingState
    Halted,        \* TradingState::Halted
    RegSHOActions, \* RegSHOAction
    NoPriceTest    \* RegSHOAction::NoPriceTest

ASSUME LocatesAreFinite == IsFiniteSet(Locates)

VARIABLES
    slots,     \* slots_: the instruments that exist, a function on their locates
    count,     \* count_
    registered \* EngineStats::instruments_registered

instrumentVars == <<slots, count, registered>>

NewInstrument ==
    [attributes |-> NoAttributes, tradingState |-> Halted,
     regSHOAction |-> NoPriceTest, book |-> FALSE]

InitInstruments ==
    /\ slots = [l \in {} |-> NewInstrument]
    /\ count = 0
    /\ registered = 0

(* get_or_create, as what becomes of slots_ and count_.                    *)
GetOrCreate(l) ==
    [k \in DOMAIN slots \cup {l} |-> IF k \in DOMAIN slots THEN slots[k] ELSE NewInstrument]
CountWith(l) == IF l \in DOMAIN slots THEN count ELSE count + 1

(* on_stock_directory                                                      *)
OnStockDirectory(l, a) ==
    /\ slots' = [GetOrCreate(l) EXCEPT ![l].attributes = a]
    /\ count' = CountWith(l)
    /\ registered' = IF l \in DOMAIN slots THEN registered ELSE registered + 1

EnsureBook(inst) == [inst EXCEPT !.book = TRUE]

(* on_add_order, up to and with ensure_book; the rest is MatchingEngine's. *)
OnAddOrder(l) ==
    /\ slots' = [GetOrCreate(l) EXCEPT ![l] = EnsureBook(@)]
    /\ count' = CountWith(l)
    /\ UNCHANGED registered

\* MUTANT: get_or_create where operator[] is called.
OnTradingActionCreates(l, s) ==
    /\ slots' = [GetOrCreate(l) EXCEPT ![l].tradingState = s]
    /\ count' = CountWith(l)
    /\ UNCHANGED registered

(* on_trading_action and on_reg_sho: nothing for an unknown instrument.    *)
OnTradingAction(l, s) ==
    /\ slots' = IF l \in DOMAIN slots THEN [slots EXCEPT ![l].tradingState = s] ELSE slots
    /\ UNCHANGED <<count, registered>>

OnRegSho(l, a) ==
    /\ slots' = IF l \in DOMAIN slots THEN [slots EXCEPT ![l].regSHOAction = a] ELSE slots
    /\ UNCHANGED <<count, registered>>

=============================================================================
