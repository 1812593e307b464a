---------------------------- MODULE ITCHProcessor ---------------------------
(***************************************************************************)
(* A program with one ITCHProcessor, which may run several files one after *)
(* the other, and some MMapFile objects of its own.  The engine lives as   *)
(* long as the processor, a mapping as long as a run, and all of them and  *)
(* the logger draw on one table of descriptors.  main does what one run    *)
(* does.                                                                   *)
(*                                                                         *)
(* A file is a number of whole messages, chosen as they are parsed; Parser *)
(* deals with their bytes and with files that end in the middle of one.    *)
(* Of the engine there is the InstrumentMap: a message is told apart by    *)
(* what it does to an instrument, and an order that is refused as a        *)
(* duplicate, say, is among the others.  Of the logger there is only the   *)
(* descriptor.                                                             *)
(***************************************************************************)
EXTENDS Integers, Sequences, FiniteSets, MMapFile, InstrumentMap

CONSTANTS MaxFed \* bound: messages of all runs

ASSUME MaxFedIsNat == MaxFed \in Nat
ASSUME UsersAreOthers == Users \cap {"m", "mapped", "mmap", "logger"} = {}

VARIABLES
    phase, \* where run is
    logFd, \* fd_ of logger_; running_ is logFd # -1
    stats, \* total_messages of stats_
    pos,   \* how much of the file the parser has read
    fed    \* history: the messages of all runs

processorVars == <<phase, logFd, stats, pos, fed>>
vars == <<mmapVars, instrumentVars, processorVars>>

Init ==
    /\ InitFiles
    /\ InitInstruments
    /\ phase = "idle" /\ logFd = -1 /\ stats = 0 /\ pos = 0 /\ fed = <<>>

Message(type, l, value) == [type |-> type, locate |-> l, value |-> value]

(* The messages that concern an instrument, and all the others.            *)
Handle(m) ==
    \/ m.type = "R" /\ OnStockDirectory(m.locate, m.value)
    \/ m.type = "H" /\ OnTradingAction(m.locate, m.value)
    \/ m.type = "Y" /\ OnRegSho(m.locate, m.value)
    \/ m.type = "A" /\ OnAddOrder(m.locate)
    \/ m.type = "other" /\ UNCHANGED instrumentVars

Messages ==
    {Message("R", l, a) : l \in Locates, a \in Attributes}
        \cup {Message("H", l, s) : l \in Locates, s \in TradingStates}
        \cup {Message("Y", l, a) : l \in Locates, a \in RegSHOActions}
        \cup {Message(type, l, Null) : type \in {"A", "other"}, l \in Locates}

-----------------------------------------------------------------------------
(* LockFreeLogger::start as what becomes of the descriptors and fd_: it    *)
(* does nothing while the logger runs, and open may fail.                  *)
LoggerStart(open) ==
    IF logFd # -1 THEN {<<open, logFd>>}
    ELSE {<<open, -1>>} \cup
         IF Descriptors \subseteq open THEN {}
         ELSE {<<open \cup {LowestFree(open)}, LowestFree(open)>>}

(* run, up to the return of MMapFile::open.                                *)
RunOpen(size) ==
    /\ phase = "idle" /\ Len(fed) + size <= MaxFed
    /\ \E r \in Open(World, "mapped", size) :
          /\ Settle(r.world)
          /\ phase' = IF r.ok THEN "opened" ELSE "idle"
    /\ UNCHANGED <<instrumentVars, logFd, stats, pos, fed>>

\* MUTANT: stats_ goes on counting.
RunStartKeepsStats ==
    /\ phase = "opened"
    /\ phase' = "parsing"
    /\ LET w == MoveConstruct(World, "mmap", "mapped")
       IN  \E s \in LoggerStart(w.fds) :
              /\ Settle([w EXCEPT !.fds = s[1]])
              /\ logFd' = s[2]
    /\ pos' = 0
    /\ UNCHANGED <<instrumentVars, stats, fed>>

(* run takes over the mapping, starts the logger and resets stats_.        *)
RunStart ==
    /\ phase = "opened"
    /\ phase' = "parsing"
    /\ LET w == MoveConstruct(World, "mmap", "mapped")
       IN  \E s \in LoggerStart(w.fds) :
              /\ Settle([w EXCEPT !.fds = s[1]])
              /\ logFd' = s[2]
    /\ stats' = 0 /\ pos' = 0
    /\ UNCHANGED <<instrumentVars, fed>>

(* One turn of Parser::run.                                                *)
RunParse(m) ==
    /\ phase = "parsing" /\ pos < objs["mmap"].size
    /\ Handle(m)
    /\ stats' = stats + 1 /\ pos' = pos + 1
    /\ fed' = Append(fed, m)
    /\ UNCHANGED <<mmapVars, phase, logFd>>

\* MUTANT: the logger is not stopped.
RunStopKeepsLogger ==
    /\ phase = "parsing" /\ pos = objs["mmap"].size
    /\ phase' = "reporting"
    /\ UNCHANGED <<mmapVars, instrumentVars, logFd, stats, pos, fed>>

(* The end of the file: stop the logger.                                   *)
RunStop ==
    /\ phase = "parsing" /\ pos = objs["mmap"].size
    /\ phase' = "reporting"
    /\ fds' = fds \ {logFd} /\ logFd' = -1
    /\ UNCHANGED <<objs, maps, instrumentVars, stats, pos, fed>>

(* run has printed its reports; mmap dies, then mapped.                    *)
RunReturn ==
    /\ phase = "reporting"
    /\ phase' = "idle"
    /\ Settle(Destroy(Destroy(World, "mmap"), "mapped"))
    /\ UNCHANGED <<instrumentVars, logFd, stats, pos, fed>>

(* processor.logger().start()                                              *)
StartLogger ==
    /\ phase = "idle"
    /\ \E s \in LoggerStart(fds) : fds' = s[1] /\ logFd' = s[2]
    /\ UNCHANGED <<objs, maps, instrumentVars, phase, stats, pos, fed>>

(* ~ITCHProcessor                                                          *)
EndProcessor ==
    /\ phase = "idle"
    /\ phase' = "gone"
    /\ fds' = fds \ {logFd} /\ logFd' = -1
    /\ UNCHANGED <<objs, maps, instrumentVars, stats, pos, fed>>

(* The program turns to its own objects while it is not in a call of run.  *)
UseFile ==
    /\ phase \in {"idle", "gone"}
    /\ \E x \in Users : UserStep(x)
    /\ UNCHANGED <<instrumentVars, processorVars>>

Next ==
    \/ \E size \in Sizes : RunOpen(size)
    \/ RunStart
    \/ \E m \in Messages : RunParse(m)
    \/ RunStop
    \/ RunReturn
    \/ StartLogger
    \/ EndProcessor
    \/ UseFile

Spec == Init /\ [][Next]_vars

-----------------------------------------------------------------------------
(* Properties.                                                             *)

(* Who holds descriptor d, and who a mapping at a.                         *)
Holders(d) == {x \in DOMAIN objs : objs[x].fd = d} \cup (IF logFd = d THEN {"logger"} ELSE {})
Mappers(a) == {x \in DOMAIN objs : objs[x].data = a}

(* Every open descriptor and every mapping has one owner, who knows its    *)
(* size, and nobody holds what is closed or unmapped, after failures half- *)
(* way through an open and moves of every kind: a number that is closed    *)
(* twice may by then belong to somebody else.                              *)
OwnedOnce ==
    /\ \A d \in Descriptors :
          /\ d \in fds <=> Holders(d) # {}
          /\ \A x, y \in Holders(d) : x = y
    /\ \A a \in Addresses :
          /\ maps[a] # 0 <=> Mappers(a) # {}
          /\ \A x, y \in Mappers(a) : x = y /\ maps[a] = objs[x].size

(* A run leaves behind nothing that it opened, whether it succeeded or     *)
(* not, and while it parses it has its file.  The logger outlives a call   *)
(* only if it is the program that started it, after the last run.          *)
RunCleansUp ==
    /\ phase \in {"idle", "gone"} => DOMAIN objs \subseteq Users
    /\ phase \in {"reporting", "gone"} => logFd = -1
    /\ phase \in {"parsing", "reporting"} =>
          Valid(objs["mmap"]) /\ objs["mapped"] = Vacant

(* stats_, which run reports, counts the file just parsed, whatever was    *)
(* parsed before.  The counters of the engine, reported next to it, go on  *)
(* from run to run.                                                        *)
ReportIsOfThisRun ==
    phase = "reporting" => stats = objs["mmap"].size

(* The messages so far about l, and those that would create it.            *)
About(l) == {i \in DOMAIN fed : fed[i].locate = l}
Creating(l) == {i \in About(l) : fed[i].type \in {"R", "A"}}

(* The value of the last message of this type since there is an l.         *)
Latest(l, type, default) ==
    LET since == {i \in About(l) : fed[i].type = type /\ Min(Creating(l)) <= i}
    IN  IF since = {} THEN default ELSE fed[Max(since)].value

(* Over all runs, an instrument is what the messages since its first       *)
(* directory message or order made it; a trading action or a Reg SHO       *)
(* message before that is lost.  It is counted once, and as registered     *)
(* only if the directory message came first.                               *)
InstrumentsFollowFeed ==
    /\ DOMAIN slots = {l \in Locates : Creating(l) # {}}
    /\ \A l \in DOMAIN slots :
          slots[l] = [attributes   |-> Latest(l, "R", NoAttributes),
                      tradingState |-> Latest(l, "H", Halted),
                      regSHOAction |-> Latest(l, "Y", NoPriceTest),
                      book         |-> \E i \in About(l) : fed[i].type = "A"]
    /\ count = Cardinality(DOMAIN slots)
    /\ registered = Cardinality({l \in DOMAIN slots : fed[Min(Creating(l))].type = "R"})

=============================================================================
