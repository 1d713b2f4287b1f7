------------------------------- MODULE Logger -------------------------------
(***************************************************************************)
(* cppws::util::Logger (src/util/logger.cpp) as main.cpp initializes it:   *)
(* spdlog's asynchronous logger, a bounded queue of records and one thread *)
(* that writes them.  Like TaskQueue this module is the object only; the   *)
(* modules that use it say who logs what and when.                         *)
(***************************************************************************)
EXTENDS Naturals, Sequences

CONSTANTS
    LogLevel,                   \* the level init() gives the logger and its sinks
    LogCapacity                 \* queue_size

\* to_spdlog(): the levels in spdlog's order
Severity == [trace |-> 0, debug |-> 1, info |-> 2, warn |-> 3, err |-> 4,
             critical |-> 5, off |-> 6]

ASSUME LoggerAssumption == LogLevel \in DOMAIN Severity /\ LogCapacity \in Nat \ {0}

VARIABLES
    logger,                     \* "on", "closing" (inside shutdown()) or "off"
    records,                    \* the queue of records
    written                     \* what the sinks have received

loggerVars == <<logger, records, written>>

\* Logger::init(), which runs before there are other threads
LoggerInit == logger = "on" /\ records = <<>> /\ written = <<>>

\* Mutant: async_overflow_policy::overrun_oldest
Log_Overruns(level, text) ==
    /\ logger = "on"
    /\ records' = IF Len(records) < LogCapacity THEN Append(records, <<level, text>>)
                                                ELSE Append(Tail(records), <<level, text>>)
    /\ UNCHANGED <<logger, written>>

\* LOG_...(): a record below the level is discarded; others wait for room
\* (async_overflow_policy::block).
Log(level, text) ==
    /\ logger = "on"
    /\ IF Severity[level] < Severity[LogLevel] THEN UNCHANGED records
       ELSE Len(records) < LogCapacity /\ records' = Append(records, <<level, text>>)
    /\ UNCHANGED <<logger, written>>

\* The writer thread
Write ==
    /\ records # <<>>
    /\ written' = Append(written, Head(records))
    /\ records' = Tail(records)
    /\ UNCHANGED logger

\* Logger::shutdown(): the writer is told to end when the queue is empty ...
ShutdownLogger == logger = "on" /\ logger' = "closing" /\ UNCHANGED <<records, written>>

\* ... and is joined.
WriterJoined ==
    /\ logger = "closing" /\ records = <<>>
    /\ logger' = "off"
    /\ UNCHANGED <<records, written>>

=============================================================================
