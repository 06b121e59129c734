------------------------------- MODULE Logging -------------------------------
(***************************************************************************)
(* Loggers, sinks and the log manager (log/Logger, log/LogFactory.h,        *)
(* log/sinks), used by several threads.                                    *)
(*                                                                         *)
(* A call of Log is a frame on the stack of its thread: a sink whose file   *)
(* could not be opened logs an error through the main logger from within    *)
(* Sink, its mutex held.  INFO(...) and its like use the main logger by a   *)
(* raw pointer; calls on a LoggerPtr keep the logger alive.  A logger exists *)
(* as long as the manager, the program or a call has a LoggerPtr to it.     *)
(***************************************************************************)
EXTENDS Naturals, Sequences, SequencesExt

CONSTANTS Threads, Sinks, Loggers,
          Default,         \* the logger LogManager makes from the configuration
          NameOf,          \* name_ of each logger; several may have the same
          Setups,          \* what the program may have done before its threads log
          SinksOf,         \* the sinks of each logger, in order
          FileSinks,       \* BasicFileSinks; the others write to the terminal
          Broken,          \* file sinks whose file could not be opened
          FlushLevel,      \* flush level of the loggers made by the program
          CallLevels, NewLevels,
          FlushInterval, MaxTime, MaxCalls, MaxChanges,   \* bounds
          ConfigLevel,     \* /logs/level; NoLevel when it is absent
          NoLevel, None

INFO == 2
ERROR == 4
FATAL == 5
OFF == 6

\* The main logger, the loggers in loggersMap_, and those the program holds a
\* LoggerPtr to; it may hold loggers it never registered.
ASSUME SetupsAssumption ==
  /\ Setups \subseteq [main : Loggers, registered : SUBSET Loggers, pointers : SUBSET Loggers]
  /\ \A s \in Setups : \A k, l \in s.registered : NameOf[k] = NameOf[l] => k = l

ASSUME LoggingAssumption ==
  /\ Broken \subseteq FileSinks /\ FileSinks \subseteq Sinks
  /\ Default \in Loggers /\ SinksOf \in [Loggers -> Seq(Sinks)]
  /\ CallLevels \subseteq 0..FATAL /\ NewLevels \subseteq 0..OFF /\ FlushLevel \in 0..OFF
  /\ ConfigLevel \in (0..OFF) \cup {NoLevel} /\ NoLevel \notin 0..OFF
  /\ None \notin Threads /\ FlushInterval \in Nat

VARIABLES level,       \* loggerLevel_
          mainLogger,  \* mainLogger_
          registered,  \* the loggers in loggersMap_
          pointers,    \* the loggers the program holds a LoggerPtr to
          replaced,    \* how often the main logger was replaced
          silenced,    \* calls during which their logger was switched off
          stack,       \* the calls of Log each thread is in
          mutex,       \* who holds the mutex of each sink
          content,     \* lines handed to each sink's stream
          flushed,     \* how many of them left the stream's buffer
          second,      \* lastFormatSecond_ of each sink
          lastFlush,   \* lastFlushTime_ of each sink
          calls, now, changes,   \* how often Log was called, the time, how much was changed
          died         \* why the process was aborted, and in which frame

vars == <<level, mainLogger, registered, pointers, replaced, silenced, stack, mutex,
          content, flushed, second, lastFlush, calls, now, changes, died>>

-----------------------------------------------------------------------------
(* LogManager.                                                             *)

\* Config::GetOrDefault of a level; a default is stored as the new value.
GetOrDefault(value, default) == IF value = NoLevel THEN default ELSE value

ConfiguredLevel == GetOrDefault(ConfigLevel, INFO)

\* The flush level is asked for under the name of the level, which is set by
\* then.  Every name that differs from the value sets it, the last one wins.
ConfiguredFlushLevel ==
  IF GetOrDefault(ConfiguredLevel, NoLevel) = OFF THEN FATAL ELSE OFF

FlushLevelOf(l) == IF l = Default THEN ConfiguredFlushLevel ELSE FlushLevel

Init ==
  /\ level = [l \in Loggers |-> IF l = Default THEN ConfiguredLevel ELSE INFO]
  /\ \E s \in Setups : mainLogger = s.main /\ registered = s.registered /\ pointers = s.pointers
  /\ replaced = 0 /\ silenced = {}
  /\ stack = [t \in Threads |-> <<>>]
  /\ mutex = [s \in Sinks |-> None]
  /\ content = [s \in Sinks |-> <<>>]
  /\ flushed = [s \in Sinks |-> 0]
  /\ second = [s \in Sinks |-> 0] /\ lastFlush = [s \in Sinks |-> 0]
  /\ calls = 0
  /\ now = 1 /\ changes = 0
  /\ died = None

\* LockGuard on the mutex of a sink.  A call of Sink or Flush that logs nothing
\* itself locks and unlocks in one step.
Free(s) == mutex[s] = None
Lock(t, s) == Free(s) /\ mutex' = [mutex EXCEPT ![s] = t]
Unlock(s) == mutex' = [mutex EXCEPT ![s] = None]

Logs == <<stack, mutex, content, flushed, second, lastFlush, calls, now>>
Change == died = None /\ changes < MaxChanges /\ changes' = changes + 1

\* The loggers somebody can still get: mainLogger_ and loggersMap_ are LoggerPtrs,
\* as are those of the program.  Any other is destroyed, or was never made.
Held == {mainLogger} \cup registered \cup pointers

\* GetMainLogger or GetLogger; and the program lets a pointer go.
GetLogger(l) ==
  /\ Change /\ l \in Held \ pointers
  /\ pointers' = pointers \cup {l}
  /\ UNCHANGED <<level, mainLogger, registered, replaced, silenced, Logs, died>>

ResetPointer(l) ==
  /\ Change /\ l \in pointers
  /\ pointers' = pointers \ {l}
  /\ UNCHANGED <<level, mainLogger, registered, replaced, silenced, Logs, died>>

\* The map is by name: a logger takes the place of its namesake.
AddLogger(l) ==
  /\ Change /\ l \in Held \ registered
  /\ registered' = {k \in registered : NameOf[k] # NameOf[l]} \cup {l}
  /\ UNCHANGED <<level, mainLogger, pointers, replaced, silenced, Logs, died>>

RemoveLogger(l) ==
  /\ Change /\ l \in registered
  /\ registered' = registered \ {l}
  /\ UNCHANGED <<level, mainLogger, pointers, replaced, silenced, Logs, died>>

\* Of any logger, registered or not.
SetMainLogger(l) ==
  /\ Change /\ l \in Held \ {mainLogger}
  /\ mainLogger' = l /\ replaced' = replaced + 1
  /\ UNCHANGED <<level, registered, pointers, silenced, Logs, died>>

CallsOf(l) ==
  {<<f.id, l>> : f \in {g \in UNION {ToSet(stack[t]) : t \in Threads} : g.logger = l}}

SetLevel(l, new) ==
  /\ Change /\ l \in Held
  /\ level' = [level EXCEPT ![l] = new]
  /\ silenced' = IF new = OFF THEN silenced \cup CallsOf(l) ELSE silenced
  /\ UNCHANGED <<mainLogger, registered, pointers, replaced, Logs, died>>

\* SetPattern or SetFormatter of a sink, with a pattern that compiles: the new
\* formatters have no second cached.
SetPattern(s) ==
  /\ Change /\ Free(s)
  /\ second' = [second EXCEPT ![s] = 0]
  /\ UNCHANGED <<level, mainLogger, registered, pointers, replaced, silenced>>
  /\ UNCHANGED <<stack, mutex, content, flushed, lastFlush, calls, now, died>>

-----------------------------------------------------------------------------
(* Logger::Log and SinkIt, a step for each read of shared state.           *)

Managed == <<level, mainLogger, registered, pointers, replaced, silenced, changes>>

Top(t) == Last(stack[t])

\* A call of Log: owned when its caller holds a LoggerPtr, since when it began,
\* as the number of main loggers replaced by then.
Frame(l, lv, id, time, owned) ==
  [logger |-> l, level |-> lv, id |-> id, time |-> time, owned |-> owned, since |-> replaced,
   pc |-> "off", at |-> 1]
Goto(t, label) == stack' = [stack EXCEPT ![t][Len(stack[t])].pc = label, ![t][Len(stack[t])].at = 1]
Stay(t, label) == stack' = [stack EXCEPT ![t][Len(stack[t])].pc = label, ![t][Len(stack[t])].at = @ + 1]
NextSink(t, label) == IF Top(t).at = Len(SinksOf[Top(t).logger]) THEN Goto(t, "flush") ELSE Stay(t, label)
Return(t) == stack' = [stack EXCEPT ![t] = Front(@)]
In(t, label) == died = None /\ stack[t] # <<>> /\ Top(t).pc = label
SinkAt(t) == SinksOf[Top(t).logger][Top(t).at]
SinksDone(t) == Top(t).at > Len(SinksOf[Top(t).logger])

\* Logger::Log; the time is taken before any lock.
Log(t, l, owned) ==
  /\ died = None /\ stack[t] = <<>> /\ calls < MaxCalls
  /\ calls' = calls + 1
  /\ \E lv \in CallLevels : stack' = [stack EXCEPT ![t] = <<Frame(l, lv, calls', now, owned)>>]
  /\ UNCHANGED <<Managed, mutex, content, flushed, second, lastFlush, now, died>>

\* TRACE(...) to FATAL(...): the main logger, by its raw pointer.
LogMain(t) == Log(t, mainLogger, FALSE)
\* Trace(logger, ...) to Fatal(logger, ...), with a LoggerPtr that outlives the call.
LogNamedRaw(t) ==                \* mutant: GetLogger hands out a raw pointer
  \E l \in Held : Log(t, l, FALSE)
LogNamed(t) == \E l \in Held : Log(t, l, TRUE)

CheckOff(t) ==
  /\ In(t, "off")
  /\ IF level[Top(t).logger] = OFF THEN Return(t) ELSE Goto(t, "level")
  /\ UNCHANGED <<Managed, mutex, content, flushed, second, lastFlush, calls, now, died>>

\* assert(loggerLevel_ <= LogLevel::FATAL) reads the level again; it may have
\* become OFF since CheckOff.
AssertLevel(t) ==
  /\ In(t, "level")
  /\ IF level[Top(t).logger] = OFF
     THEN died' = [why |-> "assert", frame |-> Top(t)] /\ UNCHANGED stack
     ELSE Goto(t, "compare") /\ UNCHANGED died
  /\ UNCHANGED <<Managed, mutex, content, flushed, second, lastFlush, calls, now>>

CompareLevel(t) ==
  /\ In(t, "compare")
  /\ Goto(t, IF Top(t).level >= level[Top(t).logger] /\ SinksOf[Top(t).logger] # <<>> THEN "sink" ELSE "flush")
  /\ UNCHANGED <<Managed, mutex, content, flushed, second, lastFlush, calls, now, died>>

\* LocalTimeFormatter keeps the last second it formatted.
FormatLater(s, time) == IF time > second[s] THEN time ELSE second[s]   \* mutant: < instead of !=
Format(s, time) == IF time # second[s] THEN time ELSE second[s]

\* Sink of a working sink: format, write, and flush a file every FlushInterval.
Sink(t) ==
  /\ In(t, "sink")
  /\ LET s == SinkAt(t)
         f == Top(t)
         due == s \notin FileSinks \/ f.time > lastFlush[s] + FlushInterval
         line == [thread |-> t, id |-> f.id, nested |-> Len(stack[t]) > 1, time |-> f.time, shown |-> Format(s, f.time)]
     IN /\ s \notin Broken /\ Free(s)
        /\ content' = [content EXCEPT ![s] = Append(@, line)]
        /\ second' = [second EXCEPT ![s] = Format(s, f.time)]
        /\ flushed' = IF due THEN [flushed EXCEPT ![s] = Len(content'[s])] ELSE flushed
        /\ lastFlush' = IF due THEN [lastFlush EXCEPT ![s] = f.time] ELSE lastFlush
  /\ NextSink(t, "sink")
  /\ UNCHANGED <<Managed, mutex, calls, now, died>>

\* Sink of a broken one: "Bad Basic File Sink" goes to the main logger while
\* the mutex is held.
SinkBroken(t) ==
  /\ In(t, "sink") /\ SinkAt(t) \in Broken
  /\ Lock(t, SinkAt(t))
  /\ stack' = [stack EXCEPT ![t] = Append([@ EXCEPT ![Len(@)].pc = "nested"],
                                          Frame(mainLogger, ERROR, Top(t).id, now, FALSE))]
  /\ UNCHANGED <<Managed, content, flushed, second, lastFlush, calls, now, died>>

ErrorReturnedLocked(t) ==        \* mutant: the early return leaves the mutex locked
  /\ In(t, "nested")
  /\ NextSink(t, "sink")
  /\ UNCHANGED <<Managed, mutex, content, flushed, second, lastFlush, calls, now, died>>
ErrorReturned(t) ==
  /\ In(t, "nested")
  /\ Unlock(SinkAt(t))
  /\ NextSink(t, "sink")
  /\ UNCHANGED <<Managed, content, flushed, second, lastFlush, calls, now, died>>

ShouldFlush(t) == Top(t).level >= FlushLevelOf(Top(t).logger)

\* Flush of one sink; fflush of a null stream flushes every stream.
Flush(t) ==
  /\ In(t, "flush") /\ ShouldFlush(t) /\ ~SinksDone(t)
  /\ Free(SinkAt(t))
  /\ flushed' = [s \in Sinks |-> IF s = SinkAt(t) \/ SinkAt(t) \in Broken THEN Len(content[s]) ELSE flushed[s]]
  /\ Stay(t, "flush")
  /\ UNCHANGED <<Managed, mutex, content, second, lastFlush, calls, now, died>>

\* A fatal message aborts, any other call returns.
FinishEarly(t) ==                \* mutant: abort comes before the flush
  /\ In(t, "flush")
  /\ IF Top(t).level = FATAL
     THEN died' = [why |-> "fatal", frame |-> Top(t)] /\ UNCHANGED stack
     ELSE Return(t) /\ UNCHANGED died
  /\ UNCHANGED <<Managed, mutex, content, flushed, second, lastFlush, calls, now>>
Finish(t) ==
  /\ In(t, "flush") /\ (ShouldFlush(t) => SinksDone(t))
  /\ IF Top(t).level = FATAL
     THEN died' = [why |-> "fatal", frame |-> [Top(t) EXCEPT !.at = 1]] /\ UNCHANGED stack
     ELSE Return(t) /\ UNCHANGED died
  /\ UNCHANGED <<Managed, mutex, content, flushed, second, lastFlush, calls, now>>

Step(t) ==
  \/ CheckOff(t) \/ AssertLevel(t) \/ CompareLevel(t) \/ Sink(t) \/ SinkBroken(t)
  \/ ErrorReturned(t) \/ Flush(t) \/ Finish(t)

Tick ==
  /\ died = None /\ now < MaxTime /\ now' = now + 1
  /\ UNCHANGED <<Managed, stack, mutex, content, flushed, second, lastFlush, calls, died>>

\* The thread waits for the mutex of a sink; the mutexes are not recursive.
Waiting(t) ==
  stack[t] # <<>> /\ Top(t).pc \in {"sink", "flush"} /\ ~SinksDone(t) /\ ~Free(SinkAt(t))
WaitsForItself(t) == Waiting(t) /\ mutex[SinkAt(t)] = t

\* Nobody logs any more, the process is gone, or a thread waits for itself.
Rest ==
  /\ died # None \/ (\A t \in Threads : stack[t] = <<>>) \/ (\E t \in Threads : WaitsForItself(t))
  /\ UNCHANGED vars

Next ==
  \/ \E t \in Threads : LogMain(t) \/ LogNamed(t) \/ Step(t)
  \/ \E l \in Loggers :
       \/ GetLogger(l) \/ ResetPointer(l) \/ AddLogger(l) \/ RemoveLogger(l) \/ SetMainLogger(l)
       \/ \E new \in NewLevels : SetLevel(l, new)
  \/ \E s \in Sinks : SetPattern(s)
  \/ Tick \/ Rest

Spec == Init /\ [][Next]_vars

-----------------------------------------------------------------------------
(* Properties.                                                             *)

\* Every sink shows the lines of a thread in the order of its calls, each with
\* the second in which it was logged, although lines of different threads reach
\* a sink in another order than their times.
LinesInOrder ==
  \A s \in Sinks : \A i, j \in DOMAIN content[s] :
    /\ content[s][i].shown = content[s][i].time
    /\ (i < j /\ content[s][i].thread = content[s][j].thread /\ ~content[s][i].nested /\ ~content[s][j].nested)
         => content[s][i].id < content[s][j].id

\* The process is aborted by a fatal message with that message flushed to every
\* working sink of its logger, with two exceptions.  The logger does not flush at
\* that level; or it was switched off while the call was under way, between the
\* reads of its level in SinkIt: then the line may be written nowhere although the
\* message aborts, or the assertion at Logger.cpp:20 fails, which nothing else does.
OnDisk(s, f) == \E i \in 1..flushed[s] : content[s][i].id = f.id /\ content[s][i].time = f.time
SwitchedOff(f) == <<f.id, f.logger>> \in silenced
FatalLineKept ==
  died # None =>
    \/ SwitchedOff(died.frame)
    \/ /\ died.why = "fatal"
       /\ \/ FlushLevelOf(died.frame.logger) > FATAL
          \/ \A s \in ToSet(SinksOf[died.frame.logger]) \ Broken : OnDisk(s, died.frame)

\* A logger in use exists: somebody has a LoggerPtr to it, unless the call reached
\* it as the main logger, by its raw pointer, and SetMainLogger has replaced it
\* since.  So a logger may be removed, lose its place to a namesake or be let go
\* by the program at any time, and only the main logger may not be replaced while
\* others log, unless a LoggerPtr to it is kept.
Exists(l) ==
  l \in Held \/ \E t \in Threads : \E i \in DOMAIN stack[t] : stack[t][i].logger = l /\ stack[t][i].owned
UsedLoggerAlive ==
  \A t \in Threads : \A i \in DOMAIN stack[t] :
    Exists(stack[t][i].logger) \/ stack[t][i].since < replaced

\* Threads that wait for sinks wait for one that can go on, unless a thread waits
\* for itself: it met a broken sink of the main logger while it was reporting
\* that very sink.  With two broken sinks, and the main logger changed while one is
\* reported, two threads can wait for each other.
NobodyStuck ==
  (\A a, b \in Broken : a = b) /\ (\E t \in Threads : Waiting(t)) =>
    \/ \E t \in Threads : stack[t] # <<>> /\ ~Waiting(t)
    \/ \E t \in Threads : WaitsForItself(t)
=============================================================================
