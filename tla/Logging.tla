------------------------------- MODULE Logging -------------------------------
(***************************************************************************)
(* LOG(severity) of base/logging.{h,cc}.  A statement constructs a         *)
(* LogMessage, which stamps it with the thread's date, and destroys it at  *)
(* its end, which is when Flush writes it, under one global mutex, to the  *)
(* LogFile of its severity and of every lower one, to send_method_, or to  *)
(* both, as the global settings say.  The files are created by the first   *)
(* message that needs them.  Other processes may remove a log file at any  *)
(* time, and opening one may fail.  With g_async, send_method_ is Append   *)
(* of the AsyncLoggingManager (base/async_logging.h), which has a logger   *)
(* for each severity, also created by the first message that needs it, and *)
(* no lock of its own.                                                     *)
(***************************************************************************)
EXTENDS LogFile, Sequences

CONSTANTS Threads, NoThread,
          Severity,      \* of each message, in the order they are begun (a bound)
          Oversized,     \* messages that fill the buffer
          Settings,      \* the settings looked at
          NoMessage,
          MessageSize,
          NoFile,
          MaxTime        \* bound on the clock, in seconds

Messages == 1..Len(Severity)
Severities == {"INFO", "WARN", "ERROR", "FATAL"}
Indices == 0..2    \* LOG_FILE_SEVERITIES files: INFO, WARN, ERROR

ASSUME LoggingAssumption == /\ NoThread \notin Threads /\ NoMessage \notin Messages
                            /\ Severity \in Seq(Severities) /\ Oversized \subseteq Messages
                            /\ Settings \subseteq [g_log_dir : BOOLEAN, g_program_name : BOOLEAN,
                                                   g_alsologtostderr : BOOLEAN, g_async : BOOLEAN]
                            /\ MessageSize \in Nat \ {0}
                            /\ NoFile \notin LogFileType
                            /\ MaxTime \in Nat \ {0}

VARIABLES settings,          \* the global variables set before logging starts
          now,               \* time()
          mutex,
          log_destinations_,
          async_loggings_,   \* the manager's loggers: whether there is one
          thread,            \* where each thread is in a LOG statement
          message,           \* what it is logging
          second,            \* g_date->Value().second
          begun,             \* the number of messages begun
          index,             \* the loop variable of Flush and of Append
          process,           \* running, shut down, or ended by std::terminate
          order,             \* history: messages in the order they got mutex
          given,             \* history: what each LogFile, or logger, was given to write
          sent,              \* history: what WriteToStderr was given
          late,              \* history: writes to each file since its period ended
          made               \* history: how many loggers were made for each severity

fileVars == <<log_destinations_, given, late>>
loggerVars == <<async_loggings_, made>>
vars == <<settings, now, mutex, fileVars, loggerVars, thread, message, begun, second, index, process, order, sent>>

Running == process = "running"

GetLogFileSeverityIndex(s) == IF s = "INFO" THEN 0 ELSE IF s = "WARN" THEN 1 ELSE 2
LogIndex(m) == GetLogFileSeverityIndex(Severity[m])

\* g_log_dir and g_program_name are set or not.
ToFiles == ~settings.g_async /\ settings.g_log_dir /\ settings.g_program_name
ToStderr == ~settings.g_async /\ (~settings.g_log_dir \/ settings.g_alsologtostderr)

\* The warning that a message was cut off.
Warning(m) == -m

LoggingInit ==
    /\ settings \in Settings
    /\ now = 1
    /\ mutex = NoThread
    /\ log_destinations_ = [i \in Indices |-> NoFile]
    /\ async_loggings_ = [i \in Indices |-> FALSE] /\ made = [i \in Indices |-> 0]
    /\ thread = [t \in Threads |-> "idle"]
    /\ message = [t \in Threads |-> NoMessage]
    /\ begun = 0
    /\ second = [t \in Threads |-> 0]
    /\ index = [t \in Threads |-> 0]
    /\ process = "running"
    /\ order = << >>
    /\ given = [i \in Indices |-> << >>]
    /\ sent = << >>
    /\ late = [i \in Indices |-> 0]

------------------------------------------------------------------------------
(* A LOG statement.                                                         *)

\* LogMessage's constructor and Init; the date in the message is the thread's.
Construct(t, m) ==
    /\ Running
    /\ thread[t] = "idle"
    /\ m = begun + 1
    /\ begun' = m
    /\ thread' = [thread EXCEPT ![t] = IF Severity[m] = "FATAL" THEN "fatal" ELSE "flush"]
    /\ message' = [message EXCEPT ![t] = m]
    /\ second' = [second EXCEPT ![t] = now % 60]
    /\ UNCHANGED <<settings, now, mutex, fileVars, loggerVars, index, process, order, sent>>

\* The body of ~LogMessageFatal throws, and a destructor is noexcept.  It is
\* left to the implementation whether the destructor of the base, which would
\* write the message, runs before std::terminate.
FatalThrows(t) ==
    /\ Running
    /\ thread[t] = "fatal"
    /\ \/ thread' = [thread EXCEPT ![t] = "flush"] /\ UNCHANGED process
       \/ process' = "terminated" /\ UNCHANGED thread
    /\ UNCHANGED <<settings, now, mutex, fileVars, loggerVars, message, begun, second, index, order, sent>>

NextInFlush == IF settings.g_async THEN "manage" ELSE IF ToFiles THEN "write" ELSE "send"

\* Mutant: Flush without its lock.
FlushUnlocked(t) ==
    /\ Running
    /\ thread[t] = "flush"
    /\ mutex' = t
    /\ thread' = [thread EXCEPT ![t] = NextInFlush]
    /\ index' = [index EXCEPT ![t] = 0]
    /\ order' = Append(order, message[t])
    /\ UNCHANGED <<settings, now, fileVars, loggerVars, message, begun, second, process, sent>>

\* Flush takes mutex and keeps it until it has written everywhere.
Flush(t) ==
    /\ Running
    /\ thread[t] = "flush"
    /\ mutex = NoThread
    /\ mutex' = t
    /\ thread' = [thread EXCEPT ![t] = NextInFlush]
    /\ index' = [index EXCEPT ![t] = 0]
    /\ order' = Append(order, message[t])
    /\ UNCHANGED <<settings, now, fileVars, loggerVars, message, begun, second, process, sent>>

\* The LogDestination of an index, made when first asked for.
log_destination(i, opened) ==
    IF log_destinations_[i] = NoFile THEN NewLogFile(now, opened) ELSE log_destinations_[i]

\* One turn of the loop: log_dest->Write and Flush.
WriteDestination(t) ==
    /\ Running
    /\ thread[t] = "write"
    /\ LET i == index[t] IN
       /\ \E opened \in BOOLEAN :
             log_destinations_' = [log_destinations_ EXCEPT ![i] =
                 WriteUnlocked(log_destination(i, opened), MessageSize, second[t], now, opened)]
       /\ given' = [given EXCEPT ![i] = Append(@, message[t])]
       /\ late' = [late EXCEPT ![i] =
              IF log_destinations_'[i].start_of_period_ = StartOfPeriod(now) THEN 0 ELSE @ + 1]
       /\ index' = [index EXCEPT ![t] = i + 1]
       /\ thread' = [thread EXCEPT ![t] = IF i < LogIndex(message[t]) THEN "write" ELSE "send"]
    /\ UNCHANGED <<settings, now, mutex, loggerVars, message, begun, second, process, order, sent>>

\* The severity a warning is sent with, as an index.
\* Mutant: that of a warning.
WarningIndexWarn(m) == 1
\* log_severity_, that of the message.
WarningIndex(m) == LogIndex(m)

\* One turn of AsyncLoggingManager::Append, if the logger is there.  A thread
\* without mutex has a warning.
ManagerAppend(t) ==
    LET i == index[t]
        warns == mutex # t
        last == i = IF warns THEN WarningIndex(message[t]) ELSE LogIndex(message[t])
    IN /\ Running
       /\ thread[t] = "append" \/ (thread[t] = "manage" /\ async_loggings_[i])
       /\ given' = [given EXCEPT ![i] = Append(@, IF warns THEN Warning(message[t]) ELSE message[t])]
       /\ index' = [index EXCEPT ![t] = i + 1]
       /\ thread' = [thread EXCEPT ![t] = IF ~last THEN "manage" ELSE IF warns THEN "end" ELSE "send"]
       /\ UNCHANGED <<settings, now, mutex, log_destinations_, late, loggerVars, message, begun,
                      second, process, order, sent>>

\* If it is not there; making one takes a while.
ManagerTest(t) ==
    /\ Running
    /\ thread[t] = "manage" /\ ~async_loggings_[index[t]]
    /\ thread' = [thread EXCEPT ![t] = "make"]
    /\ UNCHANGED <<settings, now, mutex, fileVars, loggerVars, message, begun, second, index, process,
                   order, sent>>

ManagerMake(t) ==
    /\ Running
    /\ thread[t] = "make"
    /\ async_loggings_' = [async_loggings_ EXCEPT ![index[t]] = TRUE]
    /\ made' = [made EXCEPT ![index[t]] = @ + 1]
    /\ thread' = [thread EXCEPT ![t] = "append"]
    /\ UNCHANGED <<settings, now, mutex, fileVars, message, begun, second, index, process, order, sent>>

\* Mutant: mutex is not released.
SendKeepsMutex(t) ==
    /\ Running
    /\ thread[t] = "send"
    /\ sent' = IF ToStderr THEN Append(sent, message[t]) ELSE sent
    /\ thread' = [thread EXCEPT ![t] = IF message[t] \in Oversized THEN "warn" ELSE "end"]
    /\ UNCHANGED <<settings, now, mutex, fileVars, loggerVars, message, begun, second, index, process,
                   order>>

\* stderr gets the message if there is no log directory or by request; then
\* mutex is released.
Send(t) ==
    /\ Running
    /\ thread[t] = "send"
    /\ sent' = IF ToStderr THEN Append(sent, message[t]) ELSE sent
    /\ mutex' = NoThread
    /\ thread' = [thread EXCEPT ![t] = IF message[t] \in Oversized THEN "warn" ELSE "end"]
    /\ UNCHANGED <<settings, now, fileVars, loggerVars, message, begun, second, index, process, order>>

\* A message that filled the buffer is followed by a warning, to send_method_
\* whatever the settings, and without mutex.
Warn(t) ==
    /\ Running
    /\ thread[t] = "warn"
    /\ IF settings.g_async
       THEN /\ thread' = [thread EXCEPT ![t] = "manage"] /\ index' = [index EXCEPT ![t] = 0]
            /\ UNCHANGED sent
       ELSE /\ sent' = Append(sent, Warning(message[t]))
            /\ thread' = [thread EXCEPT ![t] = "end"] /\ UNCHANGED index
    /\ UNCHANGED <<settings, now, mutex, fileVars, loggerVars, message, begun, second, process, order>>

\* The statement ends; after a FATAL message std::terminate is called.
End(t) ==
    /\ Running
    /\ thread[t] = "end"
    /\ thread' = [thread EXCEPT ![t] = "idle"]
    /\ message' = [message EXCEPT ![t] = NoMessage]
    /\ index' = [index EXCEPT ![t] = 0]
    /\ process' = IF Severity[message[t]] = "FATAL" THEN "terminated" ELSE process
    /\ UNCHANGED <<settings, now, mutex, fileVars, loggerVars, begun, second, order, sent>>

\* ShutdownLogging, or ~AsyncLoggingManager.  They are called when no thread
\* is logging; g_date or the manager is gone, so none may log again.
ShutdownLogging ==
    /\ Running
    /\ \A t \in Threads : thread[t] = "idle"
    /\ log_destinations_' = [i \in Indices |-> NoFile]
    /\ async_loggings_' = [i \in Indices |-> FALSE]
    /\ process' = "shut down"
    /\ UNCHANGED <<settings, now, mutex, given, late, made, thread, message, begun, second, index, order, sent>>

------------------------------------------------------------------------------
(* The environment: the clock, and whoever removes a log file.             *)

Tick == /\ Running
        /\ now < MaxTime
        /\ now' = now + 1
        /\ UNCHANGED <<settings, mutex, fileVars, loggerVars, thread, message, begun, second, index,
                       process, order, sent>>

RemoveFile(i) ==
    /\ Running
    /\ log_destinations_[i] # NoFile
    /\ log_destinations_[i].linked
    /\ log_destinations_' = [log_destinations_ EXCEPT ![i].linked = FALSE]
    /\ UNCHANGED <<settings, now, mutex, given, late, loggerVars, thread, message, begun, second, index,
                   process, order, sent>>

Ended == ~Running /\ UNCHANGED vars

Next == \/ \E t \in Threads : \/ \E m \in Messages : Construct(t, m)
                              \/ FatalThrows(t) \/ Flush(t) \/ WriteDestination(t) \/ Send(t)
                              \/ ManagerAppend(t) \/ ManagerTest(t) \/ ManagerMake(t)
                              \/ Warn(t) \/ End(t)
        \/ ShutdownLogging
        \/ Tick
        \/ \E i \in Indices : RemoveFile(i)
        \/ Ended

(* A thread in a LOG statement goes on, and gets mutex if it is free again  *)
(* and again; nobody has to log, and files need not be removed.             *)
Fairness == \A t \in Threads : /\ WF_vars(FatalThrows(t) \/ WriteDestination(t) \/ Send(t)
                                           \/ ManagerAppend(t) \/ ManagerTest(t) \/ ManagerMake(t)
                                           \/ Warn(t) \/ End(t))
                               /\ SF_vars(Flush(t))

Spec == LoggingInit /\ [][Next]_vars /\ Fairness

------------------------------------------------------------------------------
TypeOK ==
    /\ settings \in Settings
    /\ now \in 1..MaxTime
    /\ mutex \in Threads \cup {NoThread}
    /\ log_destinations_ \in [Indices -> LogFileType \cup {NoFile}]
    /\ async_loggings_ \in [Indices -> BOOLEAN] /\ made \in [Indices -> Nat]
    /\ thread \in [Threads -> {"idle", "fatal", "flush", "write", "manage", "make", "append", "send",
                               "warn", "end"}]
    /\ message \in [Threads -> Messages \cup {NoMessage}]
    /\ begun \in 0..Len(Severity)
    /\ second \in [Threads -> 0..59]
    /\ index \in [Threads -> 0..3]
    /\ process \in {"running", "shut down", "terminated"}
    /\ order \in Seq(Messages)
    /\ late \in [Indices -> Nat]

\* The elements of s that are in S, in their order.
SelectIn(s, S) ==
    LET selected[n \in 0..Len(s)] ==
            IF n = 0 THEN << >>
            ELSE IF s[n] \in S THEN Append(selected[n - 1], s[n]) ELSE selected[n - 1]
    IN selected[Len(s)]

\* What the holder of mutex has still to write to the file or logger i.
PendingIn(i) == IF mutex # NoThread /\ thread[mutex] # "send" /\ index[mutex] <= i
                   /\ i <= LogIndex(message[mutex])
                THEN <<message[mutex]>> ELSE << >>

(* The log files tell one story: each file, or logger of the manager, was   *)
(* given exactly the messages of its severity and above, once each, in the  *)
(* one order in which they got mutex, and so was stderr (Flush, whatever    *)
(* threads interleave).  Warnings, which are sent without mutex, may come   *)
(* anywhere after their message.                                            *)
OneOrder ==
    /\ \A i \in Indices :
          SelectIn(given[i], Messages) \o PendingIn(i) =
              IF ToFiles \/ settings.g_async THEN SelectIn(order, {m \in Messages : LogIndex(m) >= i})
              ELSE << >>
    /\ SelectIn(sent, Messages) \o (IF ToStderr /\ mutex # NoThread THEN <<message[mutex]>> ELSE << >>)
          = IF ToStderr THEN order ELSE << >>

(* The manager makes one logger for each severity, though its Append has no *)
(* lock and a warning calls it without mutex: the message it follows has    *)
(* made all the loggers that the warning needs (AsyncLoggingManager::Append, *)
(* LogMessage::Flush).                                                      *)
LoggersMadeOnce == \A i \in Indices : made[i] <= 1

(* A write leaves a file larger than roll_size_ only if it was begun in the *)
(* same second: no file keeps growing beyond its limit (WriteUnlocked).     *)
SizeBounded ==
    [][\A i \in Indices :
          ToFiles /\ given'[i] # given[i] /\ log_destinations_'[i].written_bytes > RollSize
              => log_destinations_'[i].last_roll_ = now]_vars

(* A file whose period is over gets fewer than check_every_n_ more          *)
(* messages, however rolls by size and by removal mix with the count.       *)
PeriodRespected == \A i \in Indices : late[i] < CheckEveryN

(* Every LOG statement comes to its end, or the process does.               *)
StatementEnds == \A t \in Threads : thread[t] # "idle" ~> (thread[t] = "idle" \/ ~Running)
==============================================================================
