----------------------------- MODULE LogConfig -----------------------------
(***************************************************************************)
(* The "logs" configuration of src/mumu/log.cc and the ConfigVar that      *)
(* holds it (src/mumu/config.h, src/mumu/config.cc).                       *)
(*                                                                         *)
(* g_log_defines is ConfigVar<std::set<LogDefine>>; its value is a set     *)
(* ordered by name, here a function from logger names to LogDefines.       *)
(* Config::LoadFromYaml hands a document to fromString, whose setValue     *)
(* runs, under the read lock, the LogIniter listener with (old, new); the  *)
(* listener walks the new definitions (one step per definition here) and   *)
(* then the removed ones; setValue then stores the value under the write   *)
(* lock.  The listener drives the Loggers: their level, formatter and      *)
(* appenders.  A formatter pattern is a sequence of characters and its     *)
(* validity is LogFormatter::init's m_error (module LogFormat).            *)
(***************************************************************************)
EXTENDS Integers, Sequences, FiniteSets, LogFormat

CONSTANTS
    Loaders,    \* threads calling Config::LoadFromYaml
    Names,      \* logger names, "root" among them
    Docs,       \* the "logs" sequences the YAML documents may carry
    Keys,       \* top-level keys a document may use for "logs"
    DefaultFmt, \* the pattern of the Logger constructor
    MaxLoads    \* bound on LoadFromYaml calls

\* LogLevel::DEBUG; UNKONW is 0.
DEBUG == 1


VARIABLES
    val,        \* m_val of g_log_defines
    logger,     \* logger[n]: level, formatter and appenders of Logger n
    pc,         \* pc[t]: "idle", "new", "old" (in the listener), "write"
    old, new,   \* the (old_value, new_value) of t's listener call
    todo,       \* names t's listener loop has still to visit
    asked,      \* asked[t]: the "logs" entry of t's last document
    loads       \* LoadFromYaml calls made

vars == <<val, logger, pc, old, new, todo, asked, loads>>

NoValue == [n \in {} |-> n]

\* An appender: type 1 FileLogAppender, 2 StdoutLogAppender; own is
\* m_hasFormatter.
Appender(type, level, fmt, own) ==
    [type |-> type, level |-> level, fmt |-> fmt, own |-> own]

\* Logger(name): level DEBUG, the default formatter, no appender; the
\* logger LoggerManager::getLogger creates for a name it does not hold.
NewLogger == [level |-> DEBUG, fmt |-> DefaultFmt, apps |-> <<>>]

\* Logger::addAppender: an appender without a formatter gets the logger's.
AddAppender(lg, a) ==
    [lg EXCEPT !.apps = Append(@, IF a.own THEN a ELSE [a EXCEPT !.fmt = lg.fmt])]

RECURSIVE AddAppenders(_, _)
AddAppenders(lg, s) ==
    IF s = <<>> THEN lg ELSE AddAppenders(AddAppender(lg, Head(s)), Tail(s))

\* Logger::clearAppender.
ClearAppender(lg) == [lg EXCEPT !.apps = <<>>]

\* LoggerManager(): the root logger with a StdoutLogAppender; the others as
\* MUHUI_LOG_NAME (getLogger) creates them.
Init ==
    /\ val = NoValue
    /\ logger = [n \in Names |->
                   IF n = "root"
                     THEN AddAppender(NewLogger, Appender(2, DEBUG, <<>>, FALSE))
                     ELSE NewLogger]
    /\ pc = [t \in Loaders |-> "idle"]
    /\ old = [t \in Loaders |-> NoValue]
    /\ new = [t \in Loaders |-> NoValue]
    /\ todo = [t \in Loaders |-> {}]
    /\ asked = [t \in Loaders |-> <<>>]
    /\ loads = 0

Valid(p) == ~FormatterInit(p).error

\* ListAllMember accepts a key made of [a-z._0-9] only; LoadFromYaml then
\* lowercases it before LookupBase.
KeyAccepted(key) == key \in {"logs"}

-----------------------------------------------------------------------------
\* Config::LoadFromYaml of a document {key: doc}.  A key ListAllMember
\* rejects is skipped.  Otherwise fromString parses doc; an exception is
\* caught and logged.  Else it calls setValue(v): under the read lock, an
\* equal value returns; else the listener starts on (m_val, v).  The
\* listener visits new_value, then the names of old_value that new_value
\* lacks.
LoadFromYaml(t, key, doc) ==
    LET v == ParseDefineSet(doc) IN
    /\ pc[t] = "idle" /\ loads < MaxLoads
    /\ loads' = loads + 1
    /\ asked' = [asked EXCEPT ![t] = doc]
    /\ IF ~KeyAccepted(key) \/ v = Throw \/ v = val
         THEN UNCHANGED <<pc, old, new, todo>>
         ELSE /\ old' = [old EXCEPT ![t] = val]
              /\ new' = [new EXCEPT ![t] = v]
              /\ IF DOMAIN v # {}
                   THEN /\ pc' = [pc EXCEPT ![t] = "new"]
                        /\ todo' = [todo EXCEPT ![t] = DOMAIN v]
                   ELSE /\ pc' = [pc EXCEPT ![t] = "old"]
                        /\ todo' = [todo EXCEPT ![t] = DOMAIN val]
    /\ UNCHANGED <<val, logger>>

\* The listener on LogDefine d of an added or changed logger lg:
\* setLevel; setFormatter(string), which keeps the old formatter when the
\* pattern is empty or m_error, and hands a new one to the appenders
\* without their own; clearAppender; one appender per LogAppenderDefine,
\* whose own formatter is set when valid, and which addAppender gives the
\* logger's formatter when it has none.
\* Mutant: the pattern installed without looking at m_error.
SetFormatterUnchecked(lg, p) ==
    IF p = <<>> THEN lg
    ELSE [lg EXCEPT !.fmt = p,
                    !.apps = [k \in DOMAIN @ |->
                                IF @[k].own THEN @[k] ELSE [@[k] EXCEPT !.fmt = p]]]

SetFormatter(lg, p) ==
    IF p = <<>> \/ ~Valid(p) THEN lg
    ELSE [lg EXCEPT !.fmt = p,
                    !.apps = [k \in DOMAIN @ |->
                                IF @[k].own THEN @[k] ELSE [@[k] EXCEPT !.fmt = p]]]
ApplyDefine(lg, d) ==
    LET set == ClearAppender([SetFormatter(lg, d.formatter) EXCEPT !.level = d.level])
        own(a) == a.formatter # <<>> /\ Valid(a.formatter)
    IN  AddAppenders(set, [k \in DOMAIN d.appenders |->
                             LET a == d.appenders[k]
                             IN  Appender(a.type, a.level,
                                          IF own(a) THEN a.formatter ELSE <<>>,
                                          own(a))])

\* One iteration of the loop over new_value (in name order; the loggers
\* are independent, so the model visits them in any order): a definition that old_value
\* holds unchanged (operator== over every field) is skipped.
\* Mutant: a logger old_value names is taken as unchanged.
ListenNewByName(t) ==
    /\ pc[t] = "new"
    /\ \E n \in todo[t] :
         LET d    == new[t][n]
             rest == todo[t] \ {n}
         IN  /\ logger' = IF n \in DOMAIN old[t]
                            THEN logger
                            ELSE [logger EXCEPT ![n] = ApplyDefine(@, d)]
             /\ IF rest # {}
                  THEN todo' = [todo EXCEPT ![t] = rest] /\ UNCHANGED pc
                  ELSE /\ todo' = [todo EXCEPT ![t] = DOMAIN old[t] \ DOMAIN new[t]]
                       /\ pc' = [pc EXCEPT ![t] = "old"]
    /\ UNCHANGED <<val, old, new, asked, loads>>

ListenNew(t) ==
    /\ pc[t] = "new"
    /\ \E n \in todo[t] :
         LET d    == new[t][n]
             rest == todo[t] \ {n}
         IN  /\ logger' = IF n \in DOMAIN old[t] /\ old[t][n] = d
                            THEN logger
                            ELSE [logger EXCEPT ![n] = ApplyDefine(@, d)]
             /\ IF rest # {}
                  THEN todo' = [todo EXCEPT ![t] = rest] /\ UNCHANGED pc
                  ELSE /\ todo' = [todo EXCEPT ![t] = DOMAIN old[t] \ DOMAIN new[t]]
                       /\ pc' = [pc EXCEPT ![t] = "old"]
    /\ UNCHANGED <<val, old, new, asked, loads>>

\* One iteration of the loop over old_value for a removed logger:
\* setLevel(0), clearAppender.  After the last, setValue leaves the read
\* lock for the write lock.
ListenOld(t) ==
    /\ pc[t] = "old"
    /\ IF todo[t] = {}
         THEN pc' = [pc EXCEPT ![t] = "write"] /\ UNCHANGED <<logger, todo>>
         ELSE \E n \in todo[t] :
                /\ logger' = [logger EXCEPT ![n] = ClearAppender([@ EXCEPT !.level = 0])]
                /\ todo' = [todo EXCEPT ![t] = @ \ {n}]
                /\ UNCHANGED pc
    /\ UNCHANGED <<val, old, new, asked, loads>>

\* m_val = v under the write lock, once no other setValue holds the read
\* lock.
WriteValue(t) ==
    /\ pc[t] = "write"
    /\ \A s \in Loaders \ {t} : pc[s] \notin {"new", "old"}
    /\ val' = new[t]
    /\ pc' = [pc EXCEPT ![t] = "idle"]
    /\ UNCHANGED <<logger, old, new, todo, asked, loads>>

Done ==
    /\ loads = MaxLoads /\ \A t \in Loaders : pc[t] = "idle"
    /\ UNCHANGED vars

Next ==
    \/ \E t \in Loaders :
          \/ \E key \in Keys, doc \in Docs : LoadFromYaml(t, key, doc)
          \/ ListenNew(t)
          \/ ListenOld(t)
          \/ WriteValue(t)
    \/ Done

Spec == Init /\ [][Next]_vars

-----------------------------------------------------------------------------
\* Whenever no LoadFromYaml is in progress, every logger that m_val defines
\* is as its LogDefine says: its level, the formatter the definition names
\* when that one is valid, and its appenders in order, each with its type,
\* level, and its own valid formatter or else the logger's.  The listener
\* runs before m_val is stored and skips definitions it thinks unchanged,
\* so this needs the diff of old and new to be right.
Matches(lg, d) ==
    /\ lg.level = d.level
    /\ (d.formatter # <<>> /\ Valid(d.formatter)) => lg.fmt = d.formatter
    /\ Len(lg.apps) = Len(d.appenders)
    /\ \A k \in DOMAIN d.appenders :
          LET a == d.appenders[k]
          IN  /\ lg.apps[k].type = a.type
              /\ lg.apps[k].level = a.level
              /\ lg.apps[k].fmt = IF a.formatter # <<>> /\ Valid(a.formatter)
                                    THEN a.formatter ELSE lg.fmt
ConfigApplied ==
    (\A t \in Loaders : pc[t] = "idle") =>
        \A n \in DOMAIN val : Matches(logger[n], val[n])

\* No logger and no appender ever holds a formatter whose pattern
\* LogFormatter::init rejected, whatever patterns the documents carry.
FormattersValid ==
    \A n \in Names :
        /\ Valid(logger[n].fmt)
        /\ \A k \in DOMAIN logger[n].apps : Valid(logger[n].apps[k].fmt)

\* With one loader: once LoadFromYaml of a well-formed document returns,
\* g_log_defines holds the value of the document's "logs" entry, whatever
\* the case of its key (LoadFromYaml lowercases keys before LookupBase).
LoadHonoursKey ==
    \A t \in Loaders :
        pc[t] = "idle" /\ ParseDefineSet(asked[t]) # Throw =>
            val = ParseDefineSet(asked[t])
=============================================================================
