---------------------------- MODULE MCLogConfig ----------------------------
(***************************************************************************)
(* LogConfig for TLC: the root logger and "system", and six "logs"         *)
(* documents that take every branch of the LogDefine parser and of the    *)
(* LogIniter listener.                                                     *)
(***************************************************************************)
EXTENDS LogConfig

\* The pattern of the Logger constructor,
\* "%d{%Y-%m-%d %H:%M:%S}%T%t%T%N%T%F%T[%p]%T[%c]%T%f:%l%T%m%n".
MCDefaultFmt ==
    <<"%", "d", "{", "%", "Y", "-", "%", "m", "-", "%", "d", " ", "%",
      "H", ":", "%", "M", ":", "%", "S", "}", "%", "T", "%", "t", "%",
      "T", "%", "N", "%", "T", "%", "F", "%", "T", "[", "%", "p", "]",
      "%", "T", "[", "%", "c", "]", "%", "T", "%", "f", ":", "%", "l",
      "%", "T", "%", "m", "%", "n">>

\* The letters isalpha() accepts among the characters used.
MCLetters == {"d", "Y", "m", "H", "M", "S", "T", "t", "N", "F", "p", "c", "f",
              "l", "n", "x"}

Ok   == <<"%", "m">>
Bad  == <<"%", "x">>
Open == <<"%", "d", "{">>

\* YAML nodes: each field is {} when the key is absent.
AppNode(type, file, level, fmt) ==
    [type |-> type, file |-> file, level |-> level, formatter |-> fmt]
LogNode(name, level, fmt, apps) ==
    [name |-> name, level |-> level, formatter |-> fmt, appenders |-> apps]

\* The "logs" sequences of the documents: none; root and system with
\* every kind of appender node (one of an unknown type); a system with an
\* invalid formatter, a file appender without file and an appender with an
\* unterminated pattern; system twice; an entry without a name; a root
\* with neither level nor formatter.
MCDocs ==
    { <<>>,
      <<LogNode({"root"}, {"info"}, {}, {<<AppNode({"StdoutLogAppender"}, {}, {"error"}, {Ok})>>}),
        LogNode({"system"}, {"debug"}, {Ok},
                {<<AppNode({"FileLogAppender"}, {"a.log"}, {}, {}),
                   AppNode({"SyslogAppender"}, {}, {}, {})>>})>>,
      <<LogNode({"system"}, {"WARN"}, {Bad},
                {<<AppNode({"FileLogAppender"}, {}, {}, {}),
                   AppNode({"StdoutLogAppender"}, {}, {}, {Open})>>})>>,
      <<LogNode({"system"}, {"error"}, {}, {}), LogNode({"system"}, {"fatal"}, {Ok}, {})>>,
      <<LogNode({"root"}, {"warn"}, {}, {}), LogNode({}, {"info"}, {}, {})>>,
      <<LogNode({"root"}, {}, {}, {})>> }
=============================================================================
