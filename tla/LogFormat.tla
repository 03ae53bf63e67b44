----------------------------- MODULE LogFormat -----------------------------
(***************************************************************************)
(* The pattern parser LogFormatter::init and the level conversions         *)
(* LogLevel::ToString / FromString of src/mumu/log.cc, as pure operators.  *)
(*                                                                         *)
(* A pattern is a sequence of one-character strings; m_pattern[k] is       *)
(* pat[k + 1].  The parser's result is the item list m_items and the flag  *)
(* m_error; an item is a literal text, a directive with its {format}, or   *)
(* an error text.                                                          *)
(***************************************************************************)
EXTENDS Integers, Sequences

\* The characters isalpha() accepts, among those the patterns use.
CONSTANT Letters

\* The keys of s_format_items: the directive names %m, %p, ... %N.
FormatItems == {"m", "p", "r", "c", "t", "n", "d", "f", "l", "T", "F", "N"}

Text(s)        == [k |-> "text", s |-> s]
Item(s, fmt)   == [k |-> "item", s |-> s, fmt |-> fmt]
ErrorText(s)   == [k |-> "error", s |-> s]

-----------------------------------------------------------------------------
\* The while loop that reads one directive after the '%' at index i.  It
\* returns where it stopped (n), fmt_status, str and fmt.
\* Mutant: the {format} taken from the '{' on.
RECURSIVE ReadDirectiveBrace(_, _, _, _, _, _, _)
ReadDirectiveBrace(pat, i, n, status, fmtBegin, str, fmt) ==
    LET L  == Len(pat)
        c  == pat[n + 1]
        Sub(a, b) == SubSeq(pat, a + 1, b)
    IN
    IF n >= L THEN [n |-> n, status |-> status, str |-> str, fmt |-> fmt]
    ELSE IF status = 0 /\ c \notin Letters /\ c \notin {"{", "}"}
      THEN [n |-> n, status |-> 0, str |-> Sub(i + 1, n), fmt |-> fmt]
    ELSE IF status = 0 /\ c = "{"
      THEN ReadDirectiveBrace(pat, i, n + 1, 1, n, Sub(i + 1, n), fmt)
    ELSE IF status = 1 /\ c = "}"
      THEN [n |-> n + 1, status |-> 0, str |-> str, fmt |-> Sub(fmtBegin, n)]
    ELSE ReadDirectiveBrace(pat, i, n + 1, status, fmtBegin,
                            IF n + 1 = L /\ str = <<>> THEN Sub(i + 1, L) ELSE str,
                            fmt)

RECURSIVE ReadDirective(_, _, _, _, _, _, _)
ReadDirective(pat, i, n, status, fmtBegin, str, fmt) ==
    LET L  == Len(pat)
        c  == pat[n + 1]
        Sub(a, b) == SubSeq(pat, a + 1, b)   \* m_pattern.substr(a, b - a)
    IN
    IF n >= L THEN [n |-> n, status |-> status, str |-> str, fmt |-> fmt]
    ELSE IF status = 0 /\ c \notin Letters /\ c \notin {"{", "}"}
      THEN [n |-> n, status |-> 0, str |-> Sub(i + 1, n), fmt |-> fmt]
    ELSE IF status = 0 /\ c = "{"
      THEN ReadDirective(pat, i, n + 1, 1, n, Sub(i + 1, n), fmt)
    ELSE IF status = 1 /\ c = "}"
      THEN [n |-> n + 1, status |-> 0, str |-> str, fmt |-> Sub(fmtBegin + 1, n)]
    ELSE ReadDirective(pat, i, n + 1, status, fmtBegin,
                       IF n + 1 = L /\ str = <<>> THEN Sub(i + 1, L) ELSE str,
                       fmt)

\* The for loop over the pattern, building vec and nstr.
RECURSIVE Scan(_, _, _, _)
Scan(pat, i, nstr, vec) ==
    LET L     == Len(pat)
        Flush == IF nstr = <<>> THEN <<>> ELSE <<Text(nstr)>>
    IN
    IF i >= L THEN vec \o Flush
    ELSE IF pat[i + 1] # "%" THEN Scan(pat, i + 1, Append(nstr, pat[i + 1]), vec)
    ELSE IF i + 1 < L /\ pat[i + 2] = "%"
      THEN Scan(pat, i + 1, Append(nstr, "%"), vec)
    ELSE LET d == ReadDirective(pat, i, i + 1, 0, 0, <<>>, <<>>)
         IN  IF d.status = 0
               THEN Scan(pat, d.n, <<>>, vec \o Flush \o <<Item(d.str, d.fmt)>>)
               ELSE Scan(pat, i + 1, nstr,
                         Append(vec, ErrorText(<<"<<pattern_error>>">>)))

\* The second loop: a directive with no entry in s_format_items becomes an
\* "<<error_format %...>>" text and sets m_error.
Known(e) == e.k = "item" /\ Len(e.s) = 1 /\ e.s[1] \in FormatItems
FormatterInit(pat) ==
    LET vec == Scan(pat, 0, <<>>, <<>>)
    IN  [items |-> [j \in DOMAIN vec |->
                      IF vec[j].k = "item" /\ ~Known(vec[j])
                        THEN ErrorText(vec[j].s) ELSE vec[j]],
         error |-> \E j \in DOMAIN vec : vec[j].k = "error" \/
                                          (vec[j].k = "item" /\ ~Known(vec[j]))]

-----------------------------------------------------------------------------
\* LogLevel: UNKONW = 0, DEBUG = 1, ..., FATAL = 5.
LevelNames == <<"DEBUG", "INFO", "WARN", "ERROR", "FATAL">>
LowerNames == <<"debug", "info", "warn", "error", "fatal">>

LevelToString(l) == IF l \in 1..5 THEN LevelNames[l] ELSE "UNKNOW"

LevelFromString(s) ==
    IF \E l \in 1..5 : s = LowerNames[l] \/ s = LevelNames[l]
      THEN CHOOSE l \in 1..5 : s = LowerNames[l] \/ s = LevelNames[l]
      ELSE 0

-----------------------------------------------------------------------------
\* The YAML forms of a logger definition (LexcalCast<std::string,
\* LogDefine> and LexcalCast<LogDefine, std::string>).  A YAML map is a
\* record whose fields are sets: {} when the key is not defined, {v} when
\* it holds v; a YAML sequence is a sequence.  A LogDefine is [name, level,
\* formatter, appenders]; a LogAppenderDefine is [type, level, formatter,
\* file] with type 1 FileLogAppender, 2 StdoutLogAppender.
Absent == {}
Throw  == [exception |-> "std::logic_error"]

IfDefined(x, dflt) == IF x = Absent THEN dflt ELSE CHOOSE v \in x : TRUE

\* One appender node: "continue" on a missing type, a file appender
\* without file, or an unknown type.  The node's "level" is not read.
AppenderKept(a) ==
    \/ a.type = {"StdoutLogAppender"}
    \/ a.type = {"FileLogAppender"} /\ a.file # Absent
ParseAppender(a) ==
    [type      |-> IF a.type = {"FileLogAppender"} THEN 1 ELSE 2,
     level     |-> 0,
     formatter |-> IfDefined(a.formatter, <<>>),
     file      |-> IfDefined(a.file, "")]

\* A node without "name" throws std::logic_error.
ParseDefine(n) ==
    IF n.name = Absent THEN Throw
    ELSE LET kept == SelectSeq(IfDefined(n.appenders, <<>>), AppenderKept)
         IN  [name      |-> IfDefined(n.name, ""),
              level     |-> LevelFromString(IfDefined(n.level, "")),
              formatter |-> IfDefined(n.formatter, <<>>),
              appenders |-> [k \in DOMAIN kept |-> ParseAppender(kept[k])]]

\* The node LexcalCast<LogDefine, std::string> writes: level only when not
\* UNKONW, formatter only when not empty, file only for a file appender.
AppenderToYaml(a) ==
    [type      |-> {IF a.type = 1 THEN "FileLogAppender" ELSE "StdoutLogAppender"},
     file      |-> IF a.type = 1 THEN {a.file} ELSE Absent,
     level     |-> IF a.level # 0 THEN {LevelToString(a.level)} ELSE Absent,
     formatter |-> IF a.formatter # <<>> THEN {a.formatter} ELSE Absent]
DefineToYaml(d) ==
    [name      |-> {d.name},
     level     |-> IF d.level # 0 THEN {LevelToString(d.level)} ELSE Absent,
     formatter |-> IF d.formatter # <<>> THEN {d.formatter} ELSE Absent,
     appenders |-> IF d.appenders = <<>> THEN Absent
                   ELSE {[k \in DOMAIN d.appenders |-> AppenderToYaml(d.appenders[k])]}]

\* LexcalCast<std::string, std::set<LogDefine>>: each element of the YAML
\* sequence is parsed and inserted; std::set::insert keeps the first of
\* equal names (operator< compares names).  A throw leaves the loop.  The
\* set is a function from names to definitions.
RECURSIVE InsertAll(_, _)
InsertAll(doc, acc) ==
    IF doc = <<>> THEN acc
    ELSE LET d == ParseDefine(Head(doc))
         IN  IF d = Throw THEN Throw
             ELSE InsertAll(Tail(doc),
                            IF d.name \in DOMAIN acc THEN acc
                            ELSE [m \in DOMAIN acc \cup {d.name} |->
                                    IF m = d.name THEN d ELSE acc[m]])
ParseDefineSet(doc) == InsertAll(doc, [m \in {} |-> m])
=============================================================================
