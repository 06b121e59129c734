---------------------------- MODULE LogFormatter ----------------------------
(***************************************************************************)
(* Patterns of Cold::Base::LogFormatter (log/LogFormatter): a sequence of  *)
(* characters is compiled into the sequence of its formatters.  A formatter *)
(* is [flag |-> c] for a flag and [text |-> s] for the text between flags.  *)
(***************************************************************************)
EXTENDS Naturals, Sequences, SequencesExt

CONSTANT CustomFlags       \* flagMap_: the flags of the sink, above the default ones

\* What each flag appends of a message (the newline is a field, too).
FieldOf ==
  [t |-> "threadId", N |-> "threadName", f |-> "function", F |-> "fileName", l |-> "line", L |-> "level",
   n |-> "newline", T |-> "logTime", c |-> "logLine", m |-> "loggerName", b |-> "baseName"]

\* ColorStartFlag and ColorEndFlag, the custom flags of StdoutColorSink.
ColorFlags == {"C", "E"}

Percent == "%"
Bad == <<[bad |-> TRUE]>>    \* CompilePattern returned false

\* The text collected so far becomes a formatter.
EndText(sequence, text) ==
  IF text = <<>> THEN sequence ELSE Append(sequence, [text |-> text])

HandleFlag(c) == c \in DOMAIN FieldOf

\* The loop of CompilePattern from position i on.
RECURSIVE CompileFrom(_, _, _, _)
CompileFrom(pattern, i, sequence, text) ==
  IF i > Len(pattern) THEN EndText(sequence, text)
  ELSE IF pattern[i] # Percent THEN CompileFrom(pattern, i + 1, sequence, Append(text, pattern[i]))
  ELSE IF i = Len(pattern) THEN Bad
  ELSE LET c == pattern[i + 1] IN
       IF c = Percent THEN CompileFrom(pattern, i + 2, sequence, Append(text, c))
       ELSE IF c \in CustomFlags \/ HandleFlag(c)
       THEN CompileFrom(pattern, i + 2, Append(EndText(sequence, text), [flag |-> c]), <<>>)
       ELSE Bad

CompilePattern(pattern) == CompileFrom(pattern, 1, <<>>, <<>>)

\* The pieces a compiled pattern appends for a message.
Render(sequence) ==
  FlattenSeq([i \in DOMAIN sequence |->
    IF "text" \in DOMAIN sequence[i] THEN sequence[i].text
    ELSE IF sequence[i].flag \in CustomFlags THEN <<sequence[i].flag>>
    ELSE <<FieldOf[sequence[i].flag]>>])

\* The patterns of LogSink and of StdoutColorSink.
DefaultPattern ==
  <<"%", "T", " ", "%", "L", " ", "<", "%", "N", ":", "%", "t", ">", " ", "%", "c", " ", "[", "%", "b", ":", "%", "l", "]", "%", "n">>
ColorPattern == SubSeq(DefaultPattern, 1, 3) \o <<"%", "C", "%", "L", "%", "E">> \o SubSeq(DefaultPattern, 6, 26)

\* What a formatter stands for in a pattern.
Source(f) ==
  IF "flag" \in DOMAIN f THEN <<Percent, f.flag>>
  ELSE FlattenSeq([i \in DOMAIN f.text |-> IF f.text[i] = Percent THEN <<Percent, Percent>> ELSE <<f.text[i]>>])

\* A pattern that compiles is what its formatters stand for, one after the
\* other, and no two texts follow each other.
Faithful(pattern) ==
  LET c == CompilePattern(pattern) IN
  c # Bad =>
    /\ FlattenSeq([i \in DOMAIN c |-> Source(c[i])]) = pattern
    /\ \A i \in 1..(Len(c) - 1) : "flag" \in DOMAIN c[i] \/ "flag" \in DOMAIN c[i + 1]
=============================================================================
