----------------------------- MODULE MCLogging -----------------------------
(* Two threads; the default logger writes to the terminal, another to a file  *)
(* that could not be opened and to one that could.  The third logger has the  *)
(* name of the second, and no sinks.                                         *)
EXTENDS Logging, LogFormatter

MCSinksOf == ("default" :> <<"tty">>) @@ ("named" :> <<"bad", "file">>) @@ ("namesake" :> <<>>)
MCNameOf == [l \in Loggers |-> IF l = "namesake" THEN "named" ELSE l]

\* The second logger is registered, and
\*   - the default logger is still the main one, or
\*   - the registered one is, and the program holds its namesake, or
\*   - the namesake is, which was never registered, and the program keeps nothing.
MCSetups ==
  {[main |-> "default", registered |-> {"named"}, pointers |-> {}],
   [main |-> "named", registered |-> {"named"}, pointers |-> {"namesake"}],
   [main |-> "namesake", registered |-> {"named"}, pointers |-> {}]}

Symmetry == Permutations(Threads)

\* Short patterns over text, the escape and flags compile to what they say, and
\* the built-in patterns compile and show time, level, thread, line and place.
ASSUME PatternAssumption ==
  /\ \A n \in 0..5 : \A p \in [1..n -> {"x", Percent, "T", "C", "q"}] : Faithful(p)
  /\ Render(CompilePattern(DefaultPattern)) =
       <<"logTime", " ", "level", " ", "<", "threadName", ":", "threadId", ">", " ",
         "logLine", " ", "[", "baseName", ":", "line", "]", "newline">>
  /\ CustomFlags = ColorFlags
  /\ SelectSeq(Render(CompilePattern(ColorPattern)), LAMBDA x : x \notin ColorFlags) =
       Render(CompilePattern(DefaultPattern))
=============================================================================
