------------------------------- MODULE ReplRl --------------------------------
(***************************************************************************)
(* The read-eval loop of src/rquickjs_util.rs (repl_rl): a blocking thread *)
(* reads lines with rustyline and sends commands; the evaluator runs each  *)
(* one and replies before the next prompt.  Both channels have a capacity  *)
(* of one.  needs_more_input decides where a command ends; a character is  *)
(* one of Chars.                                                           *)
(***************************************************************************)
EXTENDS Integers, Sequences, FiniteSets

CONSTANTS
  MaxLine,      (* bound: characters of a line                              *)
  MaxText,      (* bound: characters of a command                           *)
  MaxCommands   (* bound: commands                                          *)

ASSUME ConstAssumption == {MaxLine, MaxText, MaxCommands} \subseteq Nat

Quotes == {"quote", "dquote"}
Chars == Quotes \cup {"open", "close", "escape", "other"}   \* inside a line
Lines == UNION {[1 .. n -> Chars] : n \in 0 .. MaxLine}

RL_CHANNEL_CAPACITY == 1

VARIABLES
  reader,     (* where the line reader is                                   *)
  lines,      (* the lines of the command, joined; <<"start">> without one  *)
  evaluator,  (* where the evaluator is                                     *)
  cmds,       (* commands in the channel                                    *)
  replies,    (* replies in the channel                                     *)
  USER_EXIT,  (* Ctrl-C outside of readline                                 *)
  entered,    (* commands the user has completed (history)                  *)
  evaluated   (* commands evaluated (history)                               *)

vars == <<reader, lines, evaluator, cmds, replies, USER_EXIT, entered, evaluated>>

NoLines == <<"start">>

Init ==
  /\ reader = "starting" /\ evaluator = "recv" /\ lines = NoLines
  /\ cmds = 0 /\ replies = 0 /\ USER_EXIT = FALSE /\ entered = 0 /\ evaluated = 0

-----------------------------------------------------------------------------
\* Past the character after an escape.
Escaped_plain(s, i) == i + 1                    \* mutant: escapes are not known
Escaped(s, i) == IF i < Len(s) THEN i + 2 ELSE i + 1

\* Past the string literal a character stands in, or past the end without one.
Skip(s, quote) ==
  LET n == Len(s)
      skip[i \in 1 .. n + 1] ==
        CASE i = n + 1 -> i
          [] i <= n /\ s[i] = "escape" -> skip[Escaped(s, i)]
          [] i <= n /\ s[i] = quote -> i + 1
          [] OTHER -> skip[i + 1]
  IN skip

\* The brackets left open when the characters from i on have been read with so many
\* open before, or -1 when one is closed that was not open: nothing more is read.
Balance(s) ==
  LET n == Len(s)
      left[i \in 1 .. n + 1] == [balance \in Nat |->
        CASE i = n + 1 -> balance
          [] i <= n /\ s[i] = "open" -> left[i + 1][balance + 1]
          [] i <= n /\ s[i] = "close" -> IF balance = 0 THEN -1 ELSE left[i + 1][balance - 1]
          [] i <= n /\ s[i] \in Quotes -> left[Skip(s, s[i])[i + 1]][balance]
          [] OTHER -> left[i + 1][balance]]
  IN left

\* The characters are read one by one; a string literal is skipped.
needs_more_input(s) == Balance(s)[1][0] > 0

Join(l) == IF lines = NoLines THEN l ELSE lines \o <<"newline">> \o l

-----------------------------------------------------------------------------
(* The line reader.                                                         *)

DefaultEditor ==
  /\ reader = "starting" /\ reader' \in {"reading", "ended"}
  /\ UNCHANGED <<lines, evaluator, cmds, replies, USER_EXIT, entered, evaluated>>

\* A line: the command is complete, and put into the history unless it is
\* empty, or the prompt asks for more.
ReadLine(l) ==
  /\ reader = "reading" /\ entered < MaxCommands
  /\ LET cmd == Join(l) IN
       /\ Len(cmd) <= MaxText
       /\ lines' = cmd
       /\ \/ needs_more_input(cmd) /\ UNCHANGED <<reader, entered>>
          \/ /\ ~needs_more_input(cmd)
             /\ \/ reader' = "sending" /\ entered' = entered + 1
                \/ cmd # <<>> /\ reader' = "ended" /\ UNCHANGED entered
  /\ UNCHANGED <<evaluator, cmds, replies, USER_EXIT, evaluated>>

\* Ctrl-C, Ctrl-D or an error while reading.
ReadEnds ==
  /\ reader = "reading" /\ reader' = "ended"
  /\ UNCHANGED <<lines, evaluator, cmds, replies, USER_EXIT, entered, evaluated>>

EvaluatorGone == evaluator \in {"returned", "failed"}

AfterSend_read == "reading"                     \* mutant: reads on
AfterSend == "waiting"

BlockingSend ==
  /\ reader = "sending"
  /\ \/ /\ EvaluatorGone
        /\ reader' = "ended" /\ UNCHANGED <<lines, cmds>>
     \/ /\ ~EvaluatorGone /\ cmds < RL_CHANNEL_CAPACITY
        /\ cmds' = cmds + 1 /\ reader' = AfterSend
        /\ lines' = IF AfterSend = "reading" THEN NoLines ELSE lines
  /\ UNCHANGED <<evaluator, replies, USER_EXIT, entered, evaluated>>

\* None ends the reader: the evaluator is gone.
NoReply_never == FALSE                          \* mutant: keeps a sender of its own
NoReply == EvaluatorGone /\ replies = 0

BlockingRecv ==
  /\ reader = "waiting"
  /\ \/ /\ replies > 0
        /\ replies' = replies - 1 /\ reader' = "reading" /\ lines' = NoLines
     \/ /\ NoReply
        /\ reader' = "ended" /\ UNCHANGED <<replies, lines>>
  /\ UNCHANGED <<evaluator, cmds, USER_EXIT, entered, evaluated>>

-----------------------------------------------------------------------------
(* The evaluator.                                                           *)

RecvCommand ==
  /\ evaluator = "recv"
  /\ \/ /\ cmds > 0
        /\ cmds' = cmds - 1 /\ evaluator' = "running"
     \/ /\ cmds = 0 /\ reader = "ended"
        /\ evaluator' = "joining" /\ UNCHANGED cmds
  /\ UNCHANGED <<reader, lines, replies, USER_EXIT, entered, evaluated>>

\* run_script: a value or an error, a value that cannot be kept as _, or a
\* script that does not end.
RunScript ==
  /\ evaluator = "running"
  /\ \/ evaluator' \in {"replying", "failed"} /\ evaluated' = evaluated + 1
     \/ evaluator' = "looping" /\ UNCHANGED evaluated
  /\ UNCHANGED <<reader, lines, cmds, replies, USER_EXIT, entered>>

\* The interrupt handler of main.
Interrupted ==
  /\ evaluator = "looping" /\ USER_EXIT
  /\ evaluator' = "replying" /\ evaluated' = evaluated + 1
  /\ UNCHANGED <<reader, lines, cmds, replies, USER_EXIT, entered>>

Reply ==
  /\ evaluator = "replying"
  /\ \/ /\ reader = "ended"
        /\ evaluator' = "failed" /\ UNCHANGED replies
     \/ /\ reader # "ended" /\ replies < RL_CHANNEL_CAPACITY
        /\ replies' = replies + 1 /\ evaluator' = "recv"
  /\ UNCHANGED <<reader, lines, cmds, USER_EXIT, entered, evaluated>>

\* input_handle.await
JoinReader ==
  /\ evaluator = "joining" /\ reader = "ended" /\ evaluator' = "returned"
  /\ UNCHANGED <<reader, lines, cmds, replies, USER_EXIT, entered, evaluated>>

CtrlC ==
  /\ ~USER_EXIT /\ USER_EXIT' = TRUE
  /\ UNCHANGED <<reader, lines, evaluator, cmds, replies, entered, evaluated>>

-----------------------------------------------------------------------------
User == (\E l \in Lines : ReadLine(l)) \/ ReadEnds \/ CtrlC
Reader == DefaultEditor \/ BlockingSend \/ BlockingRecv
Evaluator == RecvCommand \/ RunScript \/ Interrupted \/ Reply \/ JoinReader

Next == User \/ Reader \/ Evaluator

Spec == Init /\ [][Next]_vars

(* The thread and the task go on; nothing is assumed of the user.           *)
Fairness == WF_vars(Reader) /\ WF_vars(Evaluator)

FairSpec == Spec /\ Fairness

-----------------------------------------------------------------------------
TypeOK ==
  /\ reader \in {"starting", "reading", "sending", "waiting", "ended"}
  /\ evaluator \in {"recv", "running", "looping", "replying", "joining", "returned", "failed"}
  /\ lines = NoLines \/ (lines \in Seq(Chars \cup {"newline"}) /\ Len(lines) <= MaxText)
  /\ {cmds, replies} \subseteq 0 .. RL_CHANNEL_CAPACITY /\ USER_EXIT \in BOOLEAN
  /\ entered \in 0 .. MaxCommands /\ evaluated \in 0 .. entered
  /\ reader = "ended" => evaluator # "replying" /\ evaluator # "looping"

\* The literal a character stands in, and whether an escape comes before it.
Inside(s) ==
  LET in[i \in 0 .. Len(s)] ==
        IF i = 0 THEN [literal |-> "none", escaped |-> FALSE]
        ELSE LET p == in[i - 1] IN
          [literal |-> CASE p.literal = "none" -> IF s[i] \in Quotes THEN s[i] ELSE "none"
                         [] p.literal = s[i] /\ ~p.escaped -> "none"
                         [] OTHER -> p.literal,
           escaped |-> p.literal # "none" /\ s[i] = "escape" /\ ~p.escaped]
  IN in

\* Brackets opened less brackets closed in the first k characters, string
\* literals left out.
Depth(s, k) ==
  LET in == Inside(s)
      number(c) == Cardinality({i \in 1 .. k : s[i] = c /\ in[i - 1].literal = "none"})
  IN number("open") - number("close")

Unfinished(s) == (\A k \in 1 .. Len(s) : Depth(s, k) >= 0) /\ Depth(s, Len(s)) > 0

\* The prompt asks for more while a bracket that is not in a string literal is
\* open, and only then; text with a bracket closed too often is a command, which
\* the engine will reject.
AsksWhileOpen ==
  lines # NoLines =>
    IF reader = "reading" THEN Unfinished(lines)
    ELSE reader \in {"sending", "waiting"} => ~Unfinished(lines)

\* A new command is asked for when the one before has been evaluated and its
\* output printed, and nothing of it is left in the channels: the prompt and the
\* output never mix and no send ever blocks.
PromptAfterOutput ==
  /\ reader = "reading" => cmds = 0 /\ replies = 0 /\ evaluated = entered
  /\ reader = "sending" => cmds = 0
  /\ evaluator = "replying" => replies = 0

Loops == evaluator = "looping" /\ ~USER_EXIT

\* Nobody waits for ever.  Every command gets its prompt or the end of the reader,
\* unless its script does not end; Ctrl-C ends such a script.  When the reader ends,
\* repl_rl returns; when the evaluator fails, the reader ends without waiting for
\* another line, so that the runtime can shut down.
NobodyWaitsForever ==
  /\ (reader \in {"sending", "waiting"}) ~> (reader \in {"reading", "ended"} \/ Loops)
  /\ (reader = "ended") ~> (EvaluatorGone \/ Loops)
  /\ EvaluatorGone ~> (reader = "ended")
=============================================================================
