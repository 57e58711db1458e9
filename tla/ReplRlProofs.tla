----------------------------- MODULE ReplRlProofs -----------------------------
(***************************************************************************)
(* Theorems of ReplRl, for any length of lines and commands and any number *)
(* of them.                                                                *)
(***************************************************************************)
EXTENDS ReplRl, DataInduction, SequenceTheorems, FiniteSetTheorems, TLAPS

\* Where the one command is that reader and evaluator hand back and forth: with the user,
\* in cmds, with the evaluator, or answered in replies.  After the reader has ended the
\* evaluator has nothing to do but to end.
Turns ==
  /\ reader \in {"starting", "reading"} =>
       evaluator = "recv" /\ cmds = 0 /\ replies = 0 /\ evaluated = entered
  /\ reader = "sending" =>
       evaluator = "recv" /\ cmds = 0 /\ replies = 0 /\ evaluated = entered - 1
  /\ reader = "waiting" =>
       \/ evaluator = "recv" /\ cmds = 1 /\ replies = 0 /\ evaluated = entered - 1
       \/ evaluator \in {"running", "looping"} /\ cmds = 0 /\ replies = 0 /\ evaluated = entered - 1
       \/ evaluator \in {"replying", "failed"} /\ cmds = 0 /\ replies = 0 /\ evaluated = entered
       \/ evaluator = "recv" /\ cmds = 0 /\ replies = 1 /\ evaluated = entered
  /\ reader = "ended" =>
       evaluator \in {"recv", "joining", "returned", "failed"} /\ cmds = 0 /\ evaluated = entered

IInv == TypeOK /\ Turns

-----------------------------------------------------------------------------
LEMMA IInvInit == Init => IInv
<1> USE ConstAssumption DEF Init
<1>1. Init => Turns
  BY DEF Turns
<1>2. Init => TypeOK
  <2> SUFFICES ASSUME Init PROVE TypeOK
    OBVIOUS
  <2>1. /\ reader = "starting" /\ evaluator = "recv" /\ lines = NoLines
        /\ USER_EXIT \in BOOLEAN
    OBVIOUS
  <2>2. /\ {cmds, replies} \subseteq 0 .. RL_CHANNEL_CAPACITY
        /\ entered \in 0 .. MaxCommands /\ evaluated \in 0 .. entered
    BY DEF RL_CHANNEL_CAPACITY
  <2> QED
    BY <2>1, <2>2 DEF TypeOK
<1> QED
  BY <1>1, <1>2 DEF IInv

\* The lines of a command joined are text, with newlines between them.
LEMMA JoinText ==
  ASSUME TypeOK, NEW l \in Lines
  PROVE  Join(l) \in Seq(Chars \cup {"newline"})
<1>1. PICK n \in Nat : l \in [1 .. n -> Chars]
  BY ConstAssumption DEF Lines
<1>2. l \in Seq(Chars \cup {"newline"})
  BY <1>1
<1>3. CASE lines = NoLines
  BY <1>2, <1>3 DEF Join
<1>4. CASE lines # NoLines
  <2>1. lines \in Seq(Chars \cup {"newline"}) /\ <<"newline">> \in Seq(Chars \cup {"newline"})
    BY <1>4 DEF TypeOK
  <2>2. lines \o <<"newline">> \in Seq(Chars \cup {"newline"})
    BY <2>1, ConcatProperties
  <2>3. lines \o <<"newline">> \o l \in Seq(Chars \cup {"newline"})
    BY <1>2, <2>2, ConcatProperties
  <2> QED
    BY <1>4, <2>3 DEF Join
<1> QED
  BY <1>3, <1>4

LEMMA IInvNext == IInv /\ [Next]_vars => IInv'
<1> SUFFICES ASSUME IInv, [Next]_vars PROVE IInv'
  OBVIOUS
<1> USE ConstAssumption DEF IInv, Turns, RL_CHANNEL_CAPACITY
<1>1. CASE DefaultEditor \/ ReadEnds
  BY <1>1 DEF DefaultEditor, ReadEnds, TypeOK
<1>2. ASSUME NEW l \in Lines, ReadLine(l) PROVE IInv'
  <2>1. lines' \in Seq(Chars \cup {"newline"}) /\ Len(lines') <= MaxText
    BY <1>2, JoinText DEF ReadLine
  <2>2. /\ reader = "reading" /\ entered < MaxCommands
        /\ \/ reader' \in {"reading", "ended"} /\ entered' = entered
           \/ reader' = "sending" /\ entered' = entered + 1
        /\ UNCHANGED <<evaluator, cmds, replies, USER_EXIT, evaluated>>
    BY <1>2 DEF ReadLine
  <2>3. Turns'
    BY <2>2 DEF TypeOK
  <2>4. entered' \in 0 .. MaxCommands /\ evaluated' \in 0 .. entered'
    BY <2>2 DEF TypeOK
  <2> QED
    BY <2>1, <2>2, <2>3, <2>4 DEF TypeOK
<1>3. CASE CtrlC
  BY <1>3 DEF CtrlC, TypeOK
<1>4. CASE BlockingSend
  BY <1>4 DEF BlockingSend, EvaluatorGone, AfterSend, TypeOK
<1>5. CASE BlockingRecv
  BY <1>5 DEF BlockingRecv, NoReply, EvaluatorGone, TypeOK
<1>6. CASE RecvCommand
  BY <1>6 DEF RecvCommand, TypeOK
<1>7. CASE RunScript \/ Interrupted
  BY <1>7 DEF RunScript, Interrupted, TypeOK
<1>8. CASE Reply
  BY <1>8 DEF Reply, TypeOK
<1>9. CASE JoinReader
  BY <1>9 DEF JoinReader, TypeOK
<1>10. CASE UNCHANGED vars
  BY <1>10 DEF vars, TypeOK
<1> QED
  BY <1>1, <1>2, <1>3, <1>4, <1>5, <1>6, <1>7, <1>8, <1>9, <1>10 DEF Next, User, Reader, Evaluator

LEMMA IInvAlways == Spec => []IInv
BY IInvInit, IInvNext, PTL DEF Spec

-----------------------------------------------------------------------------
\* The variables have their types: neither channel ever needs more than its capacity of
\* one, and no more commands are evaluated than entered.
THEOREM ReplTyped == Spec => []TypeOK
BY IInvAlways, PTL DEF IInv

\* The prompt and the output of a command never mix, and no send ever blocks.
THEOREM PromptsAfterOutput == Spec => []PromptAfterOutput
<1>1. IInv => PromptAfterOutput
  BY DEF IInv, TypeOK, Turns, PromptAfterOutput
<1> QED
  BY <1>1, IInvAlways, PTL

-----------------------------------------------------------------------------
(* The scan of needs_more_input: Balance reads on from a character, Depth   *)
(* and Inside say what is open there.  Both are defined recursively, in     *)
(* opposite directions.                                                     *)

\* What a command may be made of.
Text == Seq(Chars \cup {"newline"})

\* The function Skip defines exists, and satisfies its definition.
LEMMA SkipDef ==
  ASSUME NEW s \in Text, NEW quote \in Quotes
  PROVE  \A i \in 1 .. Len(s) + 1 :
           Skip(s, quote)[i] =
             CASE i = Len(s) + 1 -> i
               [] i <= Len(s) /\ s[i] = "escape" -> Skip(s, quote)[Escaped(s, i)]
               [] i <= Len(s) /\ s[i] = quote -> i + 1
               [] OTHER -> Skip(s, quote)[i + 1]
<1> DEFINE n == Len(s)
           I == 1 .. n + 1
           w == [i \in I |-> n + 1 - i]
           E(f, i) == CASE i = n + 1 -> i
                   [] i <= n /\ s[i] = "escape" -> f[Escaped(s, i)]
                   [] i <= n /\ s[i] = quote -> i + 1
                   [] OTHER -> f[i + 1]
           G == [i \in I |-> [f \in [I -> Int] |-> E(f, i)]]
<1>1. n \in Nat
  BY LenProperties DEF Text
<1> HIDE DEF n
<1>2. w \in [I -> 0 .. n]
  BY <1>1
<1>3. \A i \in I : \A f, g \in [I -> Int] :
        (\A j \in I : w[j] < w[i] => f[j] = g[j]) => E(f, i) = E(g, i) /\ E(f, i) \in Int
  <2> SUFFICES ASSUME NEW i \in I, NEW f \in [I -> Int], NEW g \in [I -> Int],
                      \A j \in I : w[j] < w[i] => f[j] = g[j]
               PROVE  E(f, i) = E(g, i) /\ E(f, i) \in Int
    OBVIOUS
  <2>1. CASE i = n + 1
    BY <1>1, <2>1
  <2>2. CASE i # n + 1
    <3>1. i + 1 \in I /\ Escaped(s, i) \in I /\ w[i + 1] < w[i] /\ w[Escaped(s, i)] < w[i]
      BY <1>1, <2>2 DEF Escaped, n
    <3>2. f[i + 1] = g[i + 1] /\ f[Escaped(s, i)] = g[Escaped(s, i)] /\ f[i + 1] \in Int /\ f[Escaped(s, i)] \in Int
      BY <3>1
    <3> QED
      BY <2>2, <3>1, <3>2
  <2> QED
    BY <2>1, <2>2
<1> HIDE DEF E
<1>4. G \in [I -> [[I -> Int] -> Int]]
  BY <1>3
<1>5. \A i \in I : \A f \in [I -> Int] : G[i][f] = E(f, i)
  OBVIOUS
<1> HIDE DEF G
<1>6. \A i \in I : \A f, g \in [I -> Int] :
        (\A j \in I : w[j] < w[i] => f[j] = g[j]) => G[i][f] = G[i][g]
  <2> SUFFICES ASSUME NEW i \in I, NEW f \in [I -> Int], NEW g \in [I -> Int],
                      \A j \in I : w[j] < w[i] => f[j] = g[j]
               PROVE  G[i][f] = G[i][g]
    OBVIOUS
  <2>1. E(f, i) = E(g, i)
    BY <1>3
  <2>2. G[i][f] = E(f, i) /\ G[i][g] = E(g, i)
    BY <1>5
  <2> QED
    BY <2>1, <2>2
<1> HIDE DEF w, I
<1>7. \E f \in [I -> Int] : \A i \in I : f[i] = G[i][f]
  <2>1. Int # {}
    OBVIOUS
  <2>2. Recursive(I, Int, n, w, G)
    BY <1>1, <1>2, <1>4, <1>6, <2>1 DEF Recursive
  <2> QED
    BY <2>2, RecursiveHolds
<1>8. PICK f \in [I -> Int] : \A i \in I : f[i] = E(f, i)
  BY <1>5, <1>7, Zenon
<1>9. f = [i \in I |-> E(f, i)]
  BY <1>8
<1>10. Skip(s, quote) = CHOOSE h : h = [i \in I |-> E(h, i)]
  BY DEF Skip, E, I, n
<1>11. Skip(s, quote) = [i \in I |-> E(Skip(s, quote), i)]
  BY <1>9, <1>10, Zenon
<1> QED
  BY <1>11 DEF E, I, n

\* What Skip does at a character.
LEMMA SkipStep ==
  ASSUME NEW s \in Text, NEW quote \in Quotes, NEW i \in 1 .. Len(s) + 1
  PROVE  /\ i = Len(s) + 1 => Skip(s, quote)[i] = i
         /\ i # Len(s) + 1 /\ s[i] = "escape" => Skip(s, quote)[i] = Skip(s, quote)[Escaped(s, i)]
         /\ i # Len(s) + 1 /\ s[i] = quote => Skip(s, quote)[i] = i + 1
         /\ i # Len(s) + 1 /\ s[i] # "escape" /\ s[i] # quote =>
              Skip(s, quote)[i] = Skip(s, quote)[i + 1]
<1>1. Len(s) \in Nat /\ quote # "escape"
  BY LenProperties DEF Text, Quotes
<1>2. Skip(s, quote)[i] =
             CASE i = Len(s) + 1 -> i
               [] i <= Len(s) /\ s[i] = "escape" -> Skip(s, quote)[Escaped(s, i)]
               [] i <= Len(s) /\ s[i] = quote -> i + 1
               [] OTHER -> Skip(s, quote)[i + 1]
  BY SkipDef
<1>3. i <= Len(s) <=> i # Len(s) + 1
  BY <1>1
<1>4. i = Len(s) + 1 \/ i # Len(s) + 1
  OBVIOUS
<1> QED
  BY <1>1, <1>2, <1>3, SMT

\* The value of Inside at a place, from the place before.
InsideAt(s, in, i) ==
  IF i = 0 THEN [literal |-> "none", escaped |-> FALSE]
  ELSE [literal |-> CASE in[i - 1].literal = "none" -> IF s[i] \in Quotes THEN s[i] ELSE "none"
                      [] in[i - 1].literal = s[i] /\ ~in[i - 1].escaped -> "none"
                      [] OTHER -> in[i - 1].literal,
        escaped |-> in[i - 1].literal # "none" /\ s[i] = "escape" /\ ~in[i - 1].escaped]

Places == [literal : Quotes \cup {"none"}, escaped : BOOLEAN]

\* The function Inside defines exists, and satisfies its definition.
LEMMA InsideDef ==
  ASSUME NEW s \in Text, NEW i \in 0 .. Len(s)
  PROVE  Inside(s)[i] = InsideAt(s, Inside(s), i)
<1> DEFINE n == Len(s)
           I == 0 .. n
           w == [j \in I |-> j]
           E(f, j) == InsideAt(s, f, j)
           G == [j \in I |-> [f \in [I -> Places] |-> E(f, j)]]
<1>1. n \in Nat
  BY LenProperties DEF Text
<1> HIDE DEF n
<1>2. w \in [I -> 0 .. n]
  BY <1>1
<1>3. ASSUME NEW j \in I, NEW f \in [I -> Places], NEW g \in [I -> Places],
             \A k \in I : w[k] < w[j] => f[k] = g[k]
      PROVE  E(f, j) = E(g, j) /\ E(f, j) \in Places
  <2>1. CASE j = 0
    BY <2>1 DEF InsideAt, Places
  <2>2. CASE j # 0
    <3>1. j - 1 \in I /\ w[j - 1] < w[j]
      BY <1>1, <2>2
    <3>2. f[j - 1] = g[j - 1] /\ f[j - 1] \in Places
      BY <1>3, <3>1
    <3> HIDE DEF I
    <3> QED
      BY <2>2, <3>2 DEF InsideAt, Places
  <2> QED
    BY <2>1, <2>2
<1> HIDE DEF E
<1>4. G \in [I -> [[I -> Places] -> Places]]
  BY <1>3
<1>5. \A j \in I : \A f \in [I -> Places] : G[j][f] = E(f, j)
  OBVIOUS
<1> HIDE DEF G
<1>6. \A j \in I : \A f, g \in [I -> Places] :
        (\A k \in I : w[k] < w[j] => f[k] = g[k]) => G[j][f] = G[j][g]
  <2> SUFFICES ASSUME NEW j \in I, NEW f \in [I -> Places], NEW g \in [I -> Places],
                      \A k \in I : w[k] < w[j] => f[k] = g[k]
               PROVE  G[j][f] = G[j][g]
    OBVIOUS
  <2>1. E(f, j) = E(g, j)
    BY <1>3
  <2>2. G[j][f] = E(f, j) /\ G[j][g] = E(g, j)
    BY <1>5
  <2> QED
    BY <2>1, <2>2
<1> HIDE DEF w, I
<1>7. \E f \in [I -> Places] : \A j \in I : f[j] = G[j][f]
  <2>1. Places # {}
    <3>1. [literal |-> "none", escaped |-> FALSE] \in Places
      BY DEF Places
    <3> QED
      BY <3>1
  <2>2. Recursive(I, Places, n, w, G)
    BY <1>1, <1>2, <1>4, <1>6, <2>1 DEF Recursive
  <2> QED
    BY <2>2, RecursiveHolds
<1>8. PICK f \in [I -> Places] : \A j \in I : f[j] = E(f, j)
  BY <1>5, <1>7, Zenon
<1>9. f = [j \in I |-> E(f, j)]
  BY <1>8
<1>10. Inside(s) = CHOOSE h : h = [j \in I |-> E(h, j)]
  BY DEF Inside, E, I, n, InsideAt
<1>11. Inside(s) = [j \in I |-> E(Inside(s), j)]
  BY <1>9, <1>10, Zenon
<1> QED
  BY <1>11 DEF E, I, n

\* From a place in a string literal, Skip finds the end of that literal or of the text.
LEMMA SkipPast ==
  ASSUME NEW s \in Text, NEW quote \in Quotes, NEW i \in 1 .. Len(s) + 1,
         Inside(s)[i - 1] = [literal |-> quote, escaped |-> FALSE]
  PROVE  /\ Skip(s, quote)[i] \in i .. Len(s) + 1
         /\ \A k \in i .. Skip(s, quote)[i] - 1 : Inside(s)[k - 1].literal = quote
         /\ \/ Skip(s, quote)[i] = Len(s) + 1
            \/ Inside(s)[Skip(s, quote)[i] - 1].literal = "none"
<1> DEFINE n == Len(s)
           in == Inside(s)
           skip == Skip(s, quote)
           Past(j) == /\ skip[j] \in j .. n + 1
                      /\ \A k \in j .. skip[j] - 1 : in[k - 1].literal = quote
                      /\ skip[j] = n + 1 \/ in[skip[j] - 1].literal = "none"
           Here(j) == in[j - 1] = [literal |-> quote, escaped |-> FALSE]
           S == {d \in Nat : d <= n => (Here(n + 1 - d) => Past(n + 1 - d))}
<1>1. n \in Nat
  BY LenProperties DEF Text
<1>2. \A j \in 1 .. n + 1 :
        /\ j = n + 1 => skip[j] = j
        /\ j # n + 1 /\ s[j] = "escape" => skip[j] = skip[Escaped(s, j)]
        /\ j # n + 1 /\ s[j] = quote => skip[j] = j + 1
        /\ j # n + 1 /\ s[j] # "escape" /\ s[j] # quote => skip[j] = skip[j + 1]
  BY SkipStep
<1>3. \A j \in 0 .. n : in[j] = InsideAt(s, in, j)
  BY InsideDef
<1>4. quote # "none" /\ quote # "escape"
  BY DEF Quotes
<1> HIDE DEF n, in, skip
<1>5. ASSUME NEW d \in Nat, \A c \in 0 .. d - 1 : c \in S PROVE d \in S
  <2> SUFFICES ASSUME d <= n, Here(n + 1 - d) PROVE Past(n + 1 - d)
    OBVIOUS
  <2> DEFINE j == n + 1 - d
  <2>1. j \in 1 .. n + 1
    BY <1>1
  <2>2. ASSUME NEW k \in j + 1 .. n + 1, Here(k), \A l \in j .. k - 1 : in[l - 1].literal = quote,
               skip[j] = skip[k]
        PROVE  Past(j)
    <3>1. n + 1 - k \in 0 .. d - 1 /\ n + 1 - (n + 1 - k) = k /\ n + 1 - k <= n
      BY <1>1, <2>1, <2>2, SMTT(30)
    <3>2. Past(k)
      BY <1>5, <2>2, <3>1
    <3> HIDE DEF j
    <3> QED
      BY <1>1, <2>1, <2>2, <3>2
  <2>3. Here(j)
    OBVIOUS
  <2> HIDE DEF j, S
  <2> SUFFICES Past(j)
    BY DEF j
  <2>4. /\ j = n + 1 => skip[j] = j
        /\ j # n + 1 /\ s[j] = "escape" => skip[j] = skip[Escaped(s, j)]
        /\ j # n + 1 /\ s[j] = quote => skip[j] = j + 1
        /\ j # n + 1 /\ s[j] # "escape" /\ s[j] # quote => skip[j] = skip[j + 1]
    BY <1>2, <2>1
  <2>5. CASE j = n + 1
    <3>1. skip[j] = n + 1
      BY <2>4, <2>5
    <3>2. j .. skip[j] - 1 = {} /\ skip[j] \in j .. n + 1
      BY <1>1, <2>5, <3>1
    <3> QED
      BY <3>1, <3>2
  <2>6. CASE j <= n
    <3>1. in[j] = InsideAt(s, in, j) /\ j # 0 /\ in[j - 1].literal = quote /\ ~in[j - 1].escaped
      BY <1>1, <1>3, <2>1, <2>3, <2>6
    <3>2. j # n + 1 /\ j \in Int
      BY <1>1, <2>1, <2>6
    <3> DEFINE Quoted(a, b) == \A l \in a .. b : in[l - 1].literal = quote
    <3>7. ASSUME NEW k \in j + 1 .. n + 1, Here(k), Quoted(j, k - 1), skip[j] = skip[k]
          PROVE  Past(j)
      BY <2>2, <3>7
    <3>8. ASSUME skip[j] \in j .. n + 1, Quoted(j, skip[j] - 1),
                 skip[j] = n + 1 \/ in[skip[j] - 1].literal = "none"
          PROVE  Past(j)
      BY <3>8
    <3> HIDE DEF Past
    <3>3. CASE s[j] = "escape" /\ j < n
      <4>1. in[j] = [literal |-> quote, escaped |-> TRUE]
        BY <1>4, <3>1, <3>3 DEF InsideAt
      <4>2. /\ in[j + 1] = InsideAt(s, in, j + 1) /\ j + 1 # 0 /\ (j + 1) - 1 = j
            /\ (j + 2) - 1 = j + 1 /\ j + 2 \in j + 1 .. n + 1
        BY <1>1, <1>3, <2>1, <3>3
      <4>3. in[j + 1] = [literal |-> quote, escaped |-> FALSE]
        <5> DEFINE p == in[(j + 1) - 1]
        <5>1. p = [literal |-> quote, escaped |-> TRUE]
          BY <4>1, <4>2
        <5>2. in[j + 1] =
                [literal |-> CASE p.literal = "none" -> IF s[j + 1] \in Quotes THEN s[j + 1] ELSE "none"
                               [] p.literal = s[j + 1] /\ ~p.escaped -> "none"
                               [] OTHER -> p.literal,
                 escaped |-> p.literal # "none" /\ s[j + 1] = "escape" /\ ~p.escaped]
          BY <4>2 DEF InsideAt
        <5>3. p.literal = quote /\ p.escaped = TRUE
          BY <5>1
        <5> HIDE DEF p
        <5> QED
          BY <1>4, <5>2, <5>3
      <4>4. skip[j] = skip[j + 2]
        <5>1. Escaped(s, j) = j + 2
          BY <3>3 DEF Escaped, n
        <5> QED
          BY <2>4, <3>2, <3>3, <5>1
      <4>5. ASSUME NEW l \in j .. (j + 2) - 1 PROVE in[l - 1].literal = quote
        <5>1. l = j \/ l = j + 1
          BY <3>2
        <5>2. CASE l = j
          BY <3>1, <5>2
        <5>3. CASE l = j + 1
          BY <4>1, <4>2, <5>3
        <5> QED
          BY <5>1, <5>2, <5>3
      <4>6. Here(j + 2)
        BY <4>2, <4>3
      <4>7. Quoted(j, (j + 2) - 1)
        BY <4>5
      <4> HIDE DEF Quoted
      <4> QED
        BY <3>7, <4>2, <4>4, <4>6, <4>7
    <3>4. CASE s[j] = "escape" /\ ~ (j < n)
      <4>1. j = n
        BY <1>1, <2>6, <3>2, <3>4
      <4>2. skip[j] = skip[j + 1]
        <5>1. Escaped(s, j) = j + 1
          BY <3>4 DEF Escaped, n
        <5> QED
          BY <2>4, <2>6, <3>2, <3>4, <5>1
      <4>3. j + 1 \in 1 .. n + 1 /\ j + 1 = n + 1
        BY <1>1, <4>1
      <4>4. skip[j] = j + 1
        BY <1>2, <4>2, <4>3
      <4>5. \A k \in j .. skip[j] - 1 : k = j
        BY <3>2, <4>4
      <4>6. skip[j] \in j .. n + 1
        BY <1>1, <4>1, <4>4
      <4>7. Quoted(j, skip[j] - 1)
        BY <3>1, <4>5
      <4> HIDE DEF Quoted
      <4> QED
        BY <3>8, <4>3, <4>4, <4>6, <4>7
    <3>5. CASE s[j] = quote
      <4>1. in[j].literal = "none"
        BY <1>4, <3>1, <3>5 DEF InsideAt
      <4>2. skip[j] = j + 1
        BY <1>4, <2>4, <2>6, <3>2, <3>5
      <4>3. skip[j] \in j .. n + 1 /\ skip[j] - 1 = j
        BY <1>1, <2>1, <2>6, <4>2
      <4>4. \A k \in j .. skip[j] - 1 : k = j
        BY <3>2, <4>3
      <4>5. Quoted(j, skip[j] - 1)
        BY <3>1, <4>4
      <4> HIDE DEF Quoted
      <4> QED
        BY <3>8, <4>1, <4>3, <4>5
    <3>6. CASE s[j] # "escape" /\ s[j] # quote
      <4>1. in[j] = [literal |-> quote, escaped |-> FALSE]
        BY <1>4, <3>1, <3>6 DEF InsideAt
      <4>2. skip[j] = skip[j + 1]
        BY <2>4, <3>2, <3>6
      <4>3. j + 1 \in j + 1 .. n + 1 /\ (j + 1) - 1 = j
        BY <1>1, <2>1, <2>6
      <4>4. \A l \in j .. (j + 1) - 1 : l = j
        BY <3>2
      <4>5. Quoted(j, (j + 1) - 1) /\ Here(j + 1)
        BY <3>1, <4>1, <4>3, <4>4
      <4> HIDE DEF Quoted, Here
      <4> QED
        BY <3>7, <4>2, <4>3, <4>5
    <3> QED
      BY <3>3, <3>4, <3>5, <3>6
  <2> QED
    BY <1>1, <2>1, <2>5, <2>6
<1> HIDE DEF S
<1>6. Nat \subseteq S
  BY <1>5, CompleteInduction
<1>7. n + 1 - i \in Nat /\ n + 1 - i <= n /\ n + 1 - (n + 1 - i) = i
  BY <1>1 DEF n
<1>8. Here(i) => Past(i)
  BY <1>6, <1>7 DEF S
<1> QED
  BY <1>8 DEF n, in, skip

\* Skip never goes back and never past the end.
LEMMA SkipRange ==
  ASSUME NEW s \in Text, NEW quote \in Quotes, NEW i \in 1 .. Len(s) + 1
  PROVE  Skip(s, quote)[i] \in i .. Len(s) + 1
<1> DEFINE n == Len(s)
           skip == Skip(s, quote)
           S == {d \in Nat : d <= n => skip[n + 1 - d] \in n + 1 - d .. n + 1}
<1>1. n \in Nat
  BY LenProperties DEF Text
<1>2. ASSUME NEW j \in 1 .. n + 1
      PROVE  \/ skip[j] = j
             \/ j # n + 1 /\ skip[j] = j + 1
             \/ \E k \in j + 1 .. n + 1 : skip[j] = skip[k]
  <2>1. j # n + 1 => j + 1 \in j + 1 .. n + 1 /\ Escaped(s, j) \in j + 1 .. n + 1
    BY <1>1 DEF Escaped
  <2> QED
    BY <2>1, SkipStep
<1> HIDE DEF n, skip
<1>3. ASSUME NEW d \in Nat, \A c \in 0 .. d - 1 : c \in S PROVE d \in S
  <2> SUFFICES ASSUME d <= n PROVE skip[n + 1 - d] \in n + 1 - d .. n + 1
    OBVIOUS
  <2>1. n + 1 - d \in 1 .. n + 1
    BY <1>1
  <2>2. CASE \E k \in n + 1 - d + 1 .. n + 1 : skip[n + 1 - d] = skip[k]
    <3>1. PICK k \in n + 1 - d + 1 .. n + 1 : skip[n + 1 - d] = skip[k]
      BY <2>2
    <3>2. n + 1 - k \in 0 .. d - 1 /\ n + 1 - k <= n /\ n + 1 - (n + 1 - k) = k
      BY <1>1, <3>1
    <3>3. skip[k] \in k .. n + 1
      BY <1>3, <3>2
    <3> QED
      BY <1>1, <2>1, <3>1, <3>3
  <2> QED
    BY <1>1, <1>2, <2>1, <2>2
<1> HIDE DEF S
<1>4. Nat \subseteq S
  BY <1>3, CompleteInduction
<1>5. n + 1 - i \in Nat /\ n + 1 - i <= n /\ n + 1 - (n + 1 - i) = i
  BY <1>1 DEF n
<1> QED
  BY <1>4, <1>5 DEF S, n, skip

\* The value of Balance at a place, from later places.
LeftAt(s, left, i, balance) ==
  CASE i = Len(s) + 1 -> balance
    [] i <= Len(s) /\ s[i] = "open" -> left[i + 1][balance + 1]
    [] i <= Len(s) /\ s[i] = "close" -> IF balance = 0 THEN -1 ELSE left[i + 1][balance - 1]
    [] i <= Len(s) /\ s[i] \in Quotes -> left[Skip(s, s[i])[i + 1]][balance]
    [] OTHER -> left[i + 1][balance]

\* What Balance does at a character.
LEMMA LeftIs ==
  ASSUME NEW s \in Text, NEW left, NEW i \in 1 .. Len(s) + 1, NEW balance \in Nat
  PROVE  /\ i = Len(s) + 1 => LeftAt(s, left, i, balance) = balance
         /\ i # Len(s) + 1 /\ s[i] = "open" =>
              LeftAt(s, left, i, balance) = left[i + 1][balance + 1]
         /\ i # Len(s) + 1 /\ s[i] = "close" =>
              LeftAt(s, left, i, balance) = IF balance = 0 THEN -1 ELSE left[i + 1][balance - 1]
         /\ i # Len(s) + 1 /\ s[i] \in Quotes =>
              LeftAt(s, left, i, balance) = left[Skip(s, s[i])[i + 1]][balance]
         /\ i # Len(s) + 1 /\ s[i] \notin Quotes \cup {"open", "close"} =>
              LeftAt(s, left, i, balance) = left[i + 1][balance]
<1>1. i = Len(s) + 1 => ~ (i <= Len(s))
  BY LenProperties DEF Text
<1>2. i # Len(s) + 1 => i <= Len(s)
  BY LenProperties DEF Text
<1>3. "open" \notin Quotes /\ "close" \notin Quotes
  BY DEF Quotes
<1>4. CASE i = Len(s) + 1
  BY <1>1, <1>4, Zenon DEF LeftAt
<1>5. CASE i # Len(s) + 1 /\ s[i] = "open"
  BY <1>2, <1>3, <1>5, Zenon DEF LeftAt
<1>6. CASE i # Len(s) + 1 /\ s[i] = "close"
  BY <1>2, <1>3, <1>6, Zenon DEF LeftAt
<1>7. CASE i # Len(s) + 1 /\ s[i] \in Quotes
  BY <1>2, <1>3, <1>7, Zenon DEF LeftAt
<1>8. CASE i # Len(s) + 1 /\ s[i] \notin Quotes \cup {"open", "close"}
  BY <1>2, <1>8, Zenon DEF LeftAt
<1> QED
  BY <1>3, <1>4, <1>5, <1>6, <1>7, <1>8

\* The function Balance defines exists, and satisfies its definition.
LEMMA BalanceDef ==
  ASSUME NEW s \in Text, NEW i \in 1 .. Len(s) + 1
  PROVE  Balance(s)[i] = [b \in Nat |-> LeftAt(s, Balance(s), i, b)]
<1> DEFINE n == Len(s)
           I == 1 .. n + 1
           Answers == [Nat -> Int]
           w == [j \in I |-> n + 1 - j]
           E(f, j) == [b \in Nat |-> LeftAt(s, f, j, b)]
           G == [j \in I |-> [f \in [I -> Answers] |-> E(f, j)]]
<1>1. n \in Nat
  BY LenProperties DEF Text
<1>0. \A quote \in Quotes : \A j \in 1 .. n + 1 : Skip(s, quote)[j] \in j .. n + 1
  BY SkipRange
<1> HIDE DEF n
<1>2. w \in [I -> 0 .. n]
  BY <1>1
<1>3. ASSUME NEW j \in I, NEW f \in [I -> Answers], NEW g \in [I -> Answers],
             \A k \in I : w[k] < w[j] => f[k] = g[k]
      PROVE  E(f, j) = E(g, j) /\ E(f, j) \in Answers
  <2>1. j \in 1 .. n + 1 /\ \A k \in j + 1 .. n + 1 : k \in I /\ w[k] < w[j]
    BY <1>1
  <2>2. \A k \in j + 1 .. n + 1 : f[k] = g[k] /\ f[k] \in [Nat -> Int]
    BY <1>3, <2>1
  <2>3. ASSUME NEW h, NEW b \in Nat
        PROVE  /\ j = n + 1 => LeftAt(s, h, j, b) = b
               /\ j # n + 1 /\ s[j] = "open" => LeftAt(s, h, j, b) = h[j + 1][b + 1]
               /\ j # n + 1 /\ s[j] = "close" =>
                    LeftAt(s, h, j, b) = IF b = 0 THEN -1 ELSE h[j + 1][b - 1]
               /\ j # n + 1 /\ s[j] \in Quotes => LeftAt(s, h, j, b) = h[Skip(s, s[j])[j + 1]][b]
               /\ j # n + 1 /\ s[j] \notin Quotes \cup {"open", "close"} =>
                    LeftAt(s, h, j, b) = h[j + 1][b]
    BY <2>1, LeftIs DEF n
  <2>4. ASSUME NEW b \in Nat
        PROVE  LeftAt(s, f, j, b) = LeftAt(s, g, j, b) /\ LeftAt(s, f, j, b) \in Int
    <3> HIDE DEF I, w, Answers
    <3> DEFINE F == LeftAt(s, f, j, b)
               H == LeftAt(s, g, j, b)
    <3>1. CASE j = n + 1
      <4>1. F = b /\ H = b
        BY <2>3, <3>1
      <4> QED
        BY <4>1
    <3>2. CASE j # n + 1
      <4>1. j + 1 \in j + 1 .. n + 1 /\ j + 1 \in 1 .. n + 1
        BY <1>1, <2>1, <3>2
      <4>2. f[j + 1] = g[j + 1] /\ f[j + 1] \in [Nat -> Int]
        BY <2>2, <4>1
      <4>3. CASE s[j] = "open"
        <5>1. F = f[j + 1][b + 1] /\ H = g[j + 1][b + 1]
          BY <2>3, <3>2, <4>3
        <5> QED
          BY <4>2, <5>1
      <4>4. CASE s[j] = "close"
        <5>1. F = IF b = 0 THEN -1 ELSE f[j + 1][b - 1]
          BY <2>3, <3>2, <4>4
        <5>2. H = IF b = 0 THEN -1 ELSE g[j + 1][b - 1]
          BY <2>3, <3>2, <4>4
        <5>3. b # 0 => b - 1 \in Nat
          OBVIOUS
        <5> QED
          BY <4>2, <5>1, <5>2, <5>3
      <4>5. CASE s[j] \in Quotes
        <5> DEFINE k == Skip(s, s[j])[j + 1]
        <5>1. k \in j + 1 .. n + 1
          BY <1>0, <4>1, <4>5
        <5>2. F = f[k][b] /\ H = g[k][b]
          BY <2>3, <3>2, <4>5
        <5> HIDE DEF k
        <5> QED
          BY <2>2, <5>1, <5>2
      <4>6. CASE s[j] \notin Quotes \cup {"open", "close"}
        <5>1. F = f[j + 1][b] /\ H = g[j + 1][b]
          BY <2>3, <3>2, <4>6
        <5> QED
          BY <4>2, <5>1
      <4> HIDE DEF F, H
      <4> QED
        BY <4>3, <4>4, <4>5, <4>6
    <3> QED
      BY <3>1, <3>2
  <2> QED
    BY <2>4
<1> HIDE DEF E
<1>4. G \in [I -> [[I -> Answers] -> Answers]]
  BY <1>3
<1>5. \A j \in I : \A f \in [I -> Answers] : G[j][f] = E(f, j)
  OBVIOUS
<1> HIDE DEF G
<1>6. \A j \in I : \A f, g \in [I -> Answers] :
        (\A k \in I : w[k] < w[j] => f[k] = g[k]) => G[j][f] = G[j][g]
  <2> SUFFICES ASSUME NEW j \in I, NEW f \in [I -> Answers], NEW g \in [I -> Answers],
                      \A k \in I : w[k] < w[j] => f[k] = g[k]
               PROVE  G[j][f] = G[j][g]
    OBVIOUS
  <2>1. E(f, j) = E(g, j)
    BY <1>3
  <2>2. G[j][f] = E(f, j) /\ G[j][g] = E(g, j)
    BY <1>5
  <2> QED
    BY <2>1, <2>2
<1>11. Answers # {}
  <2>1. [b \in Nat |-> 0] \in Answers
    OBVIOUS
  <2> QED
    BY <2>1
<1> HIDE DEF w, I, Answers
<1>7. \E f \in [I -> Answers] : \A j \in I : f[j] = G[j][f]
  <2>2. Recursive(I, Answers, n, w, G)
    BY <1>1, <1>2, <1>4, <1>6, <1>11 DEF Recursive
  <2> QED
    BY <2>2, RecursiveHolds
<1>8. PICK f \in [I -> Answers] : \A j \in I : f[j] = E(f, j)
  BY <1>5, <1>7, Zenon
<1>9. f = [j \in I |-> E(f, j)]
  BY <1>8
<1>10. Balance(s) = CHOOSE h : h = [j \in I |-> E(h, j)]
  BY DEF Balance, E, I, n, LeftAt
<1>12. Balance(s) = [j \in I |-> E(Balance(s), j)]
  BY <1>9, <1>10, Zenon
<1> QED
  BY <1>12 DEF E, I, n

\* Counting one number more.
LEMMA OneMore ==
  ASSUME NEW P, NEW k \in Nat, k # 0
  PROVE  /\ IsFiniteSet(P \cap (1 .. k - 1)) /\ Cardinality(P \cap (1 .. k - 1)) \in Nat
         /\ Cardinality(P \cap (1 .. k)) = Cardinality(P \cap (1 .. k - 1)) + IF k \in P THEN 1 ELSE 0
<1> DEFINE A == P \cap (1 .. k - 1)
           B == P \cap (1 .. k)
<1>1. IsFiniteSet(A)
  <2>1. IsFiniteSet(1 .. k - 1)
    BY FS_Interval
  <2> QED
    BY <2>1, FS_Intersection
<1>2. Cardinality(A) \in Nat
  BY <1>1, FS_CardinalityType
<1>3. CASE k \in P
  <2>1. B = A \cup {k} /\ k \notin A
    BY <1>3
  <2>2. Cardinality(A \cup {k}) = Cardinality(A) + 1
    BY <1>1, <2>1, FS_AddElement
  <2> QED
    BY <1>1, <1>2, <1>3, <2>1, <2>2
<1>4. CASE k \notin P
  <2>1. B = A
    BY <1>4
  <2>2. Cardinality(B) = Cardinality(A)
    BY <2>1
  <2> HIDE DEF A, B
  <2>3. Cardinality(B) = Cardinality(A) + 0
    BY <1>2, <2>2
  <2> QED
    BY <1>1, <1>2, <1>4, <2>3 DEF A, B
<1> QED
  BY <1>3, <1>4

\* Before the first character no bracket is open.
LEMMA DepthStarts == \A s : Depth(s, 0) = 0
<1>1. \A i \in 1 .. 0 : FALSE
  OBVIOUS
<1>2. Cardinality({}) = 0
  BY FS_EmptySet
<1> SUFFICES ASSUME NEW s PROVE Depth(s, 0) = 0
  OBVIOUS
<1>3. \A c : {i \in 1 .. 0 : s[i] = c /\ Inside(s)[i - 1].literal = "none"} = {}
  BY <1>1, Zenon
<1> QED
  BY <1>2, <1>3 DEF Depth

\* A bracket that is not in a string literal changes the depth by one.
LEMMA DepthSteps ==
  ASSUME NEW s \in Text, NEW k \in 1 .. Len(s)
  PROVE  /\ Depth(s, k - 1) \in Int
         /\ Depth(s, k) = Depth(s, k - 1) +
              IF Inside(s)[k - 1].literal # "none" THEN 0
              ELSE IF s[k] = "open" THEN 1 ELSE IF s[k] = "close" THEN -1 ELSE 0
<1> DEFINE P(c) == {i \in Nat : s[i] = c /\ Inside(s)[i - 1].literal = "none"}
           number(c, m) == Cardinality(P(c) \cap (1 .. m))
<1>1. ASSUME NEW m \in Nat PROVE Depth(s, m) = number("open", m) - number("close", m)
  <2>1. \A c : {i \in 1 .. m : s[i] = c /\ Inside(s)[i - 1].literal = "none"} = P(c) \cap (1 .. m)
    OBVIOUS
  <2> HIDE DEF P
  <2> QED
    BY <2>1 DEF Depth
<1>2. k \in Nat /\ k # 0 /\ k - 1 \in Nat
  OBVIOUS
<1>3. k \in P("open") <=> Inside(s)[k - 1].literal = "none" /\ s[k] = "open"
  BY <1>2
<1>4. k \in P("close") <=> Inside(s)[k - 1].literal = "none" /\ s[k] = "close"
  BY <1>2
<1> HIDE DEF P
<1>5. ASSUME NEW c
      PROVE number(c, k - 1) \in Nat /\ number(c, k) = number(c, k - 1) + IF k \in P(c) THEN 1 ELSE 0
  BY <1>2, OneMore
<1> HIDE DEF number
<1>6. /\ Depth(s, k) = number("open", k) - number("close", k)
      /\ Depth(s, k - 1) = number("open", k - 1) - number("close", k - 1)
  BY <1>1, <1>2
<1>7. /\ number("open", k - 1) \in Nat /\ number("close", k - 1) \in Nat
      /\ number("open", k) = number("open", k - 1) + IF k \in P("open") THEN 1 ELSE 0
      /\ number("close", k) = number("close", k - 1) + IF k \in P("close") THEN 1 ELSE 0
  BY <1>5
<1> QED
  BY <1>3, <1>4, <1>6, <1>7

\* The depth is the same all through a string literal.
LEMMA LiteralFlat ==
  ASSUME NEW s \in Text, NEW i \in 1 .. Len(s) + 1, NEW j \in i .. Len(s) + 1,
         \A l \in i .. j - 1 : Inside(s)[l - 1].literal # "none"
  PROVE  \A l \in i - 1 .. j - 1 : Depth(s, l) = Depth(s, i - 1)
<1> DEFINE S == {d \in Nat : i - 1 + d <= j - 1 => Depth(s, i - 1 + d) = Depth(s, i - 1)}
<1>0. Len(s) \in Nat
  BY LenProperties DEF Text
<1>1. 0 \in S
  OBVIOUS
<1>2. ASSUME NEW d \in Nat, d \in S PROVE d + 1 \in S
  <2> SUFFICES ASSUME i - 1 + (d + 1) <= j - 1 PROVE Depth(s, i - 1 + (d + 1)) = Depth(s, i - 1)
    OBVIOUS
  <2> DEFINE k == i + d
  <2>1. /\ k \in 1 .. Len(s) /\ k - 1 = i - 1 + d /\ k = i - 1 + (d + 1)
        /\ i - 1 + d <= j - 1 /\ k \in i .. j - 1
    BY <1>0
  <2>2. Depth(s, k - 1) = Depth(s, i - 1)
    BY <1>2, <2>1
  <2> HIDE DEF k
  <2>3. Inside(s)[k - 1].literal # "none"
    BY <2>1
  <2>4. Depth(s, k) = Depth(s, k - 1) + 0 /\ Depth(s, k - 1) \in Int
    BY <2>1, <2>3, DepthSteps
  <2> QED
    BY <2>1, <2>2, <2>4
<1> HIDE DEF S
<1>3. Nat \subseteq S
  BY <1>1, <1>2, UpInduction
<1> SUFFICES ASSUME NEW l \in i - 1 .. j - 1 PROVE Depth(s, l) = Depth(s, i - 1)
  OBVIOUS
<1> DEFINE d == l - (i - 1)
<1>4. d \in Nat /\ i - 1 + d = l /\ i - 1 + d <= j - 1
  BY <1>0
<1> HIDE DEF d
<1>5. i - 1 + d <= j - 1 => Depth(s, i - 1 + d) = Depth(s, i - 1)
  BY <1>3, <1>4 DEF S
<1> QED
  BY <1>4, <1>5

\* A literal begins at a quote and nowhere else.
LEMMA AfterPlain ==
  ASSUME NEW s \in Text, NEW i \in 1 .. Len(s), Inside(s)[i - 1].literal = "none"
  PROVE  /\ s[i] \notin Quotes => Inside(s)[i].literal = "none"
         /\ s[i] \in Quotes => Inside(s)[i] = [literal |-> s[i], escaped |-> FALSE]
<1>1. i \in 0 .. Len(s) /\ i # 0
  BY LenProperties DEF Text
<1>2. Inside(s)[i] = InsideAt(s, Inside(s), i)
  BY <1>1, InsideDef
<1> QED
  <2> DEFINE p == Inside(s)[i - 1]
  <2>1. Inside(s)[i] =
          [literal |-> CASE p.literal = "none" -> IF s[i] \in Quotes THEN s[i] ELSE "none"
                         [] p.literal = s[i] /\ ~p.escaped -> "none"
                         [] OTHER -> p.literal,
           escaped |-> p.literal # "none" /\ s[i] = "escape" /\ ~p.escaped]
    BY <1>1, <1>2 DEF InsideAt
  <2>2. p.literal = "none"
    OBVIOUS
  <2> HIDE DEF p
  <2>3. CASE s[i] \in Quotes
    <3>1. s[i] # "none"
      BY <2>3 DEF Quotes
    <3> QED
      BY <2>1, <2>2, <2>3, <3>1
  <2>4. CASE s[i] \notin Quotes
    BY <2>1, <2>2, <2>4
  <2> QED
    BY <2>3, <2>4

\* From a place on, no bracket is closed that was not open, and one is open at the end.
Rest(s, i) == (\A k \in i .. Len(s) : Depth(s, k) >= 0) /\ Depth(s, Len(s)) > 0

\* Read from a place that is not in a literal, with the brackets open there counted, the
\* balance is positive if and only if the text is unfinished.
LEMMA ScansRight ==
  ASSUME NEW s \in Text, NEW i \in 1 .. Len(s) + 1, NEW b \in Nat,
         i = Len(s) + 1 \/ Inside(s)[i - 1].literal = "none", Depth(s, i - 1) = b
  PROVE  Balance(s)[i][b] > 0 <=> Rest(s, i)
<1> DEFINE n == Len(s)
           in == Inside(s)
           left == Balance(s)
           Outside(j) == j = n + 1 \/ in[j - 1].literal = "none"
           Right(j) == \A c \in Nat : Outside(j) /\ Depth(s, j - 1) = c => (left[j][c] > 0 <=> Rest(s, j))
           S == {d \in Nat : d <= n => Right(n + 1 - d)}
<1>1. n \in Nat
  BY LenProperties DEF Text
<1>2. ASSUME NEW j \in 1 .. n + 1, NEW c \in Nat
      PROVE  /\ j = n + 1 => left[j][c] = c
             /\ j # n + 1 /\ s[j] = "open" => left[j][c] = left[j + 1][c + 1]
             /\ j # n + 1 /\ s[j] = "close" =>
                  left[j][c] = IF c = 0 THEN -1 ELSE left[j + 1][c - 1]
             /\ j # n + 1 /\ s[j] \in Quotes => left[j][c] = left[Skip(s, s[j])[j + 1]][c]
             /\ j # n + 1 /\ s[j] \notin Quotes \cup {"open", "close"} =>
                  left[j][c] = left[j + 1][c]
  <2>1. left[j][c] = LeftAt(s, left, j, c)
    <3>1. left[j] = [x \in Nat |-> LeftAt(s, left, j, x)]
      BY BalanceDef, ZenonT(60)
    <3> HIDE DEF left
    <3> QED
      BY <3>1
  <2>2. ASSUME NEW h
        PROVE  /\ j = n + 1 => LeftAt(s, h, j, c) = c
               /\ j # n + 1 /\ s[j] = "open" => LeftAt(s, h, j, c) = h[j + 1][c + 1]
               /\ j # n + 1 /\ s[j] = "close" =>
                    LeftAt(s, h, j, c) = IF c = 0 THEN -1 ELSE h[j + 1][c - 1]
               /\ j # n + 1 /\ s[j] \in Quotes => LeftAt(s, h, j, c) = h[Skip(s, s[j])[j + 1]][c]
               /\ j # n + 1 /\ s[j] \notin Quotes \cup {"open", "close"} =>
                    LeftAt(s, h, j, c) = h[j + 1][c]
    BY LeftIs
  <2> HIDE DEF left, n
  <2> QED
    BY <2>1, <2>2, Zenon
<1>3. \A k \in 1 .. n : /\ Depth(s, k - 1) \in Int
                        /\ Depth(s, k) = Depth(s, k - 1) +
                             IF in[k - 1].literal # "none" THEN 0
                             ELSE IF s[k] = "open" THEN 1 ELSE IF s[k] = "close" THEN -1 ELSE 0
  BY DepthSteps
<1>4. "open" \notin Quotes /\ "close" \notin Quotes /\ "none" \notin Quotes
  BY DEF Quotes
<1>5. \A j \in 1 .. n : in[j - 1].literal = "none" =>
        /\ s[j] \notin Quotes => in[j].literal = "none"
        /\ s[j] \in Quotes => in[j] = [literal |-> s[j], escaped |-> FALSE]
  BY AfterPlain
<1>6. ASSUME NEW j \in 1 .. n, in[j - 1].literal = "none", s[j] \in Quotes
      PROVE  \E k \in j + 1 .. n + 1 :
               /\ k = Skip(s, s[j])[j + 1] /\ Outside(k)
               /\ \A l \in j .. k - 1 : Depth(s, l) = Depth(s, j - 1)
  <2>1. j + 1 \in 1 .. n + 1 /\ (j + 1) - 1 = j
    BY <1>1
  <2>2. in[j] = [literal |-> s[j], escaped |-> FALSE]
    BY <1>5, <1>6
  <2> DEFINE k == Skip(s, s[j])[j + 1]
  <2>3. /\ k \in j + 1 .. n + 1
        /\ \A l \in j + 1 .. k - 1 : in[l - 1].literal = s[j]
        /\ k = n + 1 \/ in[k - 1].literal = "none"
    BY <1>6, <2>1, <2>2, SkipPast
  <2> HIDE DEF k
  <2>4. \A l \in j + 1 .. k - 1 : in[l - 1].literal # "none"
    BY <1>4, <1>6, <2>3
  <2>5. \A l \in (j + 1) - 1 .. k - 1 : Depth(s, l) = Depth(s, (j + 1) - 1)
    BY <2>1, <2>3, <2>4, LiteralFlat
  <2>6. Depth(s, j) = Depth(s, j - 1)
    <3>1. s[j] # "open" /\ s[j] # "close"
      BY <1>4, <1>6
    <3>2. Depth(s, j) = Depth(s, j - 1) + 0 /\ Depth(s, j - 1) \in Int
      BY <1>3, <1>6, <3>1
    <3> QED
      BY <3>2
  <2> QED
    BY <2>1, <2>3, <2>5, <2>6 DEF k
<1> HIDE DEF n, in, left
<1>7. ASSUME NEW d \in Nat, \A c \in 0 .. d - 1 : c \in S PROVE d \in S
  <2> SUFFICES ASSUME d <= n PROVE Right(n + 1 - d)
    OBVIOUS
  <2> DEFINE j == n + 1 - d
  <2>1. j \in 1 .. n + 1
    BY <1>1
  <2>2. \A k \in j + 1 .. n + 1 : Right(k)
    <3> SUFFICES ASSUME NEW k \in j + 1 .. n + 1 PROVE Right(k)
      OBVIOUS
    <3>1. n + 1 - k \in 0 .. d - 1 /\ n + 1 - k <= n /\ n + 1 - (n + 1 - k) = k
      BY <1>1, <2>1
    <3> QED
      BY <1>7, <3>1
  <2> HIDE DEF j, S
  <2> SUFFICES ASSUME NEW c \in Nat, Outside(j), Depth(s, j - 1) = c
               PROVE  left[j][c] > 0 <=> Rest(s, j)
    BY DEF j
  <2>3. CASE j = n + 1
    <3>1. left[j][c] = c
      BY <1>2, <2>1, <2>3
    <3>2. j - 1 = n /\ j .. n = {}
      BY <1>1, <2>3
    <3> QED
      BY <3>1, <3>2 DEF Rest, n
  <2>4. CASE j # n + 1
    <3>1. j \in 1 .. n /\ j + 1 \in j + 1 .. n + 1 /\ (j + 1) - 1 = j
      BY <1>1, <2>1, <2>4
    <3>2. in[j - 1].literal = "none"
      BY <2>4
    <3>3. /\ s[j] = "open" => Depth(s, j) = c + 1
          /\ s[j] = "close" => Depth(s, j) = c - 1
          /\ s[j] \notin {"open", "close"} => Depth(s, j) = c
      BY <1>3, <3>1, <3>2
    <3>4. Rest(s, j) <=> Depth(s, j) >= 0 /\ Rest(s, j + 1)
      <4>1. \A k : k \in j .. n <=> k = j \/ k \in j + 1 .. n
        BY <3>1, <1>1
      <4> QED
        BY <4>1 DEF Rest, n
    <3>5. ASSUME s[j] \notin Quotes, Depth(s, j) \in Nat, left[j][c] = left[j + 1][Depth(s, j)]
          PROVE  left[j][c] > 0 <=> Rest(s, j)
      <4>1. Outside(j + 1)
        BY <1>5, <3>1, <3>2, <3>5
      <4>2. left[j + 1][Depth(s, j)] > 0 <=> Rest(s, j + 1)
        BY <2>2, <3>1, <3>5, <4>1
      <4>3. Depth(s, j) >= 0
        BY <3>5
      <4> QED
        BY <3>4, <3>5, <4>2, <4>3
    <3> HIDE DEF Right, Outside
    <3>6. CASE s[j] = "open"
      <4>1. left[j][c] = left[j + 1][c + 1]
        BY <1>2, <2>1, <2>4, <3>6
      <4> QED
        BY <1>4, <3>3, <3>5, <3>6, <4>1
    <3>7. CASE s[j] = "close" /\ c = 0
      <4>1. left[j][c] = -1
        BY <1>2, <2>1, <2>4, <3>7
      <4>2. Depth(s, j) = -1
        BY <3>3, <3>7
      <4> QED
        BY <3>4, <4>1, <4>2
    <3>8. CASE s[j] = "close" /\ c # 0
      <4>1. left[j][c] = left[j + 1][c - 1]
        BY <1>2, <2>1, <2>4, <3>8
      <4> QED
        BY <1>4, <3>3, <3>5, <3>8, <4>1
    <3>9. CASE s[j] \in Quotes
      <4>1. PICK k \in j + 1 .. n + 1 :
               /\ k = Skip(s, s[j])[j + 1] /\ Outside(k)
               /\ \A l \in j .. k - 1 : Depth(s, l) = Depth(s, j - 1)
        BY <1>6, <3>1, <3>2, <3>9
      <4>2. left[j][c] = left[k][c]
        BY <1>2, <2>1, <2>4, <3>9, <4>1
      <4>3. \A l \in j .. k - 1 : Depth(s, l) = c
        BY <4>1
      <4>4. k - 1 \in j .. k - 1
        BY <3>1, <4>1
      <4>5. Depth(s, k - 1) = c
        BY <4>3, <4>4
      <4>6. left[k][c] > 0 <=> Rest(s, k)
        BY <2>2, <4>1, <4>5 DEF Right
      <4>7. Rest(s, j) <=> Rest(s, k)
        <5>1. \A l : l \in j .. n <=> l \in j .. k - 1 \/ l \in k .. n
          BY <1>1, <3>1, <4>1, SMTT(30)
        <5>2. \A l \in j .. k - 1 : Depth(s, l) >= 0
          BY <4>3
        <5> QED
          BY <5>1, <5>2 DEF Rest, n
      <4> QED
        BY <4>2, <4>6, <4>7
    <3>10. CASE s[j] \notin Quotes \cup {"open", "close"}
      <4>1. left[j][c] = left[j + 1][c]
        BY <1>2, <2>1, <2>4, <3>10
      <4> QED
        BY <3>3, <3>5, <3>10, <4>1
    <3> QED
      BY <3>6, <3>7, <3>8, <3>9, <3>10
  <2> QED
    BY <2>3, <2>4
<1> HIDE DEF S
<1>8. Nat \subseteq S
  BY <1>7, CompleteInduction
<1>9. n + 1 - i \in Nat /\ n + 1 - i <= n /\ n + 1 - (n + 1 - i) = i
  BY <1>1 DEF n
<1>10. Right(i)
  BY <1>8, <1>9 DEF S
<1> QED
  BY <1>10 DEF n, in, left

\* The scan of needs_more_input and the definition by literals and depth agree, for
\* every text.
LEMMA AsksIffUnfinished ==
  ASSUME NEW s \in Text
  PROVE  needs_more_input(s) <=> Unfinished(s)
<1>1. 1 \in 1 .. Len(s) + 1 /\ 0 \in Nat /\ 1 - 1 = 0 /\ 0 \in 0 .. Len(s)
  BY LenProperties DEF Text
<1>2. Inside(s)[0].literal = "none"
  <2>1. Inside(s)[0] = InsideAt(s, Inside(s), 0)
    BY <1>1, InsideDef
  <2>2. Inside(s)[0] = [literal |-> "none", escaped |-> FALSE]
    BY <2>1 DEF InsideAt
  <2> QED
    BY <2>2
<1>3. Depth(s, 0) = 0
  BY DepthStarts
<1>4. Balance(s)[1][0] > 0 <=> Rest(s, 1)
  BY <1>1, <1>2, <1>3, ScansRight
<1> QED
  BY <1>4 DEF needs_more_input, Unfinished, Rest

\* The prompt is about the lines it stands under, and there are none before the first.
Asks ==
  /\ AsksWhileOpen
  /\ reader = "starting" => lines = NoLines

LEMMA AsksInit == Init => Asks
BY DEF Init, Asks, AsksWhileOpen

LEMMA AsksNext == IInv /\ Asks /\ [Next]_vars => Asks'
<1> SUFFICES ASSUME IInv, Asks, [Next]_vars PROVE Asks'
  OBVIOUS
<1> USE DEF Asks, AsksWhileOpen
<1>1. CASE DefaultEditor \/ ReadEnds
  BY <1>1 DEF DefaultEditor, ReadEnds
<1>2. ASSUME NEW l \in Lines, ReadLine(l) PROVE Asks'
  <2>1. lines' \in Text
    BY <1>2, JoinText DEF ReadLine, IInv, Text
  <2>2. needs_more_input(lines') <=> Unfinished(lines')
    BY <2>1, AsksIffUnfinished
  <2>3. /\ reader = "reading"
        /\ \/ needs_more_input(lines') /\ reader' = reader
           \/ ~needs_more_input(lines') /\ reader' \in {"sending", "ended"}
    BY <1>2 DEF ReadLine
  <2> QED
    BY <2>2, <2>3
<1>3. CASE CtrlC
  BY <1>3 DEF CtrlC
<1>4. CASE BlockingSend
  BY <1>4 DEF BlockingSend, AfterSend
<1>5. CASE BlockingRecv
  BY <1>5 DEF BlockingRecv
<1>6. CASE Evaluator
  BY <1>6 DEF Evaluator, RecvCommand, RunScript, Interrupted, Reply, JoinReader
<1>7. CASE UNCHANGED vars
  BY <1>7 DEF vars
<1> QED
  BY <1>1, <1>2, <1>3, <1>4, <1>5, <1>6, <1>7 DEF Next, User, Reader

\* The prompt asks for more while a bracket that is not in a string literal is open, and
\* only then, whatever the lines are: needs_more_input finds what is unfinished.
THEOREM AsksOnlyWhileOpen == Spec => []AsksWhileOpen
<1>1. Spec => []Asks
  BY AsksInit, AsksNext, IInvAlways, PTL DEF Spec
<1> QED
  BY <1>1, PTL DEF Asks
=============================================================================
