------------------------------ MODULE ShParse ------------------------------
(***************************************************************************)
(* The parser of user/sh.c: a line, as a sequence of tokens, becomes a     *)
(* tree of commands, or the child of the shell gives up with panic().  A   *)
(* word stands for any run of characters that are neither blank nor one of *)
(* the symbols.                                                            *)
(***************************************************************************)
EXTENDS Naturals, Sequences, SequencesExt

CONSTANT MAXARGS

ASSUME ShParseAssumption == MAXARGS \in Nat \ {0}

Symbols == {"|", "(", ")", ";", "&", "<", ">", ">>"}

(* The constructors. *)
execcmd(argv) == [type |-> "EXEC", argv |-> argv]
redircmd(cmd, r) == [type |-> "REDIR", cmd |-> cmd, file |-> r.file, mode |-> r.mode, fd |-> r.fd]
pipecmd(left, right) == [type |-> "PIPE", left |-> left, right |-> right]
listcmd(left, right) == [type |-> "LIST", left |-> left, right |-> right]
backcmd(cmd) == [type |-> "BACK", cmd |-> cmd]

(* The result of a function of the parser: a command and the tokens left.  *)
(* After panic() there is none.                                            *)
Result(cmd, s) == [ok |-> TRUE, cmd |-> cmd, s |-> s]
Panic == [ok |-> FALSE, cmd |-> execcmd(<<>>), s |-> <<>>]

peek(s, toks) == s # <<>> /\ Head(s) \in toks
Word(s) == s # <<>> /\ Head(s) \notin Symbols

(* parseredirs: the redirections at the start of s, after those in rs.  It *)
(* panics if a file name is missing.                                       *)
Redirection(tok, file) ==
  [file |-> file, fd |-> IF tok = "<" THEN 0 ELSE 1,
   mode |-> CASE tok = "<" -> "read" [] tok = ">" -> "trunc" [] OTHER -> "create"]
RECURSIVE parseredirs(_, _)
parseredirs(rs, s) ==
  IF ~peek(s, {"<", ">", ">>"}) THEN [ok |-> TRUE, rs |-> rs, s |-> s]
  ELSE IF ~Word(Tail(s)) THEN [ok |-> FALSE, rs |-> <<>>, s |-> <<>>]
  ELSE parseredirs(Append(rs, Redirection(s[1], s[2])), SubSeq(s, 3, Len(s)))

(* Each redirection is wrapped around the command so far. *)
Wrap(cmd, rs) == FoldLeft(redircmd, cmd, rs)

(* argv has room for MAXARGS pointers, the last one null. *)
TooMany(argv) == Len(argv) >= MAXARGS

(* The loop of parseexec: words, with redirections anywhere among them. *)
RECURSIVE Args(_, _, _)
Args(argv, rs, s) ==
  LET new == Append(argv, Head(s))
      r == parseredirs(rs, Tail(s))
  IN  IF s = <<>> \/ peek(s, {"|", ")", "&", ";"}) THEN Result(Wrap(execcmd(argv), rs), s)
      ELSE IF ~Word(s) \/ TooMany(new) \/ ~r.ok THEN Panic
      ELSE Args(new, r.rs, r.s)

(* Mutant: one & at most. *)
Backs_one(cmd, s) == IF peek(s, {"&"}) THEN Result(backcmd(cmd), Tail(s)) ELSE Result(cmd, s)

RECURSIVE Backs(_, _)
Backs(cmd, s) == IF peek(s, {"&"}) THEN Backs(backcmd(cmd), Tail(s)) ELSE Result(cmd, s)

RECURSIVE parseline(_), parsepipe(_), parseblock(_), parseexec(_)
parseline(s) ==
  LET p == parsepipe(s)
      b == Backs(p.cmd, p.s)
      r == parseline(Tail(b.s))
  IN  IF ~p.ok THEN Panic
      ELSE IF ~peek(b.s, {";"}) THEN b
      ELSE IF r.ok THEN Result(listcmd(b.cmd, r.cmd), r.s) ELSE Panic

parsepipe(s) ==
  LET e == parseexec(s)
      r == parsepipe(Tail(e.s))
  IN  IF ~e.ok \/ ~peek(e.s, {"|"}) THEN e
      ELSE IF r.ok THEN Result(pipecmd(e.cmd, r.cmd), r.s) ELSE Panic

parseblock(s) ==
  LET b == parseline(Tail(s))
      r == parseredirs(<<>>, Tail(b.s))
  IN  IF b.ok /\ peek(b.s, {")"}) /\ r.ok THEN Result(Wrap(b.cmd, r.rs), r.s) ELSE Panic

parseexec(s) ==
  LET r == parseredirs(<<>>, s)
  IN  IF peek(s, {"("}) THEN parseblock(s)
      ELSE IF r.ok THEN Args(<<>>, r.rs, r.s) ELSE Panic

(* parsecmd: nothing may be left over. *)
parsecmd(s) == LET r == parseline(s) IN IF r.ok /\ r.s = <<>> THEN r ELSE Panic

-----------------------------------------------------------------------------
(* The grammar that the functions above follow, read as a definition:      *)
(*   line ::= pipe {&} [; line]      pipe ::= exec [| pipe]                *)
(*   exec ::= ( line ) {redir} | {word | redir}                            *)
(* Trees(what, s) is the set of the commands of which s is the text.  Cuts *)
(* are the ways to cut s at a token.                                       *)
Cuts(s, tok) == {<<SubSeq(s, 1, k - 1), SubSeq(s, k + 1, Len(s))>> : k \in {j \in DOMAIN s : s[j] = tok}}
Redirs(s) ==
  [k \in 1..Len(s) \div 2 |-> Redirection(s[2 * k - 1], s[2 * k])]
AreRedirs(s) ==
  Len(s) % 2 = 0 /\ \A k \in DOMAIN s : IF k % 2 = 1 THEN s[k] \in {"<", ">", ">>"} ELSE s[k] \notin Symbols

(* The words of a simple command that are no file names. *)
IsFile(s, k) == k > 1 /\ s[k - 1] \in {"<", ">", ">>"}
Argv(s) == LET at == SelectSeq([k \in DOMAIN s |-> k], LAMBDA k : s[k] \notin Symbols /\ ~IsFile(s, k))
           IN  [j \in DOMAIN at |-> s[at[j]]]
Files(s) == LET at == SelectSeq([k \in DOMAIN s |-> k], LAMBDA k : IsFile(s, k))
            IN  [j \in DOMAIN at |-> Redirection(s[at[j] - 1], s[at[j]])]
IsSimple(s) ==
  /\ \A k \in DOMAIN s : s[k] \in Symbols => s[k] \in {"<", ">", ">>"} /\ k < Len(s) /\ s[k + 1] \notin Symbols
  /\ Len(Argv(s)) < MAXARGS

RECURSIVE Trees(_, _)
Trees(what, s) ==
  CASE what = "line" ->
         Trees("backs", s) \cup UNION {{listcmd(a, b) : a \in Trees("backs", c[1]), b \in Trees("line", c[2])} : c \in Cuts(s, ";")}
    [] what = "backs" ->
         Trees("pipe", s) \cup
         IF s # <<>> /\ Last(s) = "&" THEN {backcmd(a) : a \in Trees("backs", Front(s))} ELSE {}
    [] what = "pipe" ->
         Trees("exec", s) \cup UNION {{pipecmd(a, b) : a \in Trees("exec", c[1]), b \in Trees("pipe", c[2])} : c \in Cuts(s, "|")}
    [] OTHER ->
         (IF IsSimple(s) THEN {Wrap(execcmd(Argv(s)), Files(s))} ELSE {}) \cup
         UNION {IF s[1] = "(" /\ AreRedirs(c[2])
                THEN {Wrap(a, Redirs(c[2])) : a \in Trees("line", Tail(c[1]))} ELSE {} : c \in Cuts(s, ")")}
=============================================================================
