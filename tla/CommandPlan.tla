---------------------------- MODULE CommandPlan ----------------------------
(***************************************************************************)
(* How a configured command is handed to the operating system              *)
(* (stages/command.py): split into a program and its arguments when a      *)
(* shell would do no more than that, otherwise through a shell.  A command *)
(* is a sequence of characters, one of each class the code tells apart:    *)
(* letters, blanks, the two quotes, the backslash, operators (pipes,       *)
(* redirections, globs, comments), expansions (dollar and backtick), the   *)
(* equals sign and the newline.  `escapes` tells whether a backslash       *)
(* escapes the next character (POSIX) or is a path separator (Windows).    *)
(***************************************************************************)
EXTENDS Naturals, SequencesExt

Characters ==
  {"letter", "blank", "single", "double", "backslash", "operator", "expansion", "equals", "newline"}
Quotes == {"single", "double"}
Blanks == {"blank", "newline"}
Metacharacters == {"operator", "expansion", "newline"}
ExpandInDoubleQuotes == {"expansion"}

None == "none"

-----------------------------------------------------------------------------
(* The planner.                                                            *)

\* (mutant) double quotes suppress everything.
SignificantUnquoted(quote) == IF quote = None THEN Metacharacters ELSE {}

\* Which characters make a shell do more than split, by the quote around them.
Significant(quote) ==
  CASE quote = None -> Metacharacters
    [] quote = "double" -> ExpandInDoubleQuotes
    [] OTHER -> {}

\* One turn of its loop: `skip` says that the next character is escaped.
Scan(command, escapes, state, i) ==
  LET char == command[i] IN
  CASE state.found # None -> state
    [] state.found = None /\ state.skip -> [state EXCEPT !.skip = FALSE]
    [] OTHER ->
        (CASE escapes /\ char = "backslash" /\ state.quote = "double" -> [state EXCEPT !.found = char]
           [] escapes /\ char = "backslash" /\ state.quote = None /\ i < Len(command) ->
                [state EXCEPT !.skip = TRUE]
           [] state.quote = None /\ char \in Quotes -> [state EXCEPT !.quote = char]
           [] state.quote = char -> [state EXCEPT !.quote = None]
           [] char \in Significant(state.quote) -> [state EXCEPT !.found = char]
           [] OTHER -> state)

\* first_metacharacter: the first one outside quoting, or None.
FirstMetacharacter(command, escapes) ==
  LET upTo[i \in 0..Len(command)] ==
        IF i = 0 THEN [quote |-> None, skip |-> FALSE, found |-> None]
        ELSE Scan(command, escapes, upTo[i - 1], i)
  IN upTo[Len(command)].found

\* split, with the lexer of the standard library: `mode` is None between words,
\* "word" in one, or the quote the lexer is in; `escaping` follows a backslash.
Add(state, chars) == [state EXCEPT !.word = @ \o chars, !.escaping = FALSE]
Close(state) ==
  IF state.word # <<>> \/ state.quoted
  THEN [state EXCEPT !.mode = None, !.word = <<>>, !.quoted = FALSE, !.words = Append(@, state.word)]
  ELSE [state EXCEPT !.mode = None]

Read(escapes, state, char) ==
  CASE state.escaping ->
         Add(state, IF state.mode \in Quotes /\ char \notin {"backslash", state.mode}
                    THEN <<"backslash", char>> ELSE <<char>>)
    [] ~state.escaping /\ state.mode \in Quotes ->
        (CASE char = state.mode -> [state EXCEPT !.mode = "word", !.quoted = TRUE]
           [] char = "backslash" /\ escapes /\ state.mode = "double" -> [state EXCEPT !.escaping = TRUE]
           [] OTHER -> Add(state, <<char>>))
    [] OTHER ->
        (CASE char \in Blanks -> Close(state)
           [] char \in Quotes -> [state EXCEPT !.mode = char]
           [] char = "backslash" /\ escapes -> [state EXCEPT !.mode = "word", !.escaping = TRUE]
           [] OTHER -> [Add(state, <<char>>) EXCEPT !.mode = "word"])

Lexed(command, escapes) ==
  LET upTo[i \in 0..Len(command)] ==
        IF i = 0 THEN [mode |-> None, escaping |-> FALSE, word |-> <<>>, quoted |-> FALSE, words |-> <<>>]
        ELSE Read(escapes, upTo[i - 1], command[i])
      end == upTo[Len(command)]
  IN [ok |-> ~end.escaping /\ end.mode \notin Quotes, words |-> Close(end).words]

\* _ambiguous_backslash: one before a quote, where it does not escape.
Ambiguous(command, escapes) ==
  ~escapes /\ \E i \in 1..Len(command) - 1 : command[i] = "backslash" /\ command[i + 1] \in Quotes

\* _leading_assignment: a name, then "=".
LeadingAssignment(word) ==
  \E i \in 2..Len(word) : word[i] = "equals" /\ \A j \in 1..i - 1 : word[j] = "letter"

\* _shell_reason and plan, up to the search for the program.
Splits(command, escapes) ==
  LET argv == Lexed(command, escapes) IN
  /\ FirstMetacharacter(command, escapes) = None
  /\ argv.ok /\ argv.words # <<>>
  /\ ~Ambiguous(command, escapes)
  /\ ~LeadingAssignment(argv.words[1])

-----------------------------------------------------------------------------
(* What a shell makes of the same characters: for every position the quote *)
(* it stands in and whether a backslash escapes it.                        *)

Escaped == {"expansion", "double", "backslash", "newline"}   \* what a backslash escapes in double quotes

Reading(command, escapes) ==
  LET at[i \in 0..Len(command)] ==
        IF i = 0 THEN [quote |-> None, escaped |-> FALSE, next |-> None]
        ELSE LET quote == at[i - 1].next
                 escaped == /\ escapes /\ i > 1 /\ command[i - 1] = "backslash" /\ ~at[i - 1].escaped
                            /\ quote = None \/ (quote = "double" /\ command[i] \in Escaped)
             IN [quote |-> quote, escaped |-> escaped,
                 next |-> CASE ~escaped /\ quote = None /\ command[i] \in Quotes -> command[i]
                            [] ~escaped /\ quote = command[i] -> None
                            [] OTHER -> quote]
  IN at

\* A backslash that escapes the next character.
Escaping(command, at, i) == i < Len(command) /\ at[i + 1].escaped

Continues(command, at, i) ==
  \/ at[i].escaped /\ command[i] = "newline"
  \/ Escaping(command, at, i) /\ command[i + 1] = "newline"

ContinuesLine(command, escapes) ==
  LET at == Reading(command, escapes)
  IN \E i \in 1..Len(command) : at[i].escaped /\ command[i] = "newline"

\* Quotes, escaping backslashes and continued lines are not part of a word.
Kept(command, at, i) ==
  /\ ~Escaping(command, at, i) /\ ~Continues(command, at, i)
  /\ at[i].escaped \/ at[i].next = at[i].quote

Breaks(command, at, i) ==
  ~at[i].escaped /\ at[i].quote = None /\ command[i] \in Blanks

\* The members of a set of positions, in order.
Ascending(S) == CHOOSE q \in [1..Cardinality(S) -> S] : \A i, j \in DOMAIN q : i < j => q[i] < q[j]

ShellWords(command, at) ==
  LET Parts(i) == {j \in i..Len(command) : \A k \in i..j : ~Breaks(command, at, k)}
      starts == {i \in 1..Len(command) : /\ ~Breaks(command, at, i)
                                         /\ i = 1 \/ Breaks(command, at, i - 1)
                                         /\ \E j \in Parts(i) : ~Continues(command, at, j)}
      Word(i) == LET kept == Ascending({j \in Parts(i) : Kept(command, at, j)})
                 IN [k \in 1..Len(kept) |-> command[kept[k]]]
      first == Ascending(starts)
  IN [k \in 1..Len(first) |-> Word(first[k])]

\* The characters a shell would act upon: operators, expansions, comments.
Acts(command, at, i) ==
  /\ ~at[i].escaped
  /\ \/ at[i].quote = None /\ command[i] \in Metacharacters
     \/ at[i].quote = "double" /\ command[i] \in ExpandInDoubleQuotes

\* A shell would run exactly this program with these arguments.
OnlySplits(command, escapes, argv) ==
  LET at == Reading(command, escapes)
      n == Len(command)
  IN /\ n > 0 => at[n].next = None
     /\ \A i \in 1..n : ~Acts(command, at, i)
     /\ argv = ShellWords(command, at)
     /\ ~\E i, j \in 1..n : /\ i < j /\ command[j] = "equals"
                            /\ \A k \in 1..j - 1 : command[k] = IF k < i THEN "blank" ELSE "letter"
=============================================================================
