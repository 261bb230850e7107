-------------------------------- MODULE Lexer --------------------------------
(***************************************************************************)
(* The shell's lexer (lexer.c) and the two things the parser does to it    *)
(* while it reads: alias substitution, which splices the alias's value     *)
(* into the characters still to come, and here-documents, whose bodies the *)
(* lexer collects when it meets the newline after their operators.         *)
(*                                                                         *)
(* A text is a sequence of characters; a character of the model is a class *)
(* of those of the program ("x", "a", "b" letters, "=" ...), or a keyword  *)
(* or operator that stands for its letters ("case", "esac", "<<").  It is  *)
(* typed first and read then, token by token: Look is lexer_peek,          *)
(* Substitute one turn of expand_command_aliases, Deliver the parser's     *)
(* consume.                                                                *)
(***************************************************************************)
EXTENDS Naturals, Sequences, FiniteSets, SequencesExt

CONSTANTS Alphabets,      \* records: a text, the characters typed after it, the
                          \* length it may reach, the aliases
          AliasPushMax,   \* ALIAS_PUSH_MAX
          MaxTurns        \* how many aliases expand_command_aliases substitutes, 1000

VARIABLES text,           \* what has been typed
          aliases,        \* the alias table: names to values
          lexer,          \* lexer_t; its field input is <<>> until reading starts
          checking,       \* how many aliases may still be put in place of the next word
          taken           \* the tokens the parser has consumed

lexerVars == <<text, aliases, lexer, checking, taken>>

Letters  == {"x", "a", "b", "case", "esac"}
Blanks   == {" ", "tab"}
WordStop == Blanks \cup {"nl", ";", "&", "|", "<<", "<", ">", "(", ")"}
Special  == {"@", "*", "#", "?", "-", "$", "!", "0"}
NameChar == Letters \cup {"0"}

(* lexer_init_str.                                                         *)
Fresh(input) == [input |-> input, at |-> 1, back |-> <<>>, pushed |-> <<>>,
                 blank |-> FALSE, buf |-> <<>>, line |-> 1, error |-> FALSE,
                 peek |-> <<>>, heredocs |-> <<>>, bodies |-> <<>>]

-----------------------------------------------------------------------------
(* Characters.                                                             *)

(* From the k-th value on: a value that has run out is kept for one more   *)
(* read, so that its alias stays guarded, and raises alias_blank.          *)
RECURSIVE FromPushed(_, _)
FromPushed(l, k) ==
  IF k > Len(l.pushed)
    THEN IF l.at > Len(l.input) THEN [c |-> "EOF", l |-> l]
         ELSE [c |-> l.input[l.at], l |-> [l EXCEPT !.at = @ + 1]]
    ELSE LET ap == l.pushed[k]
         IN CASE ap.at <= Len(ap.text) ->
                   [c |-> ap.text[ap.at], l |-> [l EXCEPT !.pushed[k].at = @ + 1]]
              [] ap.at > Len(ap.text) /\ ~ap.spent ->
                   FromPushed([l EXCEPT !.pushed[k].spent = TRUE,
                                        !.blank = IF ap.name = "" THEN @ ELSE ap.blank],
                              k + 1)
              [] OTHER -> FromPushed([l EXCEPT !.pushed = RemoveAt(@, k)], k)

(* Without that read: the guard goes with the last character.              *)
ReadPushedNoGrace(l) ==
  FromPushed([l EXCEPT !.pushed = SelectSeq(@, LAMBDA ap : ap.at <= Len(ap.text))], 1)
ReadPushed(l) == FromPushed(l, 1)

GetC(l) == IF l.back = <<>> THEN ReadPushed(l)
           ELSE [c |-> l.back[1], l |-> [l EXCEPT !.back = <<>>]]
UngetC(l, c) == [l EXCEPT !.back = <<c>>]

Add(l, c)  == [l EXCEPT !.buf = Append(@, c)]
(* A character kept in the word, and counted if it is a newline.           *)
Keep(l, c) == [Add(l, c) EXCEPT !.line = IF c = "nl" THEN @ + 1 ELSE @]
Unterminated(l) == [l EXCEPT !.error = TRUE]

(* Without the backslash: what it escapes would stand for itself.          *)
EscapedBare(l, counted) ==
  LET g == GetC(l)
  IN CASE g.c = "EOF" -> g.l
       [] counted     -> Keep(g.l, g.c)
       [] OTHER       -> Add(g.l, g.c)

(* A backslash and what it escapes.                                        *)
Escaped(l, counted) ==
  LET g == GetC(l)
  IN CASE g.c = "EOF" -> Add(g.l, "\\")
       [] counted     -> Keep(Add(g.l, "\\"), g.c)
       [] OTHER       -> Add(Add(g.l, "\\"), g.c)

-----------------------------------------------------------------------------
(* Quotes and substitutions: each scanner runs to its closing character    *)
(* and keeps everything.                                                   *)

RECURSIVE ScanSingleQuote(_)
ScanSingleQuote(l) ==
  LET g == GetC(l)
  IN CASE g.c = "EOF" -> Add(Unterminated(g.l), "'")
       [] g.c = "'"   -> Add(g.l, "'")
       [] OTHER       -> ScanSingleQuote(Keep(g.l, g.c))

RECURSIVE ScanBackquote(_)
ScanBackquote(l) ==
  LET g == GetC(l)
  IN CASE g.c = "EOF" -> Unterminated(g.l)
       [] g.c = "bq"   -> Add(g.l, "bq")
       [] g.c = "\\"  -> ScanBackquote(Escaped(g.l, TRUE))
       [] OTHER       -> ScanBackquote(Keep(g.l, g.c))

RECURSIVE ScanArith(_, _)
ScanArith(l, depth) ==
  IF depth = 0 THEN l
  ELSE LET g == GetC(l)
       IN CASE g.c = "EOF" -> Unterminated(g.l)
            [] g.c = "("   -> ScanArith(Add(g.l, "("), depth + 1)
            [] g.c = ")"   -> ScanArith(Add(g.l, ")"), depth - 1)
            [] OTHER       -> ScanArith(Keep(g.l, g.c), depth)

(* The quotes inside $( ): an end of input only ends the quote, and        *)
(* newlines are not counted.                                               *)
RECURSIVE SubstQuote(_, _)
SubstQuote(l, quote) ==
  LET g == GetC(l)
  IN CASE g.c = "EOF" -> IF quote = "'" THEN Add(g.l, "'") ELSE g.l
       [] g.c = quote -> Add(g.l, quote)
       [] g.c = "\\" /\ quote = "\"" -> SubstQuote(Escaped(g.l, FALSE), quote)
       [] OTHER       -> SubstQuote(Add(g.l, g.c), quote)

RECURSIVE SubstComment(_)
SubstComment(l) ==
  LET g == GetC(l)
  IN CASE g.c = "EOF" -> g.l
       [] g.c = "nl"  -> UngetC(g.l, "nl")
       [] OTHER       -> SubstComment(Add(g.l, g.c))

(* The word in progress, whether it stands where a command may, and how    *)
(* many case are open: a ) inside case ... esac closes nothing.            *)
Keyword(s, c) ==
  IF c \in Letters
    THEN [s EXCEPT !.kw = Append(@, c), !.word = IF s.kw = <<>> THEN s.cmd ELSE @]
    ELSE LET ended == s.kw # <<>>
             open  == IF ~ended \/ ~s.word THEN s.case
                      ELSE CASE s.kw = <<"case">> -> s.case + 1
                             [] s.kw = <<"esac">> /\ s.case > 0 -> s.case - 1
                             [] OTHER -> s.case
         IN [s EXCEPT !.kw = <<>>, !.case = open,
                      !.cmd = CASE c \in {";", "nl", "&", "|", "("} -> TRUE
                                [] c \in Blanks -> IF ended THEN FALSE ELSE @
                                [] OTHER -> FALSE]

(* $( ... ), after its parenthesis.                                        *)
RECURSIVE ScanSubst(_, _)
ScanSubst(l, s) ==
  IF s.depth = 0 THEN l
  ELSE LET g == GetC(l)
           k == [Keyword(s, g.c) EXCEPT !.prev = g.c]
           d == IF k.case > 0 THEN 0 ELSE 1
       IN CASE g.c = "EOF" -> Unterminated(g.l)
            [] g.c = "#" /\ s.prev \in Blanks \cup {"nl", "(", ";", "&", "|"} ->
                 ScanSubst(SubstComment(Add(g.l, "#")), k)
            [] g.c = "\\"  -> ScanSubst(Escaped(g.l, TRUE), k)
            [] g.c = "("   -> ScanSubst(Add(g.l, "("), [k EXCEPT !.depth = @ + d])
            [] g.c = ")"   -> ScanSubst(Add(g.l, ")"), [k EXCEPT !.depth = @ - d])
            [] g.c \in {"'", "\""} -> ScanSubst(SubstQuote(Add(g.l, g.c), g.c), k)
            [] OTHER       -> ScanSubst(Keep(g.l, g.c), k)

ScanCmdSubst(l) ==
  ScanSubst(Add(l, "("), [depth |-> 1, prev |-> "(", case |-> 0, kw |-> <<>>,
                          cmd |-> TRUE, word |-> FALSE])

(* After $( : a second parenthesis makes it arithmetic.                    *)
ScanParen(l) ==
  LET g == GetC(l)
  IN IF g.c = "(" THEN ScanArith(Add(Add(Add(g.l, "$"), "("), "("), 2)
     ELSE ScanCmdSubst(Add(UngetC(g.l, g.c), "$"))

(* ${ ... }: s.q is inside ', s.dq inside " opened here, s.quotes whether  *)
(* ' quotes, s.header still in the name, s.start at its first character.   *)
RECURSIVE ScanBraces(_, _)
ScanParamExpand(l, outer) ==
  ScanBraces(Add(l, "{"), [q |-> FALSE, dq |-> FALSE, quotes |-> ~outer, header |-> TRUE,
                           start |-> TRUE, outer |-> outer])

BraceDollar(l, s) ==
  LET g == GetC(l)
  IN CASE g.c = "{" -> ScanParamExpand(Add(g.l, "$"), s.outer \/ s.dq)
       [] g.c = "(" -> ScanParen(g.l)
       [] g.c = "EOF" -> Add(g.l, "$")
       [] OTHER     -> UngetC(Add(g.l, "$"), g.c)

ScanBraces(l, s) ==
  LET g      == GetC(l)
      name   == s.header /\ (g.c \in NameChar \/ (s.start /\ g.c \in Special))
      past   == [s EXCEPT !.header = FALSE, !.start = FALSE,
                          !.quotes = @ \/ (s.header /\ g.c \in {"#", "%", "/"})]
  IN CASE g.c = "EOF" -> Unterminated(g.l)
       [] s.q         -> ScanBraces(Keep(g.l, g.c), [s EXCEPT !.q = g.c # "'"])
       [] g.c = "\\" /\ ~s.q ->
            LET n == GetC(g.l)
            IN IF n.c = "EOF" THEN Unterminated(Add(n.l, "\\"))
               ELSE ScanBraces(Keep(Add(n.l, "\\"), n.c),
                               [s EXCEPT !.header = FALSE, !.start = FALSE])
       [] name /\ ~s.q -> ScanBraces(Add(g.l, g.c), [s EXCEPT !.start = FALSE])
       [] g.c = ":" /\ s.header /\ ~s.q -> ScanBraces(Add(g.l, ":"), past)
       [] g.c = "'" /\ past.quotes /\ ~s.dq /\ ~s.q ->
            ScanBraces(Add(g.l, "'"), [past EXCEPT !.q = TRUE])
       [] g.c = "\"" /\ ~s.q -> ScanBraces(Add(g.l, "\""), [past EXCEPT !.dq = ~@])
       [] g.c = "$" /\ ~name /\ ~s.q  -> ScanBraces(BraceDollar(g.l, s), past)
       [] g.c = "bq" /\ ~s.q  -> ScanBraces(ScanBackquote(Add(g.l, "bq")), past)
       [] g.c = "}" /\ ~s.dq /\ ~s.q -> Add(g.l, "}")
       [] OTHER       -> ScanBraces(Keep(g.l, g.c), past)

(* " ... ": after a $ that starts nothing, a quote, backquote or backslash *)
(* keeps its meaning; any other character is taken with the $.             *)
DollarInQuotes(l) ==
  LET g == GetC(l)
  IN CASE g.c = "("                     -> ScanParen(g.l)
       [] g.c = "{"                     -> ScanParamExpand(Add(g.l, "$"), TRUE)
       [] g.c \in {"\"", "bq", "\\"}     -> UngetC(Add(g.l, "$"), g.c)
       [] g.c = "EOF"                   -> Add(g.l, "$")
       [] OTHER                         -> Keep(Add(g.l, "$"), g.c)

RECURSIVE ScanDoubleQuote(_)
ScanDoubleQuote(l) ==
  LET g == GetC(l)
  IN CASE g.c = "EOF" -> Add(Unterminated(g.l), "\"")
       [] g.c = "\""  -> Add(g.l, "\"")
       [] g.c = "\\"  -> ScanDoubleQuote(Escaped(g.l, TRUE))
       [] g.c = "$"   -> ScanDoubleQuote(DollarInQuotes(g.l))
       [] g.c = "bq"   -> ScanDoubleQuote(ScanBackquote(Add(g.l, "bq")))
       [] OTHER       -> ScanDoubleQuote(Keep(g.l, g.c))

-----------------------------------------------------------------------------
(* Words.                                                                  *)

WordDollar(l) ==
  LET g == GetC(l)
  IN CASE g.c = "("   -> ScanParen(g.l)
       [] g.c = "{"   -> ScanParamExpand(Add(g.l, "$"), FALSE)
       [] g.c = "EOF" -> Add(g.l, "$")
       [] g.c \in NameChar \cup Special -> Add(Add(g.l, "$"), g.c)
       [] OTHER       -> UngetC(Add(g.l, "$"), g.c)

(* A word from its first character c on; quoted says that some of it was.  *)
RECURSIVE ScanWord(_, _, _)
WordEscape(g, quoted) ==
  CASE g.c = "nl"  -> [l |-> [g.l EXCEPT !.line = @ + 1], quoted |-> quoted]
    [] g.c = "EOF" -> [l |-> Add(g.l, "\\"), quoted |-> quoted]
    [] OTHER       -> [l |-> Add(Add(g.l, "\\"), g.c), quoted |-> TRUE]
WordOn(g, quoted) == IF g.c = "EOF" THEN [l |-> g.l, quoted |-> quoted]
                     ELSE ScanWord(g.l, g.c, quoted)
WordBehind(w) == WordOn(GetC(w.l), w.quoted)
ScanWord(l, c, quoted) ==
  IF c \in WordStop THEN [l |-> UngetC(l, c), quoted |-> quoted]
  ELSE WordBehind(CASE c = "'"  -> [l |-> ScanSingleQuote(Add(l, "'")), quoted |-> TRUE]
                    [] c = "\"" -> [l |-> ScanDoubleQuote(Add(l, "\"")), quoted |-> TRUE]
                    [] c = "\\" -> WordEscape(GetC(l), quoted)
                    [] c = "$"  -> [l |-> WordDollar(l), quoted |-> quoted]
                    [] c = "bq" -> [l |-> ScanBackquote(Add(l, "bq")), quoted |-> quoted]
                    [] OTHER    -> [l |-> Add(l, c), quoted |-> quoted])

-----------------------------------------------------------------------------
(* Here-documents.                                                         *)

RECURSIVE ReadLine(_, _)
ReadLine(l, line) ==
  LET g == GetC(l)
  IN CASE g.c = "EOF" -> [l |-> g.l, line |-> line, eof |-> TRUE]
       [] g.c = "nl"  -> [l |-> [g.l EXCEPT !.line = @ + 1], line |-> line, eof |-> FALSE]
       [] OTHER       -> ReadLine(g.l, Append(line, g.c))

(* The line ends in an odd number of backslashes.                          *)
Continued(line) ==
  \E n \in 1 .. Len(line) :
    /\ n % 2 = 1
    /\ \A k \in Len(line) - n + 1 .. Len(line) : line[k] = "\\"
    /\ n = Len(line) \/ line[Len(line) - n] # "\\"

StripTabs(line) == LET tabs == {k \in 1 .. Len(line) : \A j \in 1 .. k : line[j] = "tab"}
                   IN SubSeq(line, Len(SetToSeq(tabs)) + 1, Len(line))

(* Lines up to the delimiter; a line continued by the one before is not    *)
(* compared.  The end of the input ends the body, and loses a last line    *)
(* that has no newline.                                                    *)
RECURSIVE ReadBody(_, _, _, _)
ReadBody(l, hp, body, continued) ==
  LET r == ReadLine(l, <<>>)
      ends == r.line = hp.delim \/ (hp.strip /\ StripTabs(r.line) = hp.delim)
  IN CASE r.eof -> [l |-> r.l, body |-> body]
       [] ~r.eof /\ ~continued /\ ends -> [l |-> r.l, body |-> body]
       [] OTHER -> ReadBody(r.l, hp, body \o Append(r.line, "nl"),
                            ~hp.quoted /\ Continued(r.line))

RECURSIVE DrainHeredocs(_)
DrainHeredocs(l) ==
  IF l.heredocs = <<>> THEN l
  ELSE LET hp == Head(l.heredocs)
           r  == ReadBody(l, hp, <<>>, FALSE)
       IN DrainHeredocs([r.l EXCEPT !.heredocs = Tail(l.heredocs),
                                    !.bodies = Append(@, [delim |-> hp.delim,
                                                          body |-> r.body])])

(* The delimiter of << is its word after quote removal.                    *)
Unquoted(word) == SelectSeq(word, LAMBDA c : c \notin {"'", "\"", "\\"})

(* parse_redirect registers the body behind those of the line so far.      *)
RegisterHeredoc(l, word, strip) ==
  [l EXCEPT !.heredocs = Append(@, [delim  |-> Unquoted(word), strip |-> strip,
                                    quoted |-> Unquoted(word) # word])]

(* In front of them.                                                       *)
RegisterHeredocFirst(l, word, strip) ==
  [l EXCEPT !.heredocs = <<[delim  |-> Unquoted(word), strip |-> strip,
                            quoted |-> Unquoted(word) # word]>> \o @]

Register(l, word, strip) == RegisterHeredoc(l, word, strip)

-----------------------------------------------------------------------------
(* Tokens.                                                                 *)

Token(type, word, quoted) == [type |-> type, word |-> word, quoted |-> quoted]

RECURSIVE SkipComment(_)
SkipComment(l) == LET g == GetC(l)
                  IN IF g.c \in {"nl", "EOF"} THEN g ELSE SkipComment(g.l)

(* lexer_read: blanks, a comment, an operator or a word.  A word can come  *)
(* out empty (it was only a line continuation); then the next is read.     *)
RECURSIVE Read(_)
ReadWord(w) == IF w.l.buf = <<>> THEN Read(w.l)
               ELSE [t |-> Token("word", w.l.buf, w.quoted), l |-> w.l]
ReadFrom(c, l) ==
  CASE c = "EOF" -> [t |-> Token("EOF", <<>>, FALSE), l |-> l]
    [] c = "nl"  -> [t |-> Token("nl", <<>>, FALSE),
                     l |-> DrainHeredocs([l EXCEPT !.line = @ + 1])]
    [] c \in {";", "&", "|"} ->
         LET g == GetC(l)
         IN IF g.c = c THEN [t |-> Token(c \o c, <<>>, FALSE), l |-> g.l]
            ELSE [t |-> Token(c, <<>>, FALSE), l |-> UngetC(g.l, g.c)]
    [] c = "<<"  ->
         LET g == GetC(l)
         IN IF g.c = "-" THEN [t |-> Token("<<-", <<>>, FALSE), l |-> g.l]
            ELSE [t |-> Token("<<", <<>>, FALSE), l |-> UngetC(g.l, g.c)]
    [] c \in {"<", ">", "(", ")"} -> [t |-> Token(c, <<>>, FALSE), l |-> l]
    [] OTHER     ->
         ReadWord(ScanWord([l EXCEPT !.buf = <<>>], c, FALSE))

ReadAt(g) == ReadFrom(g.c, g.l)
ReadOn(g) == CASE g.c \in Blanks -> Read(g.l)
               [] g.c = "#"      -> ReadAt(SkipComment(g.l))
               [] OTHER          -> ReadAt(g)
Read(l) == ReadOn(GetC(l))

WithPeek(r)  == [r.l EXCEPT !.peek = <<r.t>>]
LexerPeek(l) == WithPeek(Read(l))

-----------------------------------------------------------------------------
(* Aliases.                                                                *)

LexerAliasActive(l, name) == \E k \in 1 .. Len(l.pushed) : l.pushed[k].name = name

PushText(l, value, name, blank) ==
  [l EXCEPT !.pushed = <<[text |-> value, at |-> 1, name |-> name, blank |-> blank,
                          spent |-> FALSE]>> \o @]

(* The character that was pushed back was read before the alias was        *)
(* recognised: it goes below the value.                                    *)
LexerPushAlias(l, value, name) ==
  LET under == IF l.back \in {<<>>, <<"EOF">>} THEN [l EXCEPT !.back = <<>>]
               ELSE PushText([l EXCEPT !.back = <<>>], l.back, "", FALSE)
  IN [PushText(under, value, name, value # <<>> /\ Last(value) \in Blanks)
        EXCEPT !.blank = FALSE]

(* As it was once: the pushed back character stays in front.               *)
LexerPushAliasBehind(l, value, name) ==
  [PushText(l, value, name, value # <<>> /\ Last(value) \in Blanks) EXCEPT !.blank = FALSE]

PushAlias(l, value, name) == LexerPushAlias(l, value, name)

-----------------------------------------------------------------------------
Reading  == lexer.input # <<>>
Finished == taken # <<>> /\ Last(taken).type = "EOF"
Peeked  == lexer.peek # <<>>
Ahead   == lexer.peek[1]

TypedFrom(A) == /\ IsPrefix(A.start, text)
                /\ \A k \in Len(A.start) + 1 .. Len(text) : text[k] \in A.chars

Type == /\ ~Reading
        /\ \E A \in Alphabets : \E c \in A.chars :
             /\ aliases = A.aliases
             /\ TypedFrom(A)
             /\ Len(text) < A.max
             /\ text' = Append(text, c)
        /\ UNCHANGED <<aliases, lexer, checking, taken>>

Start == /\ ~Reading /\ text # <<>>
         /\ lexer' = Fresh(text)
         /\ UNCHANGED <<text, aliases, checking, taken>>

(* peek(), the parser's: a value that ended in a blank makes the word      *)
(* behind it one where an alias may stand.  Inside expand_command_aliases  *)
(* that says nothing new.                                                  *)
Seen(l) == /\ lexer' = [l EXCEPT !.blank = FALSE]
           /\ checking' = IF checking = 0 /\ l.blank THEN MaxTurns ELSE checking
Look == /\ Reading /\ ~Peeked
        /\ ~Finished
        /\ Seen(LexerPeek(lexer))
        /\ UNCHANGED <<text, aliases, taken>>

(* The word ahead is a single character that names an alias.               *)
Substitutable ==
  /\ checking > 0 /\ Ahead.type = "word" /\ Len(Ahead.word) = 1
  /\ Ahead.word[1] \in DOMAIN aliases
  /\ ~LexerAliasActive(lexer, Ahead.word[1])

(* One turn less; in the mutant, as many as ever.                          *)
TurnsNot(n) == n
Turns(n) == n - 1

(* The name is gone also when its value finds no room.                     *)
Substitute == /\ Reading /\ Peeked /\ Substitutable
              /\ LET l == [lexer EXCEPT !.peek = <<>>]
                 IN IF Len(l.pushed) < AliasPushMax
                      THEN /\ lexer' = PushAlias(l, aliases[Ahead.word[1]], Ahead.word[1])
                           /\ checking' = Turns(checking)
                      ELSE lexer' = l /\ checking' = 0
              /\ UNCHANGED <<text, aliases, taken>>

(* The token is consumed.  A word behind << is its delimiter; a separator  *)
(* makes the next word a command word again.                               *)
Deliver == /\ Reading /\ Peeked /\ ~Substitutable
           /\ LET before == IF taken = <<>> THEN "" ELSE Last(taken).type
                  l      == [lexer EXCEPT !.peek = <<>>]
              IN lexer' = IF Ahead.type = "word" /\ before \in {"<<", "<<-"}
                            THEN Register(l, Ahead.word, before = "<<-") ELSE l
           /\ taken' = Append(taken, Ahead)
           /\ checking' = IF Ahead.type \in {";", "nl", "&", "|", "&&", "||"} THEN MaxTurns ELSE 0
           /\ UNCHANGED <<text, aliases>>

Init == /\ \E A \in Alphabets : text = A.start /\ aliases = A.aliases
        /\ taken = <<>> /\ checking = MaxTurns
        /\ lexer = Fresh(<<>>)

Next == Type \/ Start \/ Look \/ Substitute \/ Deliver

(* A text whose reading has begun is read on: weak fairness of Look,       *)
(* Substitute and Deliver, one of which is enabled until the end.          *)
Fairness == []<>(~Reading \/ Finished) \/ []<><<Reading>>_lexerVars

Spec == Init /\ [][Next]_lexerVars /\ Fairness

-----------------------------------------------------------------------------
(* The characters still to come, wherever the lexer keeps them.            *)
Rest(l) == SelectSeq(l.back, LAMBDA c : c # "EOF")
           \o FlattenSeq([k \in 1 .. Len(l.pushed) |->
                SubSeq(l.pushed[k].text, l.pushed[k].at, Len(l.pushed[k].text))])
           \o SubSeq(l.input, l.at, Len(l.input))

Consumed(l, m) == SubSeq(Rest(l), 1, Len(Rest(l)) - Len(Rest(m)))

(* A word as it was written: without the blanks and comments before it,    *)
(* and without line continuations outside of quotes.                       *)
RECURSIVE Joined(_)
Joined(s) == IF Len(s) < 2 THEN s
             ELSE IF s[1] = "\\" /\ s[2] = "nl" THEN Joined(SubSeq(s, 3, Len(s)))
             ELSE <<s[1]>> \o Joined(Tail(s))

(* Looking ahead takes characters from the front of the text and leaves    *)
(* the others as they were; substituting puts the value in front of them.  *)
(* No character is lost, doubled or overtaken, whatever was pushed back    *)
(* when an alias was recognised, and a word is made of what was taken.     *)
TextIsRead ==
  [][/\ Look => /\ IsSuffix(Rest(lexer'), Rest(lexer))
                /\ lexer'.peek[1].type = "word" /\ ~lexer'.error =>
                     IsSuffix(Joined(lexer'.peek[1].word),
                              Joined(Consumed(lexer, lexer')))
     /\ Substitute => Rest(lexer') = aliases[Ahead.word[1]] \o Rest(lexer)]_lexerVars

(* Reading ends, although a value may name its own alias, or another whose *)
(* value names the first.                                                  *)
ReadingEnds == Reading ~> Finished

(* "The per-name guard already stops direct and mutual recursion": in the  *)
(* place of one word no alias is put twice, whatever the values name.  (An *)
(* empty value puts nothing, so the next word takes its place.)            *)
GuardStops ==
  (\A n \in DOMAIN aliases : aliases[n] # <<>>)
    => MaxTurns - checking <= Cardinality(DOMAIN aliases) \/ checking = 0

(* So it is where a newline, and not a continuation, ends the text.        *)
GuardStopsLines == IsSuffix(<<"nl">>, text) /\ ~IsSuffix(<<"\\", "nl">>, text) => GuardStops

(* A word that was read without an error reads as itself: no quote or      *)
(* substitution is left open in it, and nothing in it ends it early.       *)
WordsReadAsThemselves ==
  \A k \in 1 .. Len(taken) :
    taken[k].type = "word" /\ ~lexer.error =>
      LET r == Read(Fresh(taken[k].word))
      IN r.t = taken[k] /\ Rest(r.l) = <<>> /\ ~r.l.error

(* The bodies are collected for the operators in the order they stand in,  *)
(* which is the order their bodies follow in.                              *)
Delimiters ==
  LET at == {k \in 2 .. Len(taken) : /\ taken[k].type = "word"
                                     /\ taken[k - 1].type \in {"<<", "<<-"}}
      order == SetToSortSeq(at, LAMBDA j, k : j < k)
  IN [n \in 1 .. Len(order) |-> Unquoted(taken[order[n]].word)]
BodiesBelong ==
  IsPrefix([b \in 1 .. Len(lexer.bodies) |-> lexer.bodies[b].delim], Delimiters)

(* The line count is that of the newlines read: $LINENO is right.          *)
LinesAreCounted ==
  Reading => lexer.line = 1 + Len(SelectSeq(SubSeq(lexer.input, 1,
                Len(lexer.input) - Len(Rest(lexer))), LAMBDA c : c = "nl"))
=============================================================================
