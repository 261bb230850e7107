------------------------------ MODULE MCSyntax ------------------------------
(* The parser and the lexer, model-checked side by side: `part` says which *)
(* of them a behaviour is about.                                           *)
EXTENDS Naturals, Sequences

CONSTANTS Vocabularies, Alphabets

VARIABLES part, tokens, tree, text, aliases, lexer, checking, taken

Constructs == {"if", "while", "until", "for", "case", "subshell", "brace", "func",
               "redir", "pipe", "not", "and", "or", "async", "seq"}

P == INSTANCE Parser WITH MaxGrowth <- 9
L == INSTANCE Lexer WITH AliasPushMax <- 64, MaxTurns <- 5

-----------------------------------------------------------------------------
(* Tokens for the parser.                                                  *)
Voc(ts, n) == [tokens |-> ts, max |-> n]

Flat     == Voc({"w", "a=", "2", ">", "&&", "|", "!", "&", ";", "nl"}, 5)
Keyed    == Voc({"w", "a=", ">", "do", "if", "!", "nl", ";"}, 5)
Nested   == Voc({"w", "(", ")", "do", "&", "nl", "|", ">"}, 5)
Braced   == Voc({"{", "w", "}", ";", "nl"}, 6)
Looping  == Voc({"while", "w", "do", "done", ";"}, 7)

AllVocabularies == {Flat, Keyed, Nested, Braced, Looping}
Compounds       == {Voc({"w", "(", ")", ";"}, 5)}
Prefixed        == {Voc({"2", ">", "w", "for"}, 4)}
Separators      == {Voc({"w", ";", "&&", "|"}, 4)}
Unfinished      == {Voc({"if", "w", ";", "then"}, 4)}
Deviating       == Compounds \cup Prefixed \cup Separators \cup Unfinished

(* Characters for the lexer.                                               *)
Alpha(start, cs, more, als) == [start |-> start, chars |-> cs,
                                max |-> Len(start) + more, aliases |-> als]
NoAliases == [n \in {} |-> <<>>]

(* Values that name each other, that end in a blank, in a separator, in an *)
(* open quote, in nothing, and in a here-document.                         *)
Circle    == [n \in {"a", "b"} |-> IF n = "a" THEN <<"b">> ELSE <<"a">>]
Ending    == [n \in {"a", "b"} |-> IF n = "a" THEN <<"b", ";">> ELSE <<"a", "x", " ">>]
Open      == [n \in {"a"} |-> <<"x", " ", "'">>]
Empty     == [n \in {"a", "b"} |-> IF n = "a" THEN <<>> ELSE <<"b", " ">>]
Documents == [n \in {"a"} |-> <<"x", "<<", "x", "nl", "b", "nl">>]

Aliased   == {Alpha(<<>>, {"a", "b", " ", ";", "nl", "\\"}, 4, t) :
                t \in {Circle, Ending, Open, Empty, Documents}}
Quoted    == Alpha(<<>>, {"'", "\"", "\\", "$", "(", ")", "x", "{", "}", "bq"}, 4, NoAliases)
Cased     == Alpha(<<"$", "(", "case", " ", "x">>, {")", "esac", " ", ";", "(", "#", "nl"},
                   4, NoAliases)
Expansion == Alpha(<<"$", "{">>, {"x", "#", "-", "'", "\"", "}", "$", "{", ":"}, 4, NoAliases)
InQuotes  == Alpha(<<"\"", "$", "{", "x">>, {"#", "'", "\"", "}", " "}, 4, NoAliases)
Bodies    == Alpha(<<"x", "<<", "a", " ", "<<", "b">>, {"nl", "a", "b", "\\"}, 6, NoAliases)
Stripped  == Alpha(<<"<<", "-", "'", "a", "'", "nl">>, {"nl", "a", "tab", "\\"}, 5, NoAliases)

AllAlphabets == Aliased \cup {Quoted, Cased, Expansion, InQuotes, Bodies, Stripped}
Deviants     == {Alpha(<<"a">>, {";", "nl"}, 1, Circle),
                 Alpha(<<"$", "(", "'">>, {"nl", "'", ")"}, 3, NoAliases)}

-----------------------------------------------------------------------------
ParserIdle == tokens = <<>> /\ tree = <<"none">>
LexerIdle  == /\ text = <<>> /\ aliases = NoAliases /\ taken = <<>> /\ checking = 5
              /\ lexer = L!Fresh(<<>>)

Init == \/ part = "parser" /\ P!Init /\ LexerIdle
        \/ part = "lexer" /\ L!Init /\ ParserIdle

Next == \/ /\ part = "parser" /\ P!Next
           /\ UNCHANGED <<part, text, aliases, lexer, checking, taken>>
        \/ /\ part = "lexer" /\ L!Next
           /\ UNCHANGED <<part, tokens, tree>>

Spec == Init /\ [][Next]_<<part, tokens, tree, text, aliases, lexer, checking, taken>>
             /\ L!Fairness

(* The properties of the two modules.                                      *)
TreesRoundTrip         == P!TreesRoundTrip
LinesAreTheGrammars    == P!LinesAreTheGrammars
NothingIsLost          == P!NothingIsLost
NoRedirectedPrefix     == P!NoRedirectedPrefix
DiagnosedFirst         == P!DiagnosedFirst
UnfinishedIsDiagnosed  == P!UnfinishedIsDiagnosed
WordsReadAsThemselves  == L!WordsReadAsThemselves
BodiesBelong           == L!BodiesBelong
LinesAreCounted        == L!LinesAreCounted
TextIsRead             == L!TextIsRead
ReadingEnds            == L!ReadingEnds

(* The parser accepts the command language: each list it reads is the one  *)
(* that was written, token by token and line by line.                      *)
ParserIsTheGrammar == TreesRoundTrip /\ LinesAreTheGrammars

GuardStops             == L!GuardStops

(* Words are read as they stand, and the bodies of here-documents belong  *)
(* to the operators that asked for them.                                   *)
TextReadsAsWritten == WordsReadAsThemselves /\ BodiesBelong

(* Aliases are read in place, once and in order, and the reading ends.     *)
AliasesReadOnce == TextIsRead /\ []L!GuardStopsLines /\ ReadingEnds
=============================================================================
