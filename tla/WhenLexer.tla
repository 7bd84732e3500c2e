----------------------------- MODULE WhenLexer -----------------------------
(***************************************************************************)
(* The pre-check of a `when` clause (src/internal/config/whenlex.go):      *)
(* forbiddenWhenReference looks for a row variable that the operation does *)
(* not have, written as code and not inside a literal, a quoted identifier *)
(* or a comment, nor as the name of a field.                               *)
(*                                                                         *)
(* A clause is a sequence of symbols. A symbol is one byte, standing for   *)
(* its class ("SP", "NL" and "DQ": a space, a newline, a double quote),    *)
(* except "OLD", which stands for the three letters of the row variable    *)
(* (it behaves as letters do) so that short clauses can hold one.          *)
(* The scanner consumes token after token by index arithmetic, as the code *)
(* does; the reference below is the server's lexer as an automaton that    *)
(* reads one symbol at a time and never looks ahead.                       *)
(***************************************************************************)
EXTENDS Integers, Sequences

CONSTANTS
    Alphabets,      \* sets of symbols clauses are written in
    MaxLength       \* MaxLength[A]: bound on the clauses written in A

VARIABLE
    clause          \* [in: an alphabet, text: what has been written so far]

wordStart == {"OLD", "E", "a"}
tagBytes  == wordStart \cup {"1"}
wordBytes == tagBytes \cup {"$"}
newlines  == {"NL"}
spaces    == {"SP"} \cup newlines

\* The least index in i..Len(s)+1 at which P fails: endOfByteRun.
endOfByteRun(s, i, class) ==
    CHOOSE e \in i..(Len(s) + 1) :
        /\ \A k \in i..(e - 1) : s[k] \in class
        /\ e = Len(s) + 1 \/ s[e] \notin class

startsWith(s, i, a, b) == i < Len(s) /\ s[i] = a /\ s[i + 1] = b

\* One past the newline that ends the comment, or past the end.
endOfLineComment(s, i) ==
    LET e == endOfByteRun(s, i, {s[k] : k \in 1..Len(s)} \ newlines)
    IN  IF e > Len(s) THEN e ELSE e + 1

\* Block comments nest; an opener or a closer is stepped over whole.
blockComment(s) ==
    LET from[i \in 1..(Len(s) + 1)] == [depth \in Int |->
            IF i > Len(s) THEN Len(s) + 1
            ELSE IF startsWith(s, i, "/", "*") THEN from[i + 2][depth + 1]
            ELSE IF startsWith(s, i, "*", "/")
            THEN IF depth = 1 THEN i + 2 ELSE from[i + 2][depth - 1]
            ELSE from[i + 1][depth]]
    IN  from

endOfBlockComment(s, i) == blockComment(s)[i][0]

\* Past whitespace, and past every line comment with the whitespace after it.
gap(s) ==
    LET from[i \in 1..(Len(s) + 1)] ==
            LET e == endOfByteRun(s, i, spaces)
            IN  IF startsWith(s, e, "-", "-") THEN from[endOfLineComment(s, e)] ELSE e
    IN  from

\* A gap that holds a newline and ends at a quote continues a string constant.
continuationQuote(s, i, quote) ==
    LET e == gap(s)[i]
    IN  /\ quote = "'" /\ e <= Len(s) /\ s[e] = quote
        /\ \E k \in i..(e - 1) : s[k] \in newlines

\* The body of a literal from i on: a backslash hides the next byte in an
\* escape string, a doubled quote closes nothing, a continuation carries on.
quoted(s, quote, escapes) ==
    LET from[i \in 1..(Len(s) + 2)] ==
            IF i > Len(s) THEN Len(s) + 1
            ELSE IF escapes /\ s[i] = "\\" THEN from[i + 2]
            ELSE IF s[i] # quote THEN from[i + 1]
            ELSE IF startsWith(s, i, quote, quote) THEN from[i + 2]
            ELSE IF continuationQuote(s, i + 1, quote) THEN from[gap(s)[i + 1] + 1]
            ELSE i + 1
    IN  from

endOfQuoted(s, i, quote, escapes) == quoted(s, quote, escapes)[i + 1]

\* $$ or $tag$ up to the next $; a tag opens like a word and holds no digit
\* first. 0 when nothing is opened here.
dollarQuoteDelimiter(s, i) ==
    LET e == endOfByteRun(s, i + 1, tagBytes)
    IN  IF e <= Len(s) /\ s[e] = "$" /\ (e = i + 1 \/ s[i + 1] \in wordStart)
        THEN e - i + 1 ELSE 0

endOfDollarQuoted(s, i) ==
    LET n == dollarQuoteDelimiter(s, i)
        closes == {k \in (i + n)..(Len(s) - n + 1) :
                      SubSeq(s, k, k + n - 1) = SubSeq(s, i, i + n - 1)}
    IN  IF n = 0 THEN i + 1
        ELSE IF closes = {} THEN Len(s) + 1
        ELSE n + CHOOSE k \in closes : \A m \in closes : k <= m

\* A word, or the escape string that the word E opens.
endOfWordOrEscapeString(s, i) ==
    LET e == endOfByteRun(s, i + 1, wordBytes)
    IN  IF e <= Len(s) /\ s[e] = "'" /\ SubSeq(s, i, e - 1) = <<"E">>
        THEN [end |-> endOfQuoted(s, e, "'", TRUE), word |-> FALSE]
        ELSE [end |-> e, word |-> TRUE]

nextToken(s, i) ==
    LET skip(e) == [end |-> e, word |-> FALSE]
    IN  CASE s[i] \in wordStart -> endOfWordOrEscapeString(s, i)
          [] startsWith(s, i, "-", "-") -> skip(endOfLineComment(s, i))
          [] startsWith(s, i, "/", "*") -> skip(endOfBlockComment(s, i))
          [] s[i] \in {"'", "DQ"} -> skip(endOfQuoted(s, i, s[i], FALSE))
          [] s[i] = "$" -> skip(endOfDollarQuoted(s, i))
          [] OTHER -> skip(i + 1)

\* Faulty variant: a comment is taken for a token between the dot and
\* the field.
isTokenSeparatorOfSpaces(s, i) == s[i] \in spaces

isTokenSeparator(s, i) ==
    s[i] \in spaces \/ startsWith(s, i, "-", "-") \/ startsWith(s, i, "/", "*")

\* The index of the first bare row variable from i on, 0 for none.
bareWord(s) ==
    LET from[i \in 1..(Len(s) + 1)] == [afterFieldSelector \in BOOLEAN |->
            IF i > Len(s) THEN 0
            ELSE LET t == nextToken(s, i)
                 IN  IF t.word /\ ~afterFieldSelector /\ SubSeq(s, i, t.end - 1) = <<"OLD">>
                     THEN i
                     ELSE from[t.end][IF isTokenSeparator(s, i) THEN afterFieldSelector
                                      ELSE s[i] = "."]]
    IN  from

firstBareWord(s) == bareWord(s)[1][FALSE]

-----------------------------------------------------------------------------
(* The server's lexer, one symbol at a time. Its state:                    *)
(*   in      "code", "word", "string", "ident", "line", "block", "tag" and *)
(*           "dollar"; after the closing quote of a string "gap", and      *)
(*           "remark" in a comment there: a newline and a quote carry on   *)
(*   half    the first symbol of a pair that may open or close something,  *)
(*           or "none"                                                     *)
(*   dot     the last token was the field selector                         *)
(*   text    of the word or tag being read;  body: of the dollar quote     *)
(*   depth, escapes, newline: of the comment, the string, the gap          *)
(*   at      symbols read;  found: where the first bare OLD stood, or 0    *)

Start == [in |-> "code", half |-> "none", dot |-> FALSE, text |-> <<>>, body |-> <<>>,
          depth |-> 0, escapes |-> FALSE, newline |-> FALSE, at |-> 0, found |-> 0]

\* A word that has ended is the row variable or an ordinary token.
endWord(q) ==
    [q EXCEPT !.in = "code", !.half = "none", !.dot = FALSE,
              !.found = IF q.found = 0 /\ q.text = <<"OLD">> /\ ~q.dot THEN q.at ELSE q.found]

\* A symbol read in code; q.half holds a "-" or "/" that may open a comment,
\* and was a token of its own when it does not.
inCode(q, c) ==
    LET dot == q.dot /\ q.half = "none"
    IN  CASE c \in wordStart -> [q EXCEPT !.in = "word", !.text = <<c>>, !.half = "none", !.dot = dot]
          [] c = "-" /\ q.half = "-" -> [q EXCEPT !.in = "line", !.half = "none"]
          [] c = "*" /\ q.half = "/" -> [q EXCEPT !.in = "block", !.depth = 1, !.half = "none"]
          [] c = "'" -> [q EXCEPT !.in = "string", !.escapes = FALSE, !.half = "none", !.dot = FALSE]
          [] c = "DQ" -> [q EXCEPT !.in = "ident", !.escapes = FALSE, !.half = "none", !.dot = FALSE]
          [] c = "$" -> [q EXCEPT !.in = "tag", !.text = <<>>, !.half = "none", !.dot = FALSE]
          [] c \in spaces -> [q EXCEPT !.half = "none", !.dot = dot]
          [] c = "/" \/ (c = "-" /\ q.half # "-") -> [q EXCEPT !.half = c, !.dot = dot]
          [] OTHER -> [q EXCEPT !.half = "none", !.dot = c = "."]

\* After the closing quote of a string.
inGap(q, c) ==
    CASE c = "'" /\ q.half = "none" /\ q.newline -> [q EXCEPT !.in = "string"]
      [] c \in spaces /\ q.half = "none" -> [q EXCEPT !.newline = q.newline \/ c \in newlines]
      [] c = "-" /\ q.half = "none" -> [q EXCEPT !.half = "-"]
      [] c = "-" /\ q.half = "-" -> [q EXCEPT !.in = "remark", !.half = "none"]
      [] OTHER -> inCode([q EXCEPT !.in = "code"], c)

inRemark(q, c) ==
    IF c \in newlines THEN [q EXCEPT !.in = "gap", !.newline = TRUE] ELSE q

\* Inside a literal: q.half holds a backslash or a quote that waits for the
\* next symbol, which decides whether the quote was doubled.
inQuoted(q, c) ==
    LET quote == IF q.in = "ident" THEN "DQ" ELSE "'"
    IN  CASE q.half = "\\" \/ (q.half = quote /\ c = quote) -> [q EXCEPT !.half = "none"]
          [] q.half = quote /\ c # quote ->
                IF q.in = "ident" THEN inCode([q EXCEPT !.in = "code", !.half = "none"], c)
                ELSE inGap([q EXCEPT !.in = "gap", !.half = "none", !.newline = FALSE], c)
          [] q.half = "none" /\ (c = quote \/ (c = "\\" /\ q.escapes)) -> [q EXCEPT !.half = c]
          [] OTHER -> q

inWord(q, c) ==
    CASE c \in wordBytes -> [q EXCEPT !.text = Append(q.text, c)]
      [] c = "'" /\ q.text = <<"E">> ->
            [q EXCEPT !.in = "string", !.escapes = TRUE, !.dot = FALSE]
      [] OTHER -> inCode(endWord(q), c)

\* $: the tag so far, then the body against the closing delimiter. What turns
\* out to open nothing is read again after the $, as a word or as code.
inTag(q, c) ==
    CASE c = "$" -> [q EXCEPT !.in = "dollar", !.body = <<>>]
      [] c \in tagBytes /\ (q.text # <<>> \/ c \in wordStart) -> [q EXCEPT !.text = Append(q.text, c)]
      [] OTHER -> IF q.text = <<>> THEN inCode([q EXCEPT !.in = "code"], c)
                  ELSE inWord([q EXCEPT !.in = "word"], c)

inDollar(q, c) ==
    LET body == Append(q.body, c)
        close == <<"$">> \o q.text \o <<"$">>
        from == Len(body) - Len(close) + 1
    IN  IF from > 0 /\ SubSeq(body, from, Len(body)) = close
        THEN [q EXCEPT !.in = "code"] ELSE [q EXCEPT !.body = body]

inBlock(q, c) ==
    CASE q.half = "/" /\ c = "*" -> [q EXCEPT !.half = "none", !.depth = q.depth + 1]
      [] q.half = "*" /\ c = "/" ->
            IF q.depth = 1 THEN [q EXCEPT !.in = "code", !.half = "none"]
            ELSE [q EXCEPT !.half = "none", !.depth = q.depth - 1]
      [] OTHER -> [q EXCEPT !.half = IF c \in {"/", "*"} THEN c ELSE "none"]

Read(q, c) ==
    LET next == CASE q.in = "code" -> inCode(q, c)
                  [] q.in = "word" -> inWord(q, c)
                  [] q.in \in {"string", "ident"} -> inQuoted(q, c)
                  [] q.in = "gap" -> inGap(q, c)
                  [] q.in = "remark" -> inRemark(q, c)
                  [] q.in = "line" -> IF c \in newlines THEN [q EXCEPT !.in = "code"] ELSE q
                  [] q.in = "block" -> inBlock(q, c)
                  [] q.in = "tag" -> inTag(q, c)
                  [] q.in = "dollar" -> inDollar(q, c)
    IN  [next EXCEPT !.at = q.at + 1]

\* The end of the clause ends a last word, and a tag that opened nothing.
AtEnd(q) == IF q.in = "word" \/ (q.in = "tag" /\ q.text # <<>>) THEN endWord(q) ELSE q

\* The lexer's state after each symbol.
reading(s) ==
    LET after[k \in 0..Len(s)] == IF k = 0 THEN Start ELSE Read(after[k - 1], s[k])
    IN  after

ServerFinds(s) == AtEnd(reading(s)[Len(s)]).found

-----------------------------------------------------------------------------
\* No clause is being written.
Unwritten == [in |-> {}, text |-> <<>>]

LInit == \E A \in Alphabets : clause = [in |-> A, text |-> <<>>]

\* One more symbol of the clause.
Write ==
    /\ clause # Unwritten
    /\ Len(clause.text) < MaxLength[clause.in]
    /\ \E c \in clause.in : clause' = [clause EXCEPT !.text = Append(@, c)]

LSpec == LInit /\ [][Write]_clause

\* The pre-check refuses a clause exactly when the server's lexer, reading it
\* symbol by symbol, meets the row variable as code: nothing in a literal, an
\* identifier or a comment is reported (a clause the server accepts), and
\* nothing outside is missed, however quotes, escapes, continuations, nested
\* comments and dollar tags are combined (whenlex.go firstBareWord).
ScannerAgreesWithServer ==
    firstBareWord(clause.text) = ServerFinds(clause.text)
=============================================================================
