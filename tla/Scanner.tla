------------------------------ MODULE Scanner ------------------------------
(***************************************************************************)
(* The adapter's shell scanner: which phasegent invocations of a command   *)
(* line are rewritten.  The text grows by one fragment per step, and the   *)
(* scanner's answer for every text is compared with a lexer that reads it  *)
(* the way a shell does.  A character is a symbol: "p" stands for the word *)
(* phasegent, "E" and "w" for other word characters, "A" for an assignment *)
(* word, "T" / "V" / "C" for timeout, env and command, "-o" / "-k" for an  *)
(* option without and with a value, "-" for an unsupported option, ";" for *)
(* any separator of one segment from the next.                             *)
(***************************************************************************)
EXTENDS Naturals, Sequences, FiniteSets

CONSTANTS
    Pieces,     \* fragments a command line is made of
    MaxPieces   \* bound on fragments

VARIABLES text, pieces

vars == <<text, pieces>>

Blank == {" ", "tab"}
Quotes == {"'", "\""}
Separators == {";", "nl"}
Operators == {"<<", "<<-", "<<<"}

At(t, i) == IF i \in 1..Len(t) THEN t[i] ELSE "end"

\* The first position at or after i that holds the symbol, Len(t) + 1 if none does.
Find(t, i, c) ==
    LET at == {j \in i..Len(t) : t[j] = c}
    IN  IF at = {} THEN Len(t) + 1 ELSE CHOOSE j \in at : \A k \in at : j <= k

-----------------------------------------------------------------------------
(* Quotes and here-documents. *)

\* skipQuoted: the position after the closing quote, 0 when there is none.
SkipQuoted(t, start) ==
    LET f[i \in start..(Len(t) + 2)] ==
          IF i > Len(t) THEN 0
          ELSE IF i > start /\ t[start] = "\"" /\ t[i] = "\\" THEN f[i + 2]
          ELSE IF i > start /\ t[i] = t[start] THEN i + 1
          ELSE f[i + 1]
    IN  f[start]

\* isCommentStart.
CommentStart(t, i) == t[i] = "#" /\ (i = 1 \/ t[i - 1] \in Blank \cup Separators)

\* isHeredocWordTerminator.
WordEnds == {"end", "#"} \cup Blank \cup Separators \cup Operators

\* parseHeredocDelimiter: the word with its quotes removed; an unterminated quote, a
\* quote that crosses the line, or an empty word is no delimiter at all.
Delimiter(t, pos) ==
    LET bad == [ok |-> FALSE, value |-> <<>>, end |-> pos]
        dq[i \in 1..(Len(t) + 2)] ==
          IF At(t, i) \in {"end", "nl"} THEN bad
          ELSE IF t[i] = "\"" THEN [ok |-> TRUE, value |-> <<>>, end |-> i + 1]
          ELSE LET step == IF t[i] = "\\" /\ At(t, i + 1) \notin {"end", "nl"} THEN 1 ELSE 0
                   rest == dq[i + 1 + step]
               IN  [rest EXCEPT !.value = <<t[i + step]>> \o @]
        word[i \in 1..(Len(t) + 2)] ==
          IF At(t, i) \in WordEnds THEN [ok |-> TRUE, value |-> <<>>, end |-> i]
          ELSE IF t[i] = "'" THEN
                 LET close == Find(t, i + 1, "'") IN
                 IF close > Len(t) \/ Find(t, i + 1, "nl") < close THEN bad
                 ELSE [word[close + 1] EXCEPT !.value = SubSeq(t, i + 1, close - 1) \o @]
          ELSE IF t[i] = "\"" THEN
                 IF ~dq[i + 1].ok THEN bad
                 ELSE [word[dq[i + 1].end] EXCEPT !.value = dq[i + 1].value \o @]
          ELSE IF t[i] = "\\" THEN
                 IF At(t, i + 1) \in {"end", "nl"} THEN bad
                 ELSE [word[i + 2] EXCEPT !.value = <<t[i + 1]>> \o @]
          ELSE [word[i + 1] EXCEPT !.value = <<t[i]>> \o @]
        read(w) == IF w.ok /\ w.value # <<>> THEN w ELSE bad
    IN  read(word[pos])

\* terminatorLineMatches.
TerminatorMatches(t, start, decl) ==
    LET end == Find(t, start, "nl")
        skip == IF decl.strip THEN CHOOSE k \in start..end :
                     (\A j \in start..(k - 1) : t[j] = "tab") /\ At(t, k) # "tab" ELSE start
    IN  /\ decl.strip \/ At(t, start) \notin Blank
        /\ SubSeq(t, skip, end - 1) = decl.delimiter

\* consumePendingBodies: the opaque positions from the newline on, and where the
\* scan continues.  The newline of the last terminator still separates commands.
ConsumeBodies(t, newline, pending) ==
    LET n == Len(t)
        starts(from) == {from} \cup {i + 1 : i \in {j \in from..n : t[j] = "nl"}}
        f[k \in 0..Len(pending)] ==
          IF k = 0 THEN [next |-> newline, opaque |-> {}, open |-> FALSE]
          ELSE LET before == f[k - 1]
                   from == IF k = 1 THEN newline + 1 ELSE before.next
                   hits == {s \in starts(from) : s <= n /\ TerminatorMatches(t, s, pending[k])}
                   hit == CHOOSE s \in hits : \A u \in hits : s <= u
                   end == Find(t, hit, "nl")
               IN  IF before.open THEN before
                   ELSE IF hits = {} THEN [next |-> n + 1, open |-> TRUE,
                                           opaque |-> before.opaque \cup before.next..n]
                   ELSE [next |-> IF end > n THEN n + 1 ELSE end + 1, open |-> FALSE,
                         opaque |-> before.opaque \cup before.next..
                                      (IF k = Len(pending) THEN end - 1
                                       ELSE IF end > n THEN n ELSE end)]
    IN  f[Len(pending)]

\* One step of scanHeredocRanges.
ScanStep(t, s) ==
    LET c == t[s.i]
        go(k) == [s EXCEPT !.i = s.i + k]
        past(r, bodies) == [r EXCEPT !.i = bodies.next, !.opaque = @ \cup bodies.opaque,
                                     !.pending = <<>>]
        consume(r) == past(r, ConsumeBodies(t, s.i, s.pending))
        word == CHOOSE k \in (s.i + 1)..(Len(t) + 1) :
                   (\A j \in (s.i + 1)..(k - 1) : t[j] \in Blank) /\ At(t, k) \notin Blank
        declare(start, decl) ==
          IF ~decl.ok THEN go(1)
          ELSE [s EXCEPT !.i = decl.end, !.opaque = @ \cup start..(decl.end - 1),
                         !.pending = Append(@, [delimiter |-> decl.value, strip |-> c = "<<-"])]
    IN  CASE s.mode = "comment" ->
               IF c # "nl" THEN go(1)
               ELSE IF s.pending # <<>> THEN consume([s EXCEPT !.mode = "code"])
               ELSE [go(1) EXCEPT !.mode = "code"]
          [] s.mode = "'" -> IF c = "'" THEN [go(1) EXCEPT !.mode = "code"] ELSE go(1)
          [] s.mode = "\"" ->
               IF c = "\\" /\ s.i < Len(t) THEN go(2)
               ELSE IF c = "\"" THEN [go(1) EXCEPT !.mode = "code"] ELSE go(1)
          [] s.mode = "code" ->
               IF c = "\\" /\ s.i < Len(t) THEN go(2)
               ELSE IF c \in Quotes THEN [go(1) EXCEPT !.mode = c]
               ELSE IF CommentStart(t, s.i) THEN [go(1) EXCEPT !.mode = "comment"]
               ELSE IF c \in {"<<", "<<-"} THEN declare(word, Delimiter(t, word))
               ELSE IF c = "nl" /\ s.pending # <<>> THEN consume(s)
               ELSE go(1)

\* scanHeredocRanges: every opaque position of a text.
HeredocRanges(t) ==
    LET f[k \in 0..Len(t)] ==
          IF k = 0 THEN [i |-> 1, mode |-> "code", pending |-> <<>>, opaque |-> {}]
          ELSE LET s == f[k - 1] IN IF s.i > Len(t) THEN s ELSE ScanStep(t, s)
    IN  f[Len(t)].opaque

-----------------------------------------------------------------------------
(* Code, segments and invocations. *)

\* maskQuoted, transformCodeOnly: the positions that are neither quoted nor escaped
\* nor part of a here-document; an unterminated quote owns the rest.
Mask(t) ==
    LET opaque == HeredocRanges(t)
        f[i \in 1..(Len(t) + 2)] ==
          IF i > Len(t) THEN [code |-> {}, balanced |-> TRUE]
          ELSE IF i \in opaque THEN f[i + 1]
          ELSE IF t[i] \in Quotes THEN
                 IF SkipQuoted(t, i) = 0 THEN [code |-> {}, balanced |-> FALSE]
                 ELSE f[SkipQuoted(t, i)]
          ELSE IF t[i] = "\\" THEN f[i + 2]
          ELSE [f[i + 1] EXCEPT !.code = @ \cup {i}]
    IN  f[1]

\* shellSegments: the stretches between the separators that are code.
ShellSegments(t) ==
    LET between(cuts) ==
          {<<a + 1, b - 1>> : <<a, b>> \in
             {<<a, b>> \in cuts \X cuts : a + 1 < b /\ \A c \in cuts : ~(a < c /\ c < b)}}
    IN  between({0, Len(t) + 1} \cup {i \in Mask(t).code : t[i] \in Separators})

\* nextShellToken over the masked segment: where the next word starts and ends.
Visible(t, code, i) == i \in code /\ t[i] \notin Blank
TokenAt(t, code, pos) ==
    LET starts == {i \in pos..Len(t) : Visible(t, code, i)}
        start == CHOOSE i \in starts : \A j \in starts : i <= j
        end == CHOOSE e \in start..(Len(t) + 1) :
                  (\A j \in start..(e - 1) : Visible(t, code, j)) /\ ~Visible(t, code, e)
    IN  IF starts = {} THEN [start |-> 0, end |-> 0, word |-> "end"]
        ELSE [start |-> start, end |-> end,
              word |-> IF end = start + 1 THEN t[start] ELSE "w"]

\* parseTimeoutWrapper: options, the duration, then the command word; 0 otherwise.
TimeoutWrapper(t, code, pos) ==
    LET f[i \in 1..(Len(t) + 1), seen \in BOOLEAN] ==
          LET token == TokenAt(t, code, i) IN
          CASE token.start = 0 -> 0
            [] token.word = "--" -> IF seen THEN token.end ELSE 0
            [] token.word = "-k" -> LET value == TokenAt(t, code, token.end) IN
                                    IF value.start = 0 THEN 0 ELSE f[value.end, seen]
            [] token.word = "-o" -> f[token.end, seen]
            [] token.word = "-" -> 0
            [] OTHER -> IF seen THEN token.start ELSE f[token.end, TRUE]
    IN  f[pos, FALSE]

\* parseEnvWrapper: options and assignments, then the command word.
EnvWrapper(t, code, pos) ==
    LET f[i \in 1..(Len(t) + 1)] ==
          LET token == TokenAt(t, code, i) IN
          CASE token.start = 0 -> 0
            [] token.word = "-k" -> LET value == TokenAt(t, code, token.end) IN
                                    IF value.start = 0 THEN 0 ELSE f[value.end]
            [] token.word \in {"-o", "A"} -> f[token.end]
            [] token.word \in {"-", "--"} -> 0
            [] OTHER -> token.start
    IN  f[pos]

\* parseWrappers: where the command word starts behind assignments and transparent
\* wrappers, 0 for a shape it does not know.
Wrappers(t, code, pos) ==
    LET f[i \in 1..(Len(t) + 1)] ==
          LET token == TokenAt(t, code, i)
              beyond(j) == IF j = 0 THEN 0 ELSE f[j]
          IN  CASE token.start = 0 -> 0
                [] token.word = "A" -> f[token.end]
                [] token.word = "T" -> beyond(TimeoutWrapper(t, code, token.end))
                [] token.word = "V" -> beyond(EnvWrapper(t, code, token.end))
                [] token.word = "C" ->
                     IF TokenAt(t, code, token.end).word \in {"end", "-", "-o", "-k", "--"} THEN 0
                     ELSE f[token.end]
                [] OTHER -> token.start
    IN  f[pos]

\* phasegentInvocation: a whole command word, followed by white space or nothing.
Invocation(t) ==
    LET whole(at) ==
          IF at = 0 THEN 0
          ELSE IF t[at] = "p" /\ At(t, at + 1) \in Blank \cup {"nl", "end"} THEN at ELSE 0
    IN  IF t = <<>> THEN 0 ELSE whole(Wrappers(t, Mask(t).code, 1))

\* The positions of a command line where an invocation is rewritten.
Invocations(t) ==
    LET found == {<<s[1], Invocation(SubSeq(t, s[1], s[2]))>> : s \in ShellSegments(t)}
    IN  {f[1] + f[2] - 1 : f \in {g \in found : g[2] # 0}}

-----------------------------------------------------------------------------
(* What a shell reads, by rules of its own: nothing here is the scanner's.   *)

\* The line a here-document is compared by: an unquoted one joins a line that ends in
\* a backslash to the next.
LogicalLine(t, from, quoted) ==
    LET f[i \in from..(Len(t) + 2)] ==
          IF At(t, i) \in {"end", "nl"} THEN <<>>
          ELSE IF ~quoted /\ t[i] = "\\" /\ At(t, i + 1) = "nl" THEN f[i + 2]
          ELSE IF ~quoted /\ t[i] = "\\" /\ i < Len(t) THEN <<t[i], t[i + 1]>> \o f[i + 2]
          ELSE <<t[i]>> \o f[i + 1]
    IN  f[from]
Ends(t, from, doc) ==
    LET line == LogicalLine(t, from, doc.quoted)
        tabs == {k \in 1..Len(line) : \A j \in 1..k : line[j] = "tab"}
    IN  doc.delimiter = IF doc.strip THEN SubSeq(line, 1 + Cardinality(tabs), Len(line)) ELSE line

NoDoc == [delimiter |-> <<>>, strip |-> FALSE, quoted |-> FALSE]

\* A document the scanner is known to read otherwise: its delimiter holds # or a
\* backslash (which the shell keeps between double quotes), is empty, begins with a
\* blank or spans lines; or a line of it or of its body is joined to the next.
OddDelimiter(doc) ==
    \/ doc.delimiter = <<>> \/ doc.delimiter[1] \in Blank
    \/ \E i \in DOMAIN doc.delimiter : doc.delimiter[i] \in {"#", "nl", "\\"}

\* One character of code outside every quote: a delimiter is awaited, read and ended
\* by the first character that is no part of a word; # begins a comment only where no
\* word is being read.
Coded(s, c) ==
    LET as(class, r) == [r EXCEPT !.class = Append(s.class, class)]
        doc == s.doc
        ended == [s EXCEPT !.read = "no", !.docs = Append(@, doc), !.doc = NoDoc,
                           !.odd = @ \/ OddDelimiter(doc)]
        plain(r) ==
          CASE c = "nl" -> IF r.docs # <<>>
                           THEN as("body", [r EXCEPT !.mode = "body", !.bol = TRUE])
                           ELSE as("code", [r EXCEPT !.word = FALSE])
            [] c \in Quotes -> as("data", [r EXCEPT !.mode = c, !.word = TRUE])
            [] c = "\\" -> as("data", [r EXCEPT !.esc = TRUE])
            [] c = "#" /\ ~r.word -> as("comment", [r EXCEPT !.mode = "comment"])
            [] c \in {"<<", "<<-"} ->
                 as("code", [r EXCEPT !.read = "await", !.word = FALSE, !.doc.strip = c = "<<-"])
            [] OTHER -> as("code", [r EXCEPT !.word = c \notin Blank \cup Separators \cup Operators])
        breaks == c \in Blank \cup Separators \cup Operators
    IN  CASE s.read = "await" /\ c \in Blank -> as("word", s)
          [] s.read = "await" /\ (breaks \/ c = "#") -> as("void", [s EXCEPT !.mode = "error"])
          [] s.read # "no" /\ ~breaks ->
               as("word", [s EXCEPT !.read = "word", !.word = TRUE,
                     !.mode = IF c \in Quotes THEN c ELSE @, !.esc = c = "\\",
                     !.doc.quoted = @ \/ c \in Quotes,
                     !.doc.delimiter = IF c \in Quotes \cup {"\\"} THEN @ ELSE Append(@, c)])
          [] s.read = "word" -> plain(ended)
          [] OTHER -> plain(s)

\* One character between quotes, or after a backslash outside them.  Between double
\* quotes a backslash stays where it protects nothing.
Quoted(s, c) ==
    LET class == IF s.read = "no" THEN "data" ELSE "word"
        keep(r, chars) == IF s.read = "no" THEN r
                          ELSE [r EXCEPT !.doc.delimiter = @ \o chars]
        joins(r) == IF s.read = "no" THEN r
                    ELSE [r EXCEPT !.odd = TRUE,
                             !.read = IF s.doc = [NoDoc EXCEPT !.strip = s.doc.strip]
                                      THEN "await" ELSE "word"]
        next == [s EXCEPT !.class = Append(@, class), !.esc = FALSE]
    IN  IF s.esc /\ c = "nl" THEN joins(next)
        ELSE IF s.esc
        THEN keep([next EXCEPT !.word = TRUE, !.doc.quoted = s.read # "no"],
                  IF s.mode = "code" \/ c \in {"\"", "\\"} THEN <<c>> ELSE <<"\\", c>>)
        ELSE IF c = s.mode THEN [next EXCEPT !.mode = "code"]
        ELSE IF s.mode = "\"" /\ c = "\\" THEN [next EXCEPT !.esc = TRUE]
        ELSE keep(next, <<c>>)

\* One character of a here-document; the newline after the last one separates again.
InBody(t, s, i) ==
    LET c == t[i]
        doc == s.docs[1]
        closing == s.closing \/ (s.bol /\ Ends(t, i, doc))
        esc == ~doc.quoted /\ c = "\\" /\ ~s.esc
        as(class, r) == [r EXCEPT !.class = Append(s.class, class), !.esc = esc,
                                  !.odd = @ \/ (c = "nl" /\ s.esc)]
    IN  IF c # "nl" \/ s.esc THEN as("body", [s EXCEPT !.bol = FALSE, !.closing = closing])
        ELSE IF ~closing THEN as("body", [s EXCEPT !.bol = TRUE])
        ELSE LET left == Tail(s.docs)
                 r == [s EXCEPT !.docs = left, !.closing = FALSE, !.bol = TRUE]
             IN  IF left # <<>> THEN as("body", r)
                 ELSE as("code", [r EXCEPT !.mode = "code", !.word = FALSE])

\* The class of every position: code, a comment, quoted or escaped data, a delimiter
\* word, a here-document's body, or void after a here-document without a delimiter.
Shell(t) ==
    LET f[i \in 0..Len(t)] ==
          IF i = 0 THEN [mode |-> "code", esc |-> FALSE, word |-> FALSE, read |-> "no",
                         doc |-> NoDoc, docs |-> <<>>, bol |-> FALSE, closing |-> FALSE,
                         odd |-> FALSE, class |-> <<>>]
          ELSE LET s == f[i - 1] IN
               CASE s.mode = "error" -> [s EXCEPT !.class = Append(@, "void")]
                 [] s.mode = "body" -> InBody(t, s, i)
                 [] s.mode = "comment" /\ t[i] # "nl" -> [s EXCEPT !.class = Append(@, "comment")]
                 [] s.mode \in Quotes \/ s.esc -> Quoted(s, t[i])
                 [] OTHER -> Coded([s EXCEPT !.mode = "code"], t[i])
    IN  f[Len(t)]

\* Comments without quotes, escapes and separators, which the scanner does not know.
PlainComments(t) ==
    \A i \in 1..Len(t) : Shell(t).class[i] = "comment" => t[i] \notin Quotes \cup {"\\", ";"}

\* Here-documents whose delimiters and bodies hold none of what is read differently.
PlainHeredocs(t) ==
    LET s == Shell(t) IN ~s.odd /\ (s.read = "word" => ~OddDelimiter(s.doc))

\* A text a shell would run as it stands: no quote and no here-document left open.
Terminated(t) ==
    LET s == Shell(t) IN
    /\ s.mode \in {"code", "comment"} \/ (s.mode = "body" /\ s.closing /\ Len(s.docs) = 1)
    /\ s.mode # "body" => s.docs = <<>>
    /\ s.read = "no" /\ ~s.esc

\* One transparent lead of a command: an assignment, `command`, `env` with options and
\* assignments, or `timeout` with options and a duration.
Option(words, k) ==
    \/ words[k] = "-o"
    \/ /\ words[k] = "-k" /\ words[k + 1] = "w"
    \/ /\ words[k] = "w" /\ words[k - 1] = "-k"
Lead(words) ==
    LET n == Len(words) IN
    \/ words \in {<<"A">>, <<"C">>}
    \/ /\ words[1] = "V"
       /\ \A k \in 2..n : words[k] \in {"-o", "A"}
    \/ /\ words[1] = "T" /\ n > 1
       /\ words[n] = "w" /\ words[n - 1] # "-k"
       /\ \A k \in 2..(n - 1) : Option(words, k)

\* The word p as the command word: nothing before it in its command but such leads.
Leads(words) ==
    LET f[k \in 0..Len(words)] ==
            \/ k = 0
            \/ \E j \in 0..(k - 1) : f[j] /\ Lead(SubSeq(words, j + 1, k))
    IN  f[Len(words)]
CommandWord(t, class, i) ==
    /\ t[i] = "p" /\ class[i] = "code"
    /\ At(t, i + 1) \in Blank \cup Separators \cup {"end"}
    /\ LET cut == {0} \cup {j \in 1..(i - 1) : class[j] = "code" /\ t[j] \in Separators}
       IN  \E from \in cut :
             /\ \A k \in cut : k <= from
             /\ \A j \in (from + 1)..(i - 1) :
                   class[j] = "code" /\ (t[j] \in Blank \/ t[j + 1] \in Blank)
             /\ Leads(SelectSeq(SubSeq(t, from + 1, i - 1), LAMBDA c : c \notin Blank))

-----------------------------------------------------------------------------
Init == text = <<>> /\ pieces = 0

Type(piece) ==
    /\ pieces < MaxPieces
    /\ pieces' = pieces + 1
    /\ text' = text \o piece

Next == \E piece \in Pieces : Type(piece)

Spec == Init /\ [][Next]_vars

-----------------------------------------------------------------------------
(* Properties. *)

\* No rewrite lands in data: no invocation the scanner finds is, for the shell, inside a
\* quoted value, an escape or a here-document, as long as comments hold no quote and
\* delimiters nothing that is known to be read differently.
RewritesOnlyCode ==
    PlainComments(text) /\ PlainHeredocs(text) =>
        \A i \in Invocations(text) : Shell(text).class[i] \in {"code", "comment", "void"}

\* No invocation is missed: whenever phasegent is the command word of a complete text,
\* behind assignments, env, timeout and command in any order, the scanner finds it.
EveryCommandFound ==
    PlainComments(text) /\ PlainHeredocs(text) /\ Terminated(text) =>
        \A i \in 1..Len(text) : CommandWord(text, Shell(text).class, i) => i \in Invocations(text)

=============================================================================
