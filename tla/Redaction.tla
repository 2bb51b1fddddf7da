----------------------------- MODULE Redaction -----------------------------
(***************************************************************************)
(* sanitize_report_text (src/report.cpp): the scan that every text of a    *)
(* support summary or of a report goes through, word by word.  A word is   *)
(* the set of the traits the scan tests it for; for a word that is         *)
(* redacted a mark is written instead.                                     *)
(***************************************************************************)
EXTENDS Naturals, Sequences

CONSTANT MaxTokens         \* bound: words of a text

VARIABLES text,            \* the words of the text read so far
          output,          \* what the scan has written for each of them
          redact_next_token

redactionVars == <<text, output, redact_next_token>>

\* A keyword with its separator and no value ("senha:") has both of the first
\* two traits; one with its value ("senha:1234") has only the second.
\* A keyword without value is neither a path nor nine digits long.
Tokens ==
    {{}, {"keyword"}, {"keyword", "inline"}} \cup
    (SUBSET {"inline", "path", "identifier"})

Mark == [redact |-> {"[redigido]"}, inline |-> {"[segredo-redigido]"},
         path |-> {"[caminho-local]"}, identifier |-> {"[identificador]"}]

Init == text = <<>> /\ output = <<>> /\ redact_next_token = FALSE

\* Mutant of Written: a keyword is recognised even in the place of a value.
WrittenKeywordFirst(next, token) ==
    IF token = {"keyword"} THEN token
    ELSE IF next THEN Mark.redact
    ELSE IF "inline" \in token THEN Mark.inline
    ELSE IF "path" \in token THEN Mark.path
    ELSE IF "identifier" \in token THEN Mark.identifier
    ELSE token

\* What the scan writes for a token; next is redact_next_token before it.
Written(next, token) ==
    IF next THEN Mark.redact
    ELSE IF "inline" \in token THEN Mark.inline
    ELSE IF "keyword" \in token THEN token
    ELSE IF "path" \in token THEN Mark.path
    ELSE IF "identifier" \in token THEN Mark.identifier
    ELSE token

\* One round of the loop.
Scan(token) ==
    /\ Len(text) < MaxTokens
    /\ text' = Append(text, token)
    /\ output' = Append(output, Written(redact_next_token, token))
    /\ redact_next_token' = (~redact_next_token /\ token = {"keyword"})

\* The next text, which is scanned on its own (a finding has four).
NewText ==
    /\ text # <<>>
    /\ text' = <<>> /\ output' = <<>> /\ redact_next_token' = FALSE

Next == NewText \/ \E token \in Tokens : Scan(token)

Spec == Init /\ [][Next]_redactionVars

-----------------------------------------------------------------------------
(* Properties. *)

Kept(i) == output[i] = text[i]

\* The scan takes the word after a keyword it has kept for its value.
IsValue(i) == i > 1 /\ text[i - 1] = {"keyword"} /\ Kept(i - 1)

\* What is replaced, over any number of words: those with a secret, a path or
\* nine digits of their own, and the word after a keyword the text still shows,
\* whatever it is; every other word stays readable
\* (docs/17_AUDITORIA_DE_PRIVACIDADE.md:5-9).  A keyword with its separator is
\* replaced and not kept, so this does not ask for the word after it.
ExactlyTheSensitive ==
    \A i \in 1..Len(text) :
        Kept(i) <=> ~IsValue(i) /\ text[i] \cap {"inline", "path", "identifier"} = {}

\* What docs/17_AUDITORIA_DE_PRIVACIDADE.md:9 says: the value that follows PIN,
\* senha or password is replaced, however the keyword is written.  (A keyword
\* that follows another one is left out: it is the other's value.)  The scan
\* takes "senha:" for a word with its value in it and keeps the word after it.
SubsequentValuesRedacted ==
    \A i \in 2..Len(text) :
        "keyword" \in text[i - 1] /\ (i = 2 \/ "keyword" \notin text[i - 2]) => ~Kept(i)

=============================================================================
