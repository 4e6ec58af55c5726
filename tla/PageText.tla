------------------------------- MODULE PageText -------------------------------
(***************************************************************************)
(* What becomes of a text between the page that sends it and the pages that *)
(* show it: JSON.stringify, extract_json_field, the entry user|time|text of *)
(* the room's list, json_escape, JSON.parse.                                *)
(*                                                                         *)
(* A text is a sequence of characters.  Those that some step treats on its  *)
(* own are "quote", "back" (backslash), "bar" and the control characters:   *)
(* "nl", "cr", "tab", "bs" (also form feed), and "ctl", any other that       *)
(* JSON.stringify writes as \u and four digits.                             *)
(***************************************************************************)
EXTENDS Naturals, SequencesExt

Special == [quote |-> "quote", back |-> "back", nl |-> "n", cr |-> "r", tab |-> "t"]

Escape(c) == IF c \in DOMAIN Special THEN <<"back", Special[c]>> ELSE <<c>>

\* Mutant: only quotes are escaped.
JsonEscapeQuotes(s) ==
  FlattenSeq([k \in DOMAIN s |-> IF s[k] = "quote" THEN <<"back", "quote">> ELSE <<s[k]>>])

\* json_escape; other control characters it leaves as they are.
JsonEscape(s) == FlattenSeq([k \in DOMAIN s |-> Escape(s[k])])

\* JSON.stringify in the page escapes every control character.
Unprintable == [bs |-> <<"back", "b">>, ctl |-> <<"back", "u", "0001">>]

Stringified(c) == IF c \in DOMAIN Unprintable THEN Unprintable[c] ELSE Escape(c)
Stringify(s) == FlattenSeq([k \in DOMAIN s |-> Stringified(s[k])])

Control == {"nl", "cr", "tab", "bs", "ctl"}

\* What the character c behind a backslash stands for: itself, if not in meaning.
Unescaped(meaning, c) == IF c \in DOMAIN meaning THEN meaning[c] ELSE c

\* A scan of a JSON string: what is out, whether a backslash has just been met,
\* and whether the closing quote has.
Begun == [out |-> <<>>, esc |-> FALSE, done |-> FALSE]

Scanned(meaning, st, c) ==
  IF st.done THEN st
  ELSE IF st.esc THEN [st EXCEPT !.out = Append(@, Unescaped(meaning, c)), !.esc = FALSE]
  ELSE IF c = "back" THEN [st EXCEPT !.esc = TRUE]
  ELSE IF c = "quote" THEN [st EXCEPT !.done = TRUE]
  ELSE [st EXCEPT !.out = Append(@, c)]

Scan(meaning, s) ==
  LET upTo[k \in 0..Len(s)] == IF k = 0 THEN Begun ELSE Scanned(meaning, upTo[k - 1], s[k])
  IN  upTo[Len(s)].out

\* extract_json_field: the character behind a backslash stands for itself, the
\* letters of the control characters too.
ExtractField(s) == Scan([quote |-> "quote"], s)

\* JSON.parse in the page, of what json_escape can have written.
ParseString(s) == Scan([n |-> "nl", r |-> "cr", t |-> "tab"], s)

\* A field as it is on the wire to the page.
Field(s) == JsonEscape(s) \o <<"quote">>

\* What the server takes from the frame of a text.
Received(t) == ExtractField(Stringify(t) \o <<"quote">>)

Entry(user, text) == user \o <<"bar", "12:00:00", "bar">> \o text

\* The two ends of line.substr around the first two bars.
Bars(line) == {k \in DOMAIN line : line[k] = "bar"}
First(S) == CHOOSE k \in S : \A j \in S : k <= j
EntryUser(line) == SubSeq(line, 1, First(Bars(line)) - 1)
EntryText(line) ==
  SubSeq(line, First(Bars(line) \ {First(Bars(line))}) + 1, Len(line))

\* What a page shows of a message that arrives live, and of one from the history.
LiveView(user, text) ==
  [user |-> ParseString(Field(user)), text |-> ParseString(Field(text))]
HistoryView(line) == LiveView(EntryUser(line), EntryText(line))
=============================================================================
