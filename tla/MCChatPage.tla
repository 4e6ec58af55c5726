------------------------------ MODULE MCChatPage ------------------------------
(* One tab, two tokens, one room beside general. *)
EXTENDS ChatPage

MCNames == {<<"a", "back">>}
MCTexts == {<<"quote", "bar", "back">>}

\* Of a control character the server keeps the letter behind the backslash.
ASSUME ControlsReceived ==
  Received(<<"a", "tab", "cr", "nl", "bs", "ctl", "a">>) = <<"a", "t", "r", "n", "b", "u", "0001", "a">>

\* The history takes what is behind the first bar of a name for the time.
ASSUME BarredName ==
  HistoryView(Entry(<<"a", "bar", "b">>, <<"quote">>)) =
    [user |-> <<"a">>, text |-> <<"12:00:00", "bar", "quote">>]
=============================================================================
