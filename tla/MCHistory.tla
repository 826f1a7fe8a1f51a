----------------------------- MODULE MCHistory -----------------------------
(* Instances of SessionHistory.  Every Telegram user is called "user" and    *)
(* has a chat of his own, so that one session serves several chats; the two  *)
(* senders of a tical-chat have a session each and share its only chat.      *)
EXTENDS SessionHistory, TLC

CONSTANTS telegram, user, webUser, chat1, chat2, ticalChat

MCTelegram == {<<telegram, chat1>>, <<telegram, chat2>>}
MCBoth == MCTelegram \cup {<<user, ticalChat>>, <<webUser, ticalChat>>}
MCOneChat == {<<telegram, chat1>>}

\* No definition tells the senders of the tical-chat apart, nor the Telegram chats.
Symmetry == {p @@ q : p \in Permutations({user, webUser}),
                      q \in Permutations({chat1, chat2})}
============================================================================
