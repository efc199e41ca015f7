----------------------------- MODULE MCTelegram -----------------------------
(***************************************************************************)
(* Two chats, so that two locations may come from one chat or from both.   *)
(***************************************************************************)
EXTENDS TelegramBot
=============================================================================
