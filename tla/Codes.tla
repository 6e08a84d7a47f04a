--------------------------------- MODULE Codes ---------------------------------
(***************************************************************************)
(* codes.rs: the code ranges that decide between trying again and giving   *)
(* up.  Pure operators; the modules that classify a code use these.        *)
(***************************************************************************)
EXTENDS Naturals

\* disconnect::MESSAGE_SIZE_LIMIT and connecting::TRANSPORT_CLOSED.
MESSAGE_SIZE_LIMIT == 3
TRANSPORT_CLOSED   == 1

\* server_error.
INTERNAL_ERROR     == 100
ALREADY_SUBSCRIBED == 105
TOKEN_EXPIRED      == 109

\* Mutant: an inclusive upper end.
ReconnectUpTo4500(code) == ~(code \in 3500 .. 4999) \/ code \in 4000 .. 4500

\* should_reconnect_on_disconnect(): the ranges are half-open in the code.
ShouldReconnectOnDisconnect(code) == ~(code \in 3500 .. 4999) \/ code \in 4000 .. 4499

\* should_resubscribe_on_unsubscribe().
ShouldResubscribeOnUnsubscribe(code) == code >= 2500

\* server_error::is_temporary().
IsTemporary(code, temporary) ==
  temporary \/ code < INTERNAL_ERROR \/ code = TOKEN_EXPIRED
===============================================================================
