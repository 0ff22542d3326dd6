--------------------------- MODULE ConnResponses ----------------------------
(* Conn implements Responses: the channels of a context as processMessages, the
   readers, the timers and the callers leave them. *)
EXTENDS Conn

ResponsesState ==
    [id \in IDs |-> IF id \in respClosed THEN "closed"
                    ELSE IF id \in messageContexts THEN "open" ELSE "new"]

SendingTo == IF pm = "sending" THEN {out.id} ELSE {}

Contexts == INSTANCE Responses WITH responses <- ResponsesState, sending <- SendingTo

(* Whatever the order of answers, timeouts, failed writes, finished operations
   and the cleanup of a closing connection: the responses channel of a context
   is registered at most once, is sent to only while it is not closed, is
   closed at most once and after the last send, and stays closed; its done
   channel is closed at most once. *)
ImplementsResponses == Contexts!Spec
=============================================================================
