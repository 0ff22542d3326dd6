----------------------------- MODULE Responses ------------------------------
(***************************************************************************)
(* What a messageContext of v3/conn.go promises to the operation that holds *)
(* it, seen from its two channels: responses, on which one goroutine sends  *)
(* until it closes it, and done, which the operation closes.  Sending on a  *)
(* closed channel and closing one twice panic in Go, so no step does that.  *)
(***************************************************************************)
CONSTANT IDs        \* message ids

VARIABLES
    responses,      \* "new", "open" once the request is registered, "closed"
    sending,        \* the ids a response is being sent to: at most one
    done            \* the ids whose operation has finished

vars == <<responses, sending, done>>

Init ==
    /\ responses = [id \in IDs |-> "new"]
    /\ sending = {} /\ done = {}

Set(id, state) == responses' = [responses EXCEPT ![id] = state]

(* The request was written. *)
Register(id) ==
    /\ sending = {} /\ responses[id] = "new"
    /\ Set(id, "open")
    /\ UNCHANGED <<sending, done>>

(* A response, a timeout or the error of a request that was not written. *)
Send(id) ==
    /\ sending = {} /\ responses[id] # "closed"
    /\ sending' = {id}
    /\ UNCHANGED <<responses, done>>

(* The response was taken or given up; a last one is followed by the close. *)
Sent(id) ==
    /\ sending = {id}
    /\ sending' = {}
    /\ UNCHANGED responses \/ Set(id, "closed")
    /\ UNCHANGED done

Close(id) ==
    /\ sending = {} /\ responses[id] = "open"
    /\ Set(id, "closed")
    /\ UNCHANGED <<sending, done>>

Finish(id) ==
    /\ id \notin done
    /\ done' = done \cup {id}
    /\ UNCHANGED <<responses, sending>>

Next == \E id \in IDs : Register(id) \/ Send(id) \/ Sent(id) \/ Close(id) \/ Finish(id)

Spec == Init /\ [][Next]_vars
=============================================================================
