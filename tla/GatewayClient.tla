---------------------------- MODULE GatewayClient ----------------------------
(***************************************************************************)
(* The Razorpay client (packages/razorpay/client.py) in live mode: what one *)
(* call of it sends to the gateway, and what it makes of the answers.      *)
(*                                                                         *)
(* A request may be served late, after the client has given it up, and its *)
(* answer is looked at only while the client waits for that very request.  *)
(***************************************************************************)
EXTENDS Naturals, FiniteSets

CONSTANTS Calls,       \* calls of the client
          EndpointOf,  \* what each asks for, one of Endpoints
          MaxRetries   \* max_retries: 3

Endpoint(method, path, isIdempotent) ==
  [method |-> method, path |-> path, isIdempotent |-> isIdempotent]

create_order == Endpoint("POST", "order", FALSE)
fetch_order == Endpoint("GET", "order", TRUE)
fetch_payment == Endpoint("GET", "payment", TRUE)
capture_payment == Endpoint("POST", "capture", FALSE)
create_refund == Endpoint("POST", "refund", FALSE)
fetch_refund == Endpoint("GET", "refund", TRUE)
create_payment_link == Endpoint("POST", "link", FALSE)
fetch_payment_link == Endpoint("GET", "link", TRUE)
cancel_payment_link == Endpoint("POST", "cancel", TRUE)

Endpoints == {create_order, fetch_order, fetch_payment, capture_payment, create_refund,
              fetch_refund, create_payment_link, fetch_payment_link, cancel_payment_link}

ClientConstants ==
  /\ EndpointOf \in [Calls -> Endpoints]
  /\ MaxRetries \in Nat \ {0}

ASSUME ClientAssumption == ClientConstants

VARIABLES job,      \* job[c]: the attempt of call c and where it stands
          transit,  \* requests the gateway has yet to serve
          answers,  \* what it answered
          carried   \* carried[c]: how often it carried out call c's mutation

vars == <<job, transit, answers, carried>>

(* The gateway's objects come back; a status of 429, 500, 502, 503 or 504   *)
(* with an error body; any other error body; something that is not JSON.   *)
Bodies == {"object", "transient", "error", "garbage"}
Requests == Calls \X (1..MaxRetries)
Answers == [request : Requests, body : Bodies]
Job == [at : {"idle", "waiting", "backoff", "returned", "raised"}, attempt : 0..MaxRetries]

TypeOK ==
  /\ job \in [Calls -> Job]
  /\ transit \subseteq Requests
  /\ answers \subseteq Answers
  /\ carried \in [Calls -> Nat]

Init ==
  /\ job = [c \in Calls |-> [at |-> "idle", attempt |-> 0]]
  /\ transit = {}
  /\ answers = {}
  /\ carried = [c \in Calls |-> 0]
------------------------------------------------------------------------------
Mutates(c) == EndpointOf[c].method = "POST"

(* Mutation: every request is repeated. *)
AttemptsAlways(c) == MaxRetries

Attempts(c) == IF EndpointOf[c].isIdempotent THEN MaxRetries ELSE 1

Current(c) == <<c, job[c].attempt>>

Send(c) ==
  /\ job' = [job EXCEPT ![c] = [at |-> "waiting", attempt |-> job[c].attempt + 1]]
  /\ transit' = transit \cup {<<c, job[c].attempt + 1>>}
  /\ UNCHANGED <<answers, carried>>

Ask(c) == job[c].at = "idle" /\ Send(c)

(* asyncio.sleep(backoff) is over. *)
Resume(c) == job[c].at = "backoff" /\ Send(c)

(* The gateway serves a request.  Behind a transient status or a body that  *)
(* is not the gateway's own, the mutation may have been carried out or not. *)
Serve(r, body) ==
  /\ r \in transit
  /\ transit' = transit \ {r}
  /\ answers' = answers \cup {[request |-> r, body |-> body]}
  /\ \/ /\ Mutates(r[1]) /\ body # "error"
        /\ carried' = [carried EXCEPT ![r[1]] = @ + 1]
     \/ /\ Mutates(r[1]) => body # "object"
        /\ UNCHANGED carried
  /\ UNCHANGED job

End(c, at) ==
  /\ job' = [job EXCEPT ![c].at = at]
  /\ UNCHANGED <<transit, answers, carried>>

Answered(c, bodies) ==
  /\ job[c].at = "waiting"
  /\ \E a \in answers : a.request = Current(c) /\ a.body \in bodies

(* The response model, or the lookup of "id", accepts the gateway's object. *)
Parsed == {"object"}

Return(c) == Answered(c, Parsed) /\ End(c, "returned")

(* Nothing calls raise_for_status: whatever the status, the body is handed  *)
(* to the response model at once.  An error body has no id and raises, as  *)
(* does a body that is not JSON, and neither error is one that is retried. *)
RaiseOnBody(c) == Answered(c, Bodies \ Parsed) /\ End(c, "raised")

(* Mutation: the client waits on. *)
TimeOutNever(c) == FALSE

(* TimeoutException or NetworkError. *)
TimeOut(c) ==
  /\ job[c].at = "waiting"
  /\ End(c, IF job[c].attempt < Attempts(c) THEN "backoff" ELSE "raised")

Next ==
  \/ \E c \in Calls : \/ Ask(c) \/ Resume(c)
                      \/ Return(c) \/ RaiseOnBody(c) \/ TimeOut(c)
  \/ \E r \in transit : \E body \in Bodies : Serve(r, body)

Spec == Init /\ [][Next]_vars

(* The client's timeout of 15 seconds fires, and its sleeps end. *)
CallsGoOn == \A c \in Calls : WF_vars(Resume(c)) /\ WF_vars(TimeOut(c))
------------------------------------------------------------------------------
Creations == {c \in Calls : ~EndpointOf[c].isIdempotent}

PhaseOf(at) == CASE at = "idle" -> "idle"
                 [] at \in {"waiting", "backoff"} -> "asked"
                 [] at = "returned" -> "answered"
                 [] at = "raised" -> "failed"

Phase == [c \in Creations |-> PhaseOf(job[c].at)]
Effects == [c \in Creations |-> carried[c]]

Call == INSTANCE GatewayCall WITH Calls <- Creations, phase <- Phase, effects <- Effects

(* Whatever is lost, late or garbled, a mutation that is not idempotent is  *)
(* carried out at most once, and an object is handed to the pipeline only   *)
(* when the gateway has created it: "Blind retries on network timeouts are  *)
(* strictly avoided" (client.py, _request_with_retry).                     *)
ImplementsCall == Call!Spec

(* A call of the client ends, though the gateway may never answer           *)
(* (client.py, the timeout and the bounded loop).                          *)
EveryCallEnds ==
  \A c \in Calls : job[c].at = "waiting" ~> job[c].at \in {"returned", "raised"}
==============================================================================
