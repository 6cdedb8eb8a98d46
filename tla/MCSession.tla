----------------------------- MODULE MCSession -----------------------------
(* The liveness of signing in, and the instance TLC checks.                *)
EXTENDS Session

-----------------------------------------------------------------------------
(* Properties.                                                             *)

(* auth/device_flow.go, PollForToken: every command that was started ends, *)
(* also a login the user never confirms while the provider keeps answering *)
(* authorization_pending or slow_down.                                     *)
CommandsEnd == \A p \in Proc : []<>(pc[p] = "idle")

(* auth/readiness.go, run: if the provider ends up answering for good and  *)
(* the server stays up, /readyz ends up saying ready for good, however     *)
(* many attempts failed before.                                            *)
EventuallyOpen == <>[](up /\ server # "down") => <>[]Ready

-----------------------------------------------------------------------------
(* The instance.                                                           *)

idpURL == [scheme |-> "https", host |-> "idp"]

Setup(dev, client, issuer, endpoint) ==
  [dev |-> dev, client |-> client, issuer |-> issuer, device |-> endpoint, token |-> endpoint]

\* As deployed; dev mode without and with an issuer; a server that refuses to
\* start; an issuer and an endpoint that the CLI does not accept.
MCConfig ==
  {Setup(FALSE, TRUE, idpURL, idpURL),
   Setup(TRUE, FALSE, NoURL, NoURL),
   Setup(TRUE, TRUE, [scheme |-> "http", host |-> "localhost"], [scheme |-> "http", host |-> "localhost"]),
   Setup(FALSE, FALSE, idpURL, idpURL),
   Setup(FALSE, TRUE, [scheme |-> "http", host |-> "idp"], idpURL),
   Setup(FALSE, TRUE, idpURL, [scheme |-> "https", host |-> "other"])}

MCProvider ==
  {[gives |-> "none", stated |-> FALSE], [gives |-> "static", stated |-> FALSE],
   [gives |-> "rotating", stated |-> TRUE], [gives |-> "revoking", stated |-> TRUE]}

\* Failures of the server and of the provider are explored with one process;
\* two processes, of which one logs in, against a server and a provider that
\* stay up and tokens that serve once, the case in which they can collide.
MCSetting ==
  [config : MCConfig, provider : MCProvider,
   scope : {[active |-> {"p"}, mayLogin |-> {"p"}, faults |-> TRUE]}]
  \cup [config : {Setup(FALSE, TRUE, idpURL, idpURL)},
        provider : {[gives |-> "revoking", stated |-> TRUE]},
        scope : {[active |-> {"p", "q"}, mayLogin |-> {"p"}, faults |-> FALSE]}]

=============================================================================
