--------------------------- MODULE HealthRegistry ---------------------------
(***************************************************************************)
(* What the API remembers of one service it depends on, and the kinds of   *)
(* error that may change its mind.  The registry holds one such record for *)
(* each component; every gateway reports into it.  The last error of a     *)
(* component is only shown and is left out.                                *)
(***************************************************************************)
EXTENDS Naturals

CONSTANT NoOutage     \* downSince of a healthy component

\* What sanitizing makes of an error of a service.  "credits" is what the
\* paymaster's own check reports.
Kinds == {"cloudflare_tunnel", "html_response", "network", "timeout", "credits", "unknown"}

INFRA_FAILURE_KINDS == {"cloudflare_tunnel", "html_response", "network", "timeout"}

IsInfraFailure(kind) == kind \in INFRA_FAILURE_KINDS

\* Words of the message tell timeouts and the network.
Sanitized == {"timeout", "network", "unknown"}

ComponentHealth(times) == [status : {"healthy", "down"}, downSince : times \cup {NoOutage}]

\* The registry is built before any service has been heard of.
Declared == [status |-> "healthy", downSince |-> NoOutage]

ReportHealthy(current) == Declared

\* An outage that goes on keeps its beginning.
ReportDown(current, time) ==
  [status |-> "down", downSince |-> IF current.status = "down" THEN current.downSince ELSE time]

\* Faulty: compared after the record has been changed.
IsTransitionAfterwards(previous, next) == next.status # next.status

\* Only a change of status is told to the listener.
IsTransition(previous, next) == previous.status # next.status
=============================================================================
