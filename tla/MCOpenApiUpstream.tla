----------------------------- MODULE MCOpenApiUpstream -----------------------------
(* Three requests, of which the first awaits no host check, the second one and the
   third two.  The first is a GET of a REST operation and the second a POST. *)
EXTENDS OpenApiUpstream

MCAwaits == [i \in Requests |-> IF i <= 3 THEN i - 1 ELSE 0]
=============================================================================
