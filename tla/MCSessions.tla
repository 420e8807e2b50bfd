----------------------------- MODULE MCSessions -----------------------------
(* Two clients: the first of the service, which may stop reading, and one  *)
(* of the service or of the publisher.                                     *)
EXTENDS Sessions

MCUri == <<{"service"}, {"publisher", "service"}>>
MCStalling == {1}

=============================================================================
