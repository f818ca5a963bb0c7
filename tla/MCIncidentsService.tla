------------------------- MODULE MCIncidentsService -------------------------
(* One incidents service, one cached query.                                *)
EXTENDS IncidentsService

=============================================================================
