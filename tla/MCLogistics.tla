---------------------------- MODULE MCLogistics ----------------------------
(***************************************************************************)
(* A small instance of Logistics: a site, a van without a label, two boxes *)
(* and a stock lot.                                                        *)
(***************************************************************************)
EXTENDS Logistics

MCNodes == {"site", "van", "b1", "b2"}

MCLots == {"lot"}

MCKindOf == [site |-> "storage_area", van |-> "vehicle", b1 |-> "box", b2 |-> "box"]

MCLabelled == {"site", "b1", "b2", "lot"}

\* A movement that states nothing but its type, subject and destination.
To(type, subject, destination) ==
  [type |-> type, subject |-> subject, source |-> None, destination |-> destination,
   recipient |-> None, quantity |-> None, condition |-> "good", manifested |-> FALSE]

MCMovements ==
  {To("receive", "b1", "site"), To("receive", "b2", "b1"),
   [To("load", "b1", "van") EXCEPT !.manifested = TRUE, !.source = "site"],
   [To("return", "b1", None) EXCEPT !.recipient = "party"]}

MCScans ==
  {To("receive", "b1", "b2"), To("move", "b1", "site"), To("move", "b1", "van"),
   [To("count", "lot", None) EXCEPT !.quantity = 2], To("handover", "b1", None)}

MCRoutes ==
  {[kind |-> "inbound", source |-> None, vehicle |-> None, destination |-> "site"],
   [kind |-> "transfer", source |-> "site", vehicle |-> "van", destination |-> "site"]}

MCLines ==
  {[subject |-> "b1", quantity |-> 1, packedIn |-> None],
   [subject |-> "lot", quantity |-> 1, packedIn |-> "b2"]}
=============================================================================
