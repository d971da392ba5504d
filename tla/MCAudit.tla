------------------------------- MODULE MCAudit -------------------------------
(* The instance of GatewayAudit that TLC checks: an order o, a payment link *)
(* l and a capture k, and the two calls about the order.                   *)
EXTENDS GatewayAudit, TLC
CONSTANTS o, l, k, create, fetch

MCKind == o :> "order" @@ l :> "link" @@ k :> "nothing"
MCEndpointOf == create :> create_order @@ fetch :> fetch_order
MCCreateOf == o :> create
MCFetchOf == o :> fetch
==============================================================================
